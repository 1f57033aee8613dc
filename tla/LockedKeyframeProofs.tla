------------------------- MODULE LockedKeyframeProofs -------------------------
(***************************************************************************)
(* Theorems about LockedKeyframe, for any number of calls, plans,          *)
(* workflows, preflights and attempts.  An attempt belongs to the one call *)
(* that claimed it, and as long as it is in doubt it closes its stage of   *)
(* its workflow: what happens to a keyframe or a pilot happens to the only *)
(* one that is being made.  Each stage of each workflow is therefore a     *)
(* PaidStage.                                                              *)
(***************************************************************************)
EXTENDS LockedKeyframe, SequenceTheorems, TLAPS

Stage == {"KEYFRAME", "FIRST_VIDEO"}
FlowState == {"PREPARED", "KEYFRAME_READY", "AWAITING_HUMAN_APPROVAL", "KEYFRAME_APPROVED",
              "FIRST_VIDEO_RUNNING", "FIRST_VIDEO_FAILED", "FIRST_VIDEO_REVIEW", "FIRST_VIDEO_ACCEPTED",
              "FIRST_VIDEO_REJECTED", "CONTINUATION_STARTED"}
FlowRow == [shot : [plan : Plan, ref : Nat], state : FlowState]
KeyframeRow == [flow : Nat, validation : {"NONE", "PASS", "FAIL"}, approved : BOOLEAN]
PreflightRow == [stage : Stage, flow : Nat, revision : Nat, k : Nat, source : {"AI", "UPLOAD", "VIDEO"}]
AttemptRow == [flow : Nat, stage : Stage, p : Nat,
               status : InDoubt \cup {"SUCCEEDED", "FAILED"},
               boundary : {"NOT_CROSSED", "MAY_HAVE_STARTED", "COMPLETED"},
               safe : BOOLEAN, k : Nat]
Memory == [p : Nat, a : Nat, k : Nat, crossed : BOOLEAN, safe : BOOLEAN, ok : BOOLEAN]
Working == {"mark", "generate", "inspect", "store", "evaluate", "finish"}
Place == {"ready", "claim", "bind", "record", "fail"} \cup Working

TypeInv ==
  /\ shot \in [plan : Plan, ref : Nat] /\ revision \in 1 .. MaxRevisions /\ certified \in BOOLEAN
  /\ flows \in Seq(FlowRow) /\ keyframes \in Seq(KeyframeRow)
  /\ preflights \in Seq(PreflightRow) /\ attempts \in Seq(AttemptRow)
  /\ at \in [Call -> Place] /\ mem \in [Call -> Memory]
  /\ paid \subseteq 1 .. Len(attempts) /\ overtaken \in BOOLEAN /\ crashes \in Nat

\* The rows refer to rows that exist.
RefInv ==
  /\ shot.ref \in 0 .. Len(keyframes)
  /\ \A k \in 1 .. Len(keyframes) : keyframes[k].flow \in 1 .. Len(flows)
  /\ \A p \in 1 .. Len(preflights) :
       /\ preflights[p].flow \in 1 .. Len(flows) /\ preflights[p].k \in 0 .. Len(keyframes)
       /\ preflights[p].source = "VIDEO" <=> preflights[p].stage = "FIRST_VIDEO"
  /\ \A a \in 1 .. Len(attempts) :
       /\ attempts[a].p \in 1 .. Len(preflights)
       /\ attempts[a].flow = preflights[attempts[a].p].flow
       /\ attempts[a].stage = preflights[attempts[a].p].stage
       /\ attempts[a].k \in 0 .. Len(keyframes)

\* What a call has in hand, by where it stands.
Hand(c) ==
  /\ at[c] = "ready" => mem[c] = Idle
  /\ at[c] = "bind" => mem[c].p = 0 /\ mem[c].a = 0 /\ mem[c].k \in 1 .. Len(keyframes)
  /\ at[c] = "claim" => mem[c].p \in 1 .. Len(preflights) /\ mem[c] = [Idle EXCEPT !.p = mem[c].p]
  /\ at[c] \in Working \cup {"record", "fail"} =>
       /\ mem[c].a \in 1 .. Len(attempts) /\ mem[c].p = attempts[mem[c].a].p
       /\ mem[c].k \in 0 .. Len(keyframes)
       /\ at[c] = "evaluate" => mem[c].k # 0
HandInv == \A c \in Call : Hand(c)

\* A call that works holds a running attempt, alone, and has crossed the boundary when
\* it has paid.
Holds(c) ==
  /\ \A d \in Call : mem[d].a = mem[c].a => d = c
  /\ at[c] \in Working => attempts[mem[c].a].status = "RUNNING"
  /\ at[c] = "generate" \/ mem[c].a \in paid => mem[c].crossed
  /\ ~attempts[mem[c].a].safe
HoldInv == \A c \in Call : mem[c].a # 0 => Holds(c)

\* Before a stage of a workflow is attempted again the last attempt has ended; before a
\* preflight is, it has ended without a paid call.
OrderInv ==
  /\ \A a, b \in 1 .. Len(attempts) :
       a < b /\ attempts[a].flow = attempts[b].flow /\ attempts[a].stage = attempts[b].stage
         => attempts[a].status \notin InDoubt
  /\ \A a, b \in 1 .. Len(attempts) : a < b /\ attempts[a].p = attempts[b].p => attempts[a].safe
  /\ \A a \in 1 .. Len(attempts) : attempts[a].safe => attempts[a].status \notin InDoubt /\ a \notin paid

\* The newest keyframe of a workflow is the one in the hands of the call that makes it.
Newest(f, k) ==
  /\ keyframes[k].flow = f
  /\ \A j \in k + 1 .. Len(keyframes) : keyframes[j].flow # f
Holding(c) == at[c] = "evaluate" \/ (at[c] = "mark" /\ mem[c].k # 0)
Makes(c) ==
  /\ at[c] \in {"store", "inspect"} \/ Holding(c) => attempts[mem[c].a].stage = "KEYFRAME"
  /\ Holding(c) => Newest(FlowOf(c), mem[c].k) /\ keyframes[mem[c].k].validation = "NONE"
MakingInv == \A c \in Call : Makes(c)

\* A pilot shows the reference of the brief it was prepared from.
IsPilot(c) == mem[c].p # 0 /\ preflights[mem[c].p].stage = "FIRST_VIDEO"
PreparedInv ==
  \A p \in 1 .. Len(preflights) : preflights[p].stage = "FIRST_VIDEO" =>
    /\ preflights[p].k # 0 /\ preflights[p].revision <= revision
    /\ preflights[p].revision = revision => preflights[p].k = shot.ref
FilmedInv ==
  \A a \in 1 .. Len(attempts) : attempts[a].stage = "FIRST_VIDEO" => attempts[a].k = preflights[attempts[a].p].k
Films(c) ==
  /\ IsPilot(c) => /\ overtaken \/ preflights[mem[c].p].k = shot.ref
                   /\ at[c] \in {"finish", "record"} => mem[c].a \in paid
  /\ at[c] = "record" => IsPilot(c) /\ (mem[c].ok => attempts[mem[c].a].status = "SUCCEEDED")
FilmsInv == \A c \in Call : Films(c)
PilotInv == PreparedInv /\ FilmedInv /\ FilmsInv

IInv ==
  /\ TypeInv /\ RefInv /\ HandInv /\ HoldInv /\ OrderInv /\ MakingInv /\ PilotInv
  /\ NewestPassed /\ PilotShowsLookUnlessOvertaken

----------------------------------------------------------------------------
\* A call that goes elsewhere leaves the others where they stand.
LEMMA Gone ==
  ASSUME TypeInv, NEW c \in Call, NEW label \in Place, NEW m \in Memory, Go(c, label, m)
  PROVE  /\ at' \in [Call -> Place] /\ mem' \in [Call -> Memory]
         /\ at'[c] = label /\ mem'[c] = m
         /\ \A d \in Call : d # c => at'[d] = at[d] /\ mem'[d] = mem[d]
  BY DEF TypeInv, Go

LEMMA TypeOfMemory == \A c \in Call : TypeInv => mem[c] \in Memory
  BY DEF TypeInv

LEMMA IdleType == Idle \in Memory
  BY DEF Idle, Memory

\* A move of a workflow.
LEMMA Moved ==
  ASSUME TypeInv, NEW f \in 1 .. Len(flows), NEW to \in FlowState, Move(f, to)
  PROVE  /\ flows' \in Seq(FlowRow) /\ Len(flows') = Len(flows)
         /\ \A g \in 1 .. Len(flows) : flows'[g].shot = flows[g].shot
         /\ \A g \in 1 .. Len(flows) : flows'[g].state = IF g = f THEN to ELSE flows[g].state
<1>1. flows \in Seq(FlowRow) /\ flows[f] \in FlowRow
  BY ElementOfSeq DEF TypeInv
<1>2. [flows[f] EXCEPT !.state = to] \in FlowRow
  BY <1>1 DEF FlowRow
<1>3. flows' = [flows EXCEPT ![f] = [flows[f] EXCEPT !.state = to]]
  BY DEF Move
<1>4. /\ flows' \in Seq(FlowRow) /\ Len(flows') = Len(flows)
      /\ \A g \in 1 .. Len(flows) : flows'[g] = IF g = f THEN [flows[f] EXCEPT !.state = to] ELSE flows[g]
  BY <1>1, <1>2, <1>3, ExceptSeq
<1>5. flows[f].shot = [flows[f] EXCEPT !.state = to].shot /\ [flows[f] EXCEPT !.state = to].state = to
  BY <1>1 DEF FlowRow
<1> QED
  BY <1>4, <1>5

LEMMA Lengths ==
  ASSUME TypeInv
  PROVE  /\ Len(flows) \in Nat /\ Len(keyframes) \in Nat
         /\ Len(preflights) \in Nat /\ Len(attempts) \in Nat
  BY LenProperties DEF TypeInv

LEMMA Elements ==
  ASSUME TypeInv
  PROVE  /\ Len(flows) \in Nat /\ Len(keyframes) \in Nat
         /\ Len(preflights) \in Nat /\ Len(attempts) \in Nat
         /\ \A f \in 1 .. Len(flows) : flows[f] \in FlowRow
         /\ \A k \in 1 .. Len(keyframes) : keyframes[k] \in KeyframeRow
         /\ \A p \in 1 .. Len(preflights) : preflights[p] \in PreflightRow
         /\ \A a \in 1 .. Len(attempts) : attempts[a] \in AttemptRow
         /\ \A c \in Call : mem[c] \in Memory
  BY ElementOfSeq, LenProperties DEF TypeInv

\* An attempt that is written, and one that is inserted.
Writes(a, x) == attempts' = [attempts EXCEPT ![a] = x]
Inserts(x) == attempts' = Append(attempts, x)

LEMMA Written ==
  ASSUME TypeInv, NEW a \in 1 .. Len(attempts), NEW x \in AttemptRow, Writes(a, x)
  PROVE  /\ attempts' \in Seq(AttemptRow) /\ Len(attempts') = Len(attempts)
         /\ \A b \in 1 .. Len(attempts) : attempts'[b] = IF b = a THEN x ELSE attempts[b]
  BY ExceptSeq DEF TypeInv, Writes

LEMMA Inserted ==
  ASSUME TypeInv, NEW x \in AttemptRow, Inserts(x)
  PROVE  /\ attempts' \in Seq(AttemptRow) /\ Len(attempts') = Len(attempts) + 1
         /\ \A b \in 1 .. Len(attempts) : attempts'[b] = attempts[b]
         /\ attempts'[Len(attempts) + 1] = x
  BY AppendProperties DEF TypeInv, Inserts

\* What a working call does to its attempt: it marks the boundary of it.
Marked(x) == [x EXCEPT !.boundary = "MAY_HAVE_STARTED"]

LEMMA RowsWritten ==
  ASSUME NEW x \in AttemptRow, NEW m \in Memory
  PROVE  /\ Marked(x) \in AttemptRow /\ Finished(x, m) \in AttemptRow /\ Failed(x, m) \in AttemptRow
         /\ \A y \in {Marked(x), Finished(x, m), Failed(x, m)} :
              y.flow = x.flow /\ y.stage = x.stage /\ y.p = x.p
         /\ Marked(x).status = x.status /\ Marked(x).safe = x.safe /\ Marked(x).k = x.k
         /\ Finished(x, m).status = IF m.ok THEN "SUCCEEDED" ELSE "FAILED"
         /\ Finished(x, m).safe = x.safe /\ Finished(x, m).k = IF x.k = 0 THEN m.k ELSE x.k
         /\ Failed(x, m).status = IF m.crossed THEN "NEEDS_RECONCILIATION" ELSE "FAILED"
         /\ Failed(x, m).safe = (~m.crossed /\ m.safe) /\ Failed(x, m).k = x.k
  BY DEF AttemptRow, Memory, Marked, Finished, Failed, InDoubt

LEMMA Writing ==
  ASSUME TypeInv, HandInv, NEW c \in Call
  PROVE  /\ MarkBoundary(c) => Writes(mem[c].a, Marked(attempts[mem[c].a])) \/ UNCHANGED attempts
         /\ Finish(c) => \/ /\ Writes(mem[c].a, Finished(attempts[mem[c].a], mem[c]))
                             /\ attempts[mem[c].a].status = "RUNNING"
                          \/ UNCHANGED attempts
         /\ Fail(c) => \/ /\ Writes(mem[c].a, Failed(attempts[mem[c].a], mem[c]))
                           /\ attempts[mem[c].a].status = "RUNNING"
                        \/ UNCHANGED attempts
<1>1. MarkBoundary(c) => Writes(mem[c].a, Marked(attempts[mem[c].a])) \/ UNCHANGED attempts
  BY DEF MarkBoundary, Writes, Marked
<1>2. Finish(c) => \/ /\ Writes(mem[c].a, Finished(attempts[mem[c].a], mem[c]))
                      /\ attempts[mem[c].a].status = "RUNNING"
                   \/ UNCHANGED attempts
  BY DEF Finish, Writes
<1>3. Fail(c) => \/ /\ Writes(mem[c].a, Failed(attempts[mem[c].a], mem[c]))
                    /\ attempts[mem[c].a].status = "RUNNING"
                 \/ UNCHANGED attempts
  BY DEF Fail, Writes
<1> QED
  BY <1>1, <1>2, <1>3

\* A step of a call, and every other step.
Step(c) ==
  \/ ExecuteKeyframe(c) \/ StartFirstVideo(c) \/ Claim(c) \/ MarkBoundary(c)
  \/ Generate(c) \/ Inspect(c) \/ Store(c) \/ Evaluate(c) \/ Finish(c) \/ Fail(c)
  \/ RecordFirstVideo(c) \/ ApproveKeyframe(c) \/ Bind(c) \/ Crash(c)
Other == Edit \/ Certify \/ PreflightKeyframe \/ PreflightFirstVideo \/ DecidePilot \/ MoveByHand

LEMMA StepTurns ==
  ASSUME TypeInv, NEW c \in Call, Step(c)
  PROVE  \E label \in Place, m \in Memory : Go(c, label, m)
<1> USE IdleType DEF Place, Working
<1>0. at \in [Call -> Place] /\ mem \in [Call -> Memory]
  BY DEF TypeInv
<1>1. ASSUME ExecuteKeyframe(c) \/ StartFirstVideo(c) \/ Claim(c)
      PROVE  \E label \in Place, m \in Memory : Go(c, label, m)
  <2>0. \A p \in 1 .. Len(preflights) : [Idle EXCEPT !.p = p] \in Memory
    BY Lengths, IdleType DEF Memory
  <2>1. CASE ExecuteKeyframe(c)
    BY <2>0, <2>1 DEF ExecuteKeyframe
  <2>2. CASE StartFirstVideo(c)
    BY <2>0, <2>2 DEF StartFirstVideo
  <2>3. CASE Claim(c)
    <3>1. mem[c] \in Memory /\ Len(attempts) + 1 \in Nat
      BY Lengths DEF TypeInv
    <3>2. [mem[c] EXCEPT !.a = Len(attempts) + 1] \in Memory
      BY <3>1 DEF Memory
    <3> QED
      BY <2>3, <3>2 DEF Claim, Done
  <2> QED
    BY <1>1, <2>1, <2>2, <2>3
<1>2. ASSUME MarkBoundary(c) \/ Generate(c) \/ Inspect(c) \/ Store(c) \/ Evaluate(c)
      PROVE  \E label \in Place, m \in Memory : Go(c, label, m)
  <2>1. /\ mem[c] \in Memory
        /\ [mem[c] EXCEPT !.crossed = TRUE] \in Memory /\ [mem[c] EXCEPT !.safe = TRUE] \in Memory
        /\ [mem[c] EXCEPT !.k = Len(keyframes) + 1] \in Memory
        /\ \A ok \in BOOLEAN : [mem[c] EXCEPT !.ok = ok] \in Memory
    <3>1. mem[c] \in Memory /\ Len(keyframes) + 1 \in Nat
      BY <1>0, Lengths
    <3> QED
      BY <3>1 DEF Memory
  <2>2. CASE MarkBoundary(c)
    BY <2>1, <2>2 DEF MarkBoundary
  <2>3. CASE Generate(c) \/ Inspect(c)
    BY <2>1, <2>3 DEF Generate, Inspect
  <2>4. CASE Store(c)
    BY <2>1, <2>4 DEF Store
  <2>5. CASE Evaluate(c)
    BY <2>1, <2>5 DEF Evaluate
  <2> QED
    BY <1>2, <2>2, <2>3, <2>4, <2>5
<1>3. ASSUME Finish(c) \/ Fail(c) \/ RecordFirstVideo(c) \/ ApproveKeyframe(c) \/ Bind(c) \/ Crash(c)
      PROVE  \E label \in Place, m \in Memory : Go(c, label, m)
  <2>1. mem[c] \in Memory /\ \A k \in 1 .. Len(keyframes) : [Idle EXCEPT !.k = k] \in Memory
    <3>1. \A k \in 1 .. Len(keyframes) : [Idle EXCEPT !.k = k] \in Memory
      BY Lengths, IdleType DEF Memory
    <3> QED
      BY <1>0, <3>1
  <2>2. CASE Finish(c) \/ Fail(c) \/ RecordFirstVideo(c)
    BY <2>1, <2>2 DEF Finish, Fail, RecordFirstVideo, Done
  <2>3. CASE ApproveKeyframe(c)
    BY <2>1, <2>3 DEF ApproveKeyframe
  <2>4. CASE Bind(c) \/ Crash(c)
    BY <2>4 DEF Bind, Crash, Done
  <2> QED
    BY <1>3, <2>2, <2>3, <2>4
<1> QED
  BY <1>1, <1>2, <1>3 DEF Step

LEMMA OtherHolds == Other \/ UNCHANGED vars => UNCHANGED <<at, mem, paid>>
  BY DEF Other, Edit, Certify, PreflightKeyframe, PreflightFirstVideo, DecidePilot, MoveByHand, vars, history

LEMMA NextSteps == [Next]_vars => Other \/ UNCHANGED vars \/ \E c \in Call : Step(c)
  BY DEF Next, Other, Step

LEMMA CallsTyped ==
  ASSUME TypeInv, [Next]_vars
  PROVE  at' \in [Call -> Place] /\ mem' \in [Call -> Memory]
<1>1. CASE UNCHANGED <<at, mem>>
  BY <1>1 DEF TypeInv
<1>2. CASE \E c \in Call, label \in Place, m \in Memory : Go(c, label, m)
  BY <1>2, Gone
<1> QED
  BY <1>1, <1>2, OtherHolds, NextSteps, StepTurns

\* The brief is what it was, or is rewritten.
LEMMA DraftStep ==
  ASSUME TypeInv, RefInv, HandInv, [Next]_vars
  PROVE  /\ \/ UNCHANGED <<shot, revision, overtaken>>
            \/ /\ revision < MaxRevisions
               /\ \E s \in [plan : Plan, ref : 0 .. Len(keyframes)] : Rewrite(s)
               /\ UNCHANGED <<flows, keyframes, preflights, attempts, paid>>
               /\ \/ UNCHANGED <<at, mem>>
                  \/ \E c \in Call : at[c] = "bind" /\ Done(c)
         /\ certified' \in BOOLEAN
<1>0. shot \in [plan : Plan, ref : 0 .. Len(keyframes)] /\ certified \in BOOLEAN
  BY Lengths DEF TypeInv, RefInv
<1>1. CASE Edit
  <2>1. \A x \in Plan : [shot EXCEPT !.plan = x] \in [plan : Plan, ref : 0 .. Len(keyframes)]
    BY <1>0
  <2> QED
    BY <1>1, <2>1 DEF Edit, Rewrite
<1>2. ASSUME NEW c \in Call, Bind(c)
      PROVE  \/ UNCHANGED <<draft, overtaken>>
             \/ /\ revision < MaxRevisions
                /\ \E s \in [plan : Plan, ref : 0 .. Len(keyframes)] : Rewrite(s)
                /\ UNCHANGED <<flows, keyframes, preflights, attempts, paid>>
                /\ at[c] = "bind" /\ Done(c)
  <2>1. mem[c].k \in 0 .. Len(keyframes)
    <3>1. at[c] = "bind"
      BY <1>2 DEF Bind
    <3>2. mem[c].k \in 1 .. Len(keyframes)
      BY <3>1 DEF HandInv, Hand
    <3> QED
      BY <3>2, Lengths
  <2>2. Bound(mem[c].k) \in [plan : Plan, ref : 0 .. Len(keyframes)]
    BY <1>0, <2>1 DEF Bound
  <2> QED
    BY <1>2, <2>2 DEF Bind
<1>3. CASE Certify \/ PreflightKeyframe \/ PreflightFirstVideo \/ DecidePilot \/ MoveByHand \/ UNCHANGED vars
  BY <1>0, <1>3 DEF Certify, PreflightKeyframe, PreflightFirstVideo, DecidePilot, MoveByHand,
     vars, draft, history
<1>4. ASSUME NEW c \in Call,
             ExecuteKeyframe(c) \/ StartFirstVideo(c) \/ Claim(c) \/ MarkBoundary(c) \/ Generate(c)
             \/ Inspect(c) \/ Store(c)
      PROVE  UNCHANGED <<draft, overtaken>>
  BY <1>4 DEF ExecuteKeyframe, StartFirstVideo, Claim, MarkBoundary, Generate, Inspect, Store, draft, history
<1>5. ASSUME NEW c \in Call,
             Evaluate(c) \/ Finish(c) \/ Fail(c) \/ ApproveKeyframe(c) \/ Crash(c)
      PROVE  UNCHANGED <<draft, overtaken>>
  BY <1>5 DEF Evaluate, Finish, Fail, ApproveKeyframe, Crash, draft, history
<1>6. ASSUME NEW c \in Call, RecordFirstVideo(c)
      PROVE  UNCHANGED <<shot, revision, overtaken>> /\ certified' \in BOOLEAN
  BY <1>0, <1>6 DEF RecordFirstVideo, history
<1> QED
  BY <1>0, <1>1, <1>2, <1>3, <1>4, <1>5, <1>6 DEF Next, draft, Rewrite

\* A preflight is inserted, of a keyframe or of a video of the approved one.
KeyframeInserted(x) ==
  /\ x.stage = "KEYFRAME" /\ x.flow \in 1 .. Len(flows') /\ x.k = 0 /\ x.source # "VIDEO"
VideoInserted(x) ==
  /\ x = VideoPlan /\ ApprovedIdentity(shot.ref) /\ keyframes[shot.ref].flow = Latest
  /\ UNCHANGED flows

LEMMA PreflightStep ==
  ASSUME TypeInv, RefInv, [Next]_vars
  PROVE  \/ UNCHANGED preflights
         \/ /\ \E x \in PreflightRow :
                 preflights' = Append(preflights, x) /\ (KeyframeInserted(x) \/ VideoInserted(x))
            /\ UNCHANGED <<draft, keyframes, attempts, at, mem, history>>
<1>1. CASE PreflightKeyframe
  <2>1. PICK source \in {"AI", "UPLOAD"}, f \in 1 .. Latest + 1 :
          EnsureWorkflow(f) /\ Save(KeyframePlan(f, source))
    BY <1>1 DEF PreflightKeyframe
  <2>2. f \in 1 .. Len(flows') /\ f \in Nat
    <3>1. CASE flows' = flows /\ f <= Latest
      BY <3>1, Lengths DEF Latest
    <3>2. CASE f = Latest + 1 /\ flows' = Append(flows, [shot |-> shot, state |-> "PREPARED"])
      <4>1. [shot |-> shot, state |-> "PREPARED"] \in FlowRow
        BY DEF FlowRow, FlowState, TypeInv
      <4>2. Len(flows') = Len(flows) + 1
        BY <3>2, <4>1, AppendProperties DEF TypeInv
      <4> QED
        BY <3>2, <4>2, Lengths DEF Latest
    <3> QED
      BY <2>1, <3>1, <3>2 DEF EnsureWorkflow
  <2> DEFINE x == KeyframePlan(f, source)
  <2>3. revision \in Nat
    BY BoundsAssumption DEF TypeInv
  <2>4. x \in PreflightRow /\ KeyframeInserted(x)
    BY <2>2, <2>3 DEF KeyframePlan, PreflightRow, Stage, KeyframeInserted
  <2>5. UNCHANGED preflights \/ preflights' = Append(preflights, x)
    BY <2>1 DEF Save
  <2> QED
    BY <1>1, <2>4, <2>5 DEF PreflightKeyframe
<1>2. CASE PreflightFirstVideo
  <2>1. Latest \in Nat /\ revision \in Nat /\ shot.ref \in Nat
    BY Lengths, BoundsAssumption DEF TypeInv, Latest
  <2>2. VideoPlan \in PreflightRow
    BY <2>1 DEF VideoPlan, PreflightRow, Stage
  <2>3. UNCHANGED preflights \/ preflights' = Append(preflights, VideoPlan)
    BY <1>2 DEF PreflightFirstVideo, Save
  <2>4. VideoInserted(VideoPlan)
    BY <1>2 DEF PreflightFirstVideo, VideoInserted
  <2> QED
    BY <1>2, <2>2, <2>3, <2>4 DEF PreflightFirstVideo
<1>3. CASE Edit \/ Certify \/ DecidePilot \/ MoveByHand \/ UNCHANGED vars
  BY <1>3 DEF Edit, Certify, DecidePilot, MoveByHand, vars
<1>4. ASSUME NEW c \in Call,
             ExecuteKeyframe(c) \/ StartFirstVideo(c) \/ Claim(c) \/ MarkBoundary(c) \/ Generate(c)
             \/ Inspect(c) \/ Store(c)
      PROVE  UNCHANGED preflights
  BY <1>4 DEF ExecuteKeyframe, StartFirstVideo, Claim, MarkBoundary, Generate, Inspect, Store
<1>5. ASSUME NEW c \in Call,
             Evaluate(c) \/ Finish(c) \/ Fail(c) \/ RecordFirstVideo(c) \/ ApproveKeyframe(c)
             \/ Bind(c) \/ Crash(c)
      PROVE  UNCHANGED preflights
  BY <1>5 DEF Evaluate, Finish, Fail, RecordFirstVideo, ApproveKeyframe, Bind, Crash
<1> QED
  BY <1>1, <1>2, <1>3, <1>4, <1>5 DEF Next

\* An attempt is inserted by a claim, or written by the call that holds it.
Claimed(p) == [flow |-> preflights[p].flow, stage |-> preflights[p].stage, p |-> p,
               status |-> "RUNNING", boundary |-> "NOT_CROSSED", safe |-> FALSE, k |-> preflights[p].k]

LEMMA StepAttempt ==
  ASSUME TypeInv, HandInv, HoldInv, NEW c \in Call, Step(c)
  PROVE  \/ UNCHANGED attempts
         \/ /\ at[c] = "claim" /\ Open(mem[c].p) /\ Retriable(mem[c].p) /\ Inserts(Claimed(mem[c].p))
            /\ UNCHANGED <<preflights, keyframes, flows, paid>>
         \/ /\ mem[c].a \in 1 .. Len(attempts) /\ attempts[mem[c].a].status = "RUNNING"
            /\ \/ at[c] = "mark" /\ Writes(mem[c].a, Marked(attempts[mem[c].a]))
               \/ /\ at[c] = "finish" /\ Writes(mem[c].a, Finished(attempts[mem[c].a], mem[c]))
                  /\ Done(c) \/ Go(c, "record", mem[c])
               \/ at[c] = "fail" /\ Writes(mem[c].a, Failed(attempts[mem[c].a], mem[c])) /\ Done(c)
            /\ UNCHANGED <<preflights, keyframes, flows, paid>>
<1>1. CASE ExecuteKeyframe(c) \/ StartFirstVideo(c) \/ Generate(c) \/ Inspect(c) \/ Store(c)
  BY <1>1 DEF ExecuteKeyframe, StartFirstVideo, Generate, Inspect, Store
<1>2. CASE Evaluate(c) \/ RecordFirstVideo(c) \/ ApproveKeyframe(c) \/ Bind(c) \/ Crash(c)
  BY <1>2 DEF Evaluate, RecordFirstVideo, ApproveKeyframe, Bind, Crash
<1>3. CASE Claim(c)
  BY <1>3 DEF Claim, Inserts, Claimed, history
<1>4. CASE MarkBoundary(c) \/ Finish(c) \/ Fail(c)
  <2>1. at[c] \in {"mark", "finish", "fail"} /\ UNCHANGED <<preflights, keyframes, flows, paid>>
    BY <1>4 DEF MarkBoundary, Finish, Fail, history
  <2>2. mem[c].a \in 1 .. Len(attempts)
    BY <2>1 DEF HandInv, Hand, Working
  <2>3. at[c] = "mark" => attempts[mem[c].a].status = "RUNNING"
    BY <2>2, Lengths DEF HoldInv, Holds, Working
  <2>4. /\ MarkBoundary(c) => at[c] = "mark"
        /\ Finish(c) => at[c] = "finish"
        /\ Fail(c) => at[c] = "fail" /\ Done(c)
    BY DEF MarkBoundary, Finish, Fail
  <2>5. Finish(c) => UNCHANGED attempts \/ Done(c) \/ Go(c, "record", mem[c])
    BY DEF Finish
  <2> QED
    BY <1>4, <2>1, <2>2, <2>3, <2>4, <2>5, Writing
<1> QED
  BY <1>1, <1>2, <1>3, <1>4 DEF Step

LEMMA OtherAttempts == Other \/ UNCHANGED vars => UNCHANGED attempts
  BY DEF Other, Edit, Certify, PreflightKeyframe, PreflightFirstVideo, DecidePilot, MoveByHand, vars

LEMMA AttemptStep ==
  ASSUME TypeInv, HandInv, HoldInv, [Next]_vars
  PROVE  \/ UNCHANGED attempts
         \/ \E c \in Call :
              /\ at[c] = "claim" /\ Open(mem[c].p) /\ Retriable(mem[c].p) /\ Inserts(Claimed(mem[c].p))
              /\ UNCHANGED <<preflights, keyframes, flows, paid>>
         \/ \E c \in Call :
              /\ mem[c].a \in 1 .. Len(attempts) /\ attempts[mem[c].a].status = "RUNNING"
              /\ \E x \in {Marked(attempts[mem[c].a]), Finished(attempts[mem[c].a], mem[c]),
                           Failed(attempts[mem[c].a], mem[c])} : Writes(mem[c].a, x)
              /\ UNCHANGED <<preflights, keyframes, flows, paid>>
  BY StepAttempt, OtherAttempts, NextSteps

\* A keyframe is inserted, evaluated or approved.
LEMMA StepKeyframe ==
  ASSUME NEW c \in Call, Step(c)
  PROVE  \/ UNCHANGED keyframes
         \/ /\ at[c] = "store" /\ Store(c)
            /\ keyframes' = Append(keyframes, [flow |-> FlowOf(c), validation |-> "NONE", approved |-> FALSE])
         \/ \E v \in {"PASS", "FAIL"} :
              /\ at[c] = "evaluate" /\ Evaluate(c)
              /\ keyframes' = [keyframes EXCEPT ![mem[c].k].validation = v]
         \/ \E k \in 1 .. Len(keyframes) :
              ApproveKeyframe(c) /\ keyframes' = [keyframes EXCEPT ![k].approved = TRUE]
<1>1. CASE ExecuteKeyframe(c) \/ StartFirstVideo(c) \/ Claim(c) \/ MarkBoundary(c) \/ Generate(c) \/ Inspect(c)
  BY <1>1 DEF ExecuteKeyframe, StartFirstVideo, Claim, MarkBoundary, Generate, Inspect
<1>2. CASE Finish(c) \/ Fail(c) \/ RecordFirstVideo(c) \/ Bind(c) \/ Crash(c)
  BY <1>2 DEF Finish, Fail, RecordFirstVideo, Bind, Crash
<1>3. ASSUME Store(c)
      PROVE  \/ UNCHANGED keyframes
             \/ /\ at[c] = "store"
                /\ keyframes' = Append(keyframes, [flow |-> FlowOf(c), validation |-> "NONE", approved |-> FALSE])
  BY <1>3 DEF Store
<1>4. ASSUME Evaluate(c)
      PROVE  \/ UNCHANGED keyframes
             \/ \E v \in {"PASS", "FAIL"} :
                  at[c] = "evaluate" /\ keyframes' = [keyframes EXCEPT ![mem[c].k].validation = v]
  BY <1>4 DEF Evaluate
<1>5. ASSUME ApproveKeyframe(c)
      PROVE  \E k \in 1 .. Len(keyframes) : keyframes' = [keyframes EXCEPT ![k].approved = TRUE]
  BY <1>5 DEF ApproveKeyframe
<1> QED
  BY <1>1, <1>2, <1>3, <1>4, <1>5 DEF Step

LEMMA OtherKeyframes == Other \/ UNCHANGED vars => UNCHANGED keyframes
  BY DEF Other, Edit, Certify, PreflightKeyframe, PreflightFirstVideo, DecidePilot, MoveByHand, vars

LEMMA KeyframeStep ==
  ASSUME [Next]_vars
  PROVE  \/ UNCHANGED keyframes
         \/ \E c \in Call : at[c] = "store" /\ Store(c)
              /\ keyframes' = Append(keyframes, [flow |-> FlowOf(c), validation |-> "NONE", approved |-> FALSE])
         \/ \E c \in Call, v \in {"PASS", "FAIL"} :
              /\ at[c] = "evaluate" /\ Evaluate(c)
              /\ keyframes' = [keyframes EXCEPT ![mem[c].k].validation = v]
         \/ \E c \in Call, k \in 1 .. Len(keyframes) :
              ApproveKeyframe(c) /\ keyframes' = [keyframes EXCEPT ![k].approved = TRUE]
  BY StepKeyframe, OtherKeyframes, NextSteps

LEMMA KeyframesStay ==
  ASSUME TypeInv, RefInv, HandInv, [Next]_vars
  PROVE  /\ keyframes' \in Seq(KeyframeRow) /\ Len(keyframes) <= Len(keyframes')
         /\ \A k \in 1 .. Len(keyframes) : keyframes'[k].flow = keyframes[k].flow
         /\ \A k \in 1 .. Len(keyframes') : keyframes'[k].flow \in 1 .. Len(flows)
<1>1. keyframes \in Seq(KeyframeRow) /\ Len(keyframes) \in Nat
  BY Lengths DEF TypeInv
<1>2. \A k \in 1 .. Len(keyframes) : keyframes[k].flow \in 1 .. Len(flows)
  BY DEF RefInv
<1>3. CASE UNCHANGED keyframes
  BY <1>1, <1>2, <1>3
<1>4. ASSUME NEW c \in Call, at[c] = "store",
             keyframes' = Append(keyframes, [flow |-> FlowOf(c), validation |-> "NONE", approved |-> FALSE])
      PROVE  /\ keyframes' \in Seq(KeyframeRow) /\ Len(keyframes') = Len(keyframes) + 1
             /\ \A k \in 1 .. Len(keyframes) : keyframes'[k] = keyframes[k]
             /\ keyframes'[Len(keyframes) + 1].flow \in 1 .. Len(flows)
  <2>1. mem[c].a \in 1 .. Len(attempts)
    BY <1>4 DEF HandInv, Hand, Working
  <2>2. FlowOf(c) \in 1 .. Len(flows)
    BY <2>1 DEF FlowOf, RefInv
  <2>3. [flow |-> FlowOf(c), validation |-> "NONE", approved |-> FALSE] \in KeyframeRow
    BY <2>2, Lengths DEF KeyframeRow
  <2> QED
    BY <1>1, <1>4, <2>2, <2>3, AppendProperties
<1>5. ASSUME NEW k \in 1 .. Len(keyframes), NEW x \in KeyframeRow, x.flow = keyframes[k].flow,
             keyframes' = [keyframes EXCEPT ![k] = x]
      PROVE  /\ keyframes' \in Seq(KeyframeRow) /\ Len(keyframes') = Len(keyframes)
             /\ \A j \in 1 .. Len(keyframes) : keyframes'[j].flow = keyframes[j].flow
  BY <1>1, <1>5, ExceptSeq
<1>6. ASSUME NEW c \in Call, NEW v \in {"PASS", "FAIL"}, at[c] = "evaluate", Evaluate(c),
             keyframes' = [keyframes EXCEPT ![mem[c].k].validation = v]
      PROVE  \E k \in 1 .. Len(keyframes), x \in KeyframeRow :
               x.flow = keyframes[k].flow /\ keyframes' = [keyframes EXCEPT ![k] = x]
  <2>1. mem[c].k \in 1 .. Len(keyframes)
    <3>1. at[c] \in Working \cup {"record", "fail"}
      BY <1>6 DEF Working
    <3>2. mem[c].k \in 0 .. Len(keyframes) /\ mem[c].k # 0
      BY <1>6, <3>1 DEF HandInv, Hand
    <3> QED
      BY <3>2, Lengths
  <2>2. keyframes[mem[c].k] \in KeyframeRow
    BY <2>1, Elements
  <2>3. [keyframes[mem[c].k] EXCEPT !.validation = v] \in KeyframeRow
    BY <2>2 DEF KeyframeRow
  <2>4. [keyframes[mem[c].k] EXCEPT !.validation = v].flow = keyframes[mem[c].k].flow
    BY <2>2 DEF KeyframeRow
  <2> QED
    BY <1>6, <2>1, <2>3, <2>4
<1>7. ASSUME NEW k \in 1 .. Len(keyframes), keyframes' = [keyframes EXCEPT ![k].approved = TRUE]
      PROVE  \E x \in KeyframeRow :
               x.flow = keyframes[k].flow /\ keyframes' = [keyframes EXCEPT ![k] = x]
  <2>2. keyframes[k] \in KeyframeRow
    BY Elements
  <2>3. [keyframes[k] EXCEPT !.approved = TRUE] \in KeyframeRow
    BY <2>2 DEF KeyframeRow
  <2>4. [keyframes[k] EXCEPT !.approved = TRUE].flow = keyframes[k].flow
    BY <2>2 DEF KeyframeRow
  <2> QED
    BY <1>7, <2>3, <2>4
<1>8. (\E k \in 1 .. Len(keyframes), x \in KeyframeRow :
         x.flow = keyframes[k].flow /\ keyframes' = [keyframes EXCEPT ![k] = x])
      => /\ keyframes' \in Seq(KeyframeRow) /\ Len(keyframes') = Len(keyframes)
         /\ \A j \in 1 .. Len(keyframes) : keyframes'[j].flow = keyframes[j].flow
  BY <1>5
<1> QED
  <2>1. CASE \E c \in Call : at[c] = "store"
           /\ keyframes' = Append(keyframes, [flow |-> FlowOf(c), validation |-> "NONE", approved |-> FALSE])
    <3>1. /\ keyframes' \in Seq(KeyframeRow) /\ Len(keyframes') = Len(keyframes) + 1
          /\ \A k \in 1 .. Len(keyframes) : keyframes'[k] = keyframes[k]
          /\ keyframes'[Len(keyframes) + 1].flow \in 1 .. Len(flows)
      BY <1>4, <2>1
    <3>2. \A k \in 1 .. Len(keyframes) + 1 : k \in 1 .. Len(keyframes) \/ k = Len(keyframes) + 1
      BY <1>1
    <3> QED
      BY <1>1, <1>2, <3>1, <3>2
  <2>2. CASE \E k \in 1 .. Len(keyframes), x \in KeyframeRow :
               x.flow = keyframes[k].flow /\ keyframes' = [keyframes EXCEPT ![k] = x]
    <3>1. /\ keyframes' \in Seq(KeyframeRow) /\ Len(keyframes') = Len(keyframes)
          /\ \A j \in 1 .. Len(keyframes) : keyframes'[j].flow = keyframes[j].flow
      BY <1>8, <2>2
    <3> QED
      BY <1>1, <1>2, <3>1
  <2> QED
    BY <1>3, <1>6, <1>7, <2>1, <2>2, KeyframeStep

LEMMA FlowOfHeld ==
  ASSUME RefInv, HandInv, NEW c \in Call, at[c] \in Working \cup {"record", "fail"}
  PROVE  FlowOf(c) \in 1 .. Len(flows) /\ mem[c].a \in 1 .. Len(attempts)
  BY DEF FlowOf, RefInv, HandInv, Hand

LEMMA Held ==
  ASSUME TypeInv, HandInv, NEW c \in Call, mem[c].a # 0
  PROVE  /\ at[c] \in Working \cup {"record", "fail"} /\ mem[c].a \in 1 .. Len(attempts)
         /\ mem[c].p = attempts[mem[c].a].p /\ mem[c].k \in 0 .. Len(keyframes)
<1>1. at[c] \in {"ready", "claim", "bind"} \cup (Working \cup {"record", "fail"})
  BY DEF TypeInv, Place
<1>2. Idle.a = 0 /\ \A p : [Idle EXCEPT !.p = p].a = 0
  BY DEF Idle
<1>3. at[c] \notin {"ready", "claim", "bind"}
  BY <1>2 DEF HandInv, Hand
<1> QED
  BY <1>1, <1>3 DEF HandInv, Hand

\* A workflow is inserted or moved.
LEMMA FlowStep ==
  ASSUME TypeInv, RefInv, HandInv, [Next]_vars
  PROVE  \/ UNCHANGED flows
         \/ flows' = Append(flows, [shot |-> shot, state |-> "PREPARED"])
         \/ \E f \in 1 .. Len(flows), to \in FlowState : Move(f, to)
<1> USE DEF FlowState
<1>1. CASE Edit \/ Certify \/ PreflightFirstVideo \/ UNCHANGED vars
  BY <1>1 DEF Edit, Certify, PreflightFirstVideo, vars
<1>2. CASE PreflightKeyframe
  BY <1>2 DEF PreflightKeyframe, EnsureWorkflow
<1>3. CASE DecidePilot
  BY <1>3, Lengths DEF DecidePilot, Latest
<1>4. CASE MoveByHand
  BY <1>4 DEF MoveByHand, Latest
<1>5. ASSUME NEW c \in Call,
             ExecuteKeyframe(c) \/ StartFirstVideo(c) \/ Claim(c) \/ MarkBoundary(c) \/ Generate(c) \/ Inspect(c)
      PROVE  UNCHANGED flows
  BY <1>5 DEF ExecuteKeyframe, StartFirstVideo, Claim, MarkBoundary, Generate, Inspect
<1>6. ASSUME NEW c \in Call, Finish(c) \/ Fail(c) \/ Bind(c) \/ Crash(c)
      PROVE  UNCHANGED flows
  BY <1>6 DEF Finish, Fail, Bind, Crash
<1>7. ASSUME NEW c \in Call, Store(c) \/ Evaluate(c) \/ RecordFirstVideo(c)
      PROVE  UNCHANGED flows \/ \E f \in 1 .. Len(flows), to \in FlowState : Move(f, to)
  <2>1. at[c] \in {"store", "evaluate", "record"}
    BY <1>7 DEF Store, Evaluate, RecordFirstVideo
  <2>2. FlowOf(c) \in 1 .. Len(flows)
    BY <2>1, FlowOfHeld DEF Working
  <2> QED
    BY <1>7, <2>2 DEF Store, Evaluate, RecordFirstVideo
<1>8. ASSUME NEW c \in Call, ApproveKeyframe(c)
      PROVE  \E f \in 1 .. Len(flows), to \in FlowState : Move(f, to)
  BY <1>8 DEF ApproveKeyframe, RefInv
<1> QED
  BY <1>1, <1>2, <1>3, <1>4, <1>5, <1>6, <1>7, <1>8 DEF Next

LEMMA FlowsStay ==
  ASSUME TypeInv, RefInv, HandInv, [Next]_vars
  PROVE  flows' \in Seq(FlowRow) /\ Len(flows) <= Len(flows')
<1>1. flows \in Seq(FlowRow) /\ Len(flows) \in Nat
  BY Lengths DEF TypeInv
<1>2. [shot |-> shot, state |-> "PREPARED"] \in FlowRow
  BY DEF FlowRow, FlowState, TypeInv
<1>3. CASE flows' = Append(flows, [shot |-> shot, state |-> "PREPARED"])
  BY <1>1, <1>2, <1>3, AppendProperties
<1>4. CASE \E f \in 1 .. Len(flows), to \in FlowState : Move(f, to)
  BY <1>1, <1>4, Moved
<1> QED
  BY <1>1, <1>3, <1>4, FlowStep

LEMMA PreflightsStay ==
  ASSUME TypeInv, RefInv, [Next]_vars
  PROVE  /\ preflights' \in Seq(PreflightRow) /\ Len(preflights) <= Len(preflights')
         /\ \A p \in 1 .. Len(preflights) : preflights'[p] = preflights[p]
<1>1. preflights \in Seq(PreflightRow) /\ Len(preflights) \in Nat
  BY Lengths DEF TypeInv
<1>2. CASE UNCHANGED preflights
  BY <1>1, <1>2
<1>3. ASSUME NEW x \in PreflightRow, preflights' = Append(preflights, x)
      PROVE  /\ preflights' \in Seq(PreflightRow) /\ Len(preflights) <= Len(preflights')
             /\ \A p \in 1 .. Len(preflights) : preflights'[p] = preflights[p]
  BY <1>1, <1>3, AppendProperties
<1> QED
  BY <1>2, <1>3, PreflightStep

\* A claim appends the attempt of its preflight.
LEMMA InsertedClaim ==
  ASSUME TypeInv, HandInv, NEW c \in Call, at[c] = "claim", Inserts(Claimed(mem[c].p))
  PROVE  /\ attempts' \in Seq(AttemptRow) /\ Len(attempts') = Len(attempts) + 1
         /\ \A a \in 1 .. Len(attempts) : attempts'[a] = attempts[a]
         /\ attempts'[Len(attempts) + 1] = Claimed(mem[c].p)
         /\ mem[c].p \in 1 .. Len(preflights) /\ preflights[mem[c].p] \in PreflightRow
<1>1. mem[c].p \in 1 .. Len(preflights)
  BY DEF HandInv, Hand
<1>2. preflights[mem[c].p] \in PreflightRow /\ mem[c].p \in Nat
  BY <1>1, Elements, Lengths
<1>3. Claimed(mem[c].p) \in AttemptRow
  BY <1>2 DEF Claimed, AttemptRow, PreflightRow, InDoubt
<1> QED
  BY <1>1, <1>2, <1>3, Inserted

\* An attempt keeps its workflow, its stage and its preflight, and is written while it runs only.
LEMMA AttemptsStay ==
  ASSUME TypeInv, RefInv, HandInv, HoldInv, [Next]_vars
  PROVE  /\ attempts' \in Seq(AttemptRow) /\ Len(attempts) <= Len(attempts')
         /\ \A a \in 1 .. Len(attempts) :
              /\ attempts'[a].flow = attempts[a].flow /\ attempts'[a].stage = attempts[a].stage
              /\ attempts'[a].p = attempts[a].p
              /\ attempts[a].status # "RUNNING" => attempts'[a] = attempts[a]
<1>1. attempts \in Seq(AttemptRow) /\ Len(attempts) \in Nat
  BY Lengths DEF TypeInv
<1>2. CASE UNCHANGED attempts
  BY <1>1, <1>2
<1>3. ASSUME NEW c \in Call, at[c] = "claim", Inserts(Claimed(mem[c].p))
      PROVE  /\ attempts' \in Seq(AttemptRow) /\ Len(attempts') = Len(attempts) + 1
             /\ \A a \in 1 .. Len(attempts) : attempts'[a] = attempts[a]
  BY <1>3, InsertedClaim
<1>4. ASSUME NEW c \in Call, mem[c].a \in 1 .. Len(attempts), attempts[mem[c].a].status = "RUNNING",
             NEW x \in {Marked(attempts[mem[c].a]), Finished(attempts[mem[c].a], mem[c]),
                        Failed(attempts[mem[c].a], mem[c])},
             Writes(mem[c].a, x)
      PROVE  /\ attempts' \in Seq(AttemptRow) /\ Len(attempts') = Len(attempts)
             /\ \A a \in 1 .. Len(attempts) :
                  /\ attempts'[a].flow = attempts[a].flow /\ attempts'[a].stage = attempts[a].stage
                  /\ attempts'[a].p = attempts[a].p
                  /\ attempts[a].status # "RUNNING" => attempts'[a] = attempts[a]
  <2>1. attempts[mem[c].a] \in AttemptRow /\ mem[c] \in Memory
    BY <1>4, Elements DEF TypeInv
  <2>2. /\ x \in AttemptRow /\ x.flow = attempts[mem[c].a].flow
        /\ x.stage = attempts[mem[c].a].stage /\ x.p = attempts[mem[c].a].p
    BY <1>4, <2>1, RowsWritten
  <2>3. /\ attempts' \in Seq(AttemptRow) /\ Len(attempts') = Len(attempts)
        /\ \A b \in 1 .. Len(attempts) : attempts'[b] = IF b = mem[c].a THEN x ELSE attempts[b]
    BY <1>4, <2>2, Written
  <2> QED
    BY <1>4, <2>2, <2>3
<1> QED
  <2>1. CASE \E c \in Call : at[c] = "claim" /\ Inserts(Claimed(mem[c].p))
    BY <1>1, <1>3, <2>1
  <2>2. CASE \E c \in Call :
              /\ mem[c].a \in 1 .. Len(attempts) /\ attempts[mem[c].a].status = "RUNNING"
              /\ \E x \in {Marked(attempts[mem[c].a]), Finished(attempts[mem[c].a], mem[c]),
                           Failed(attempts[mem[c].a], mem[c])} : Writes(mem[c].a, x)
    BY <1>1, <1>4, <2>2
  <2> QED
    BY <1>2, <2>1, <2>2, AttemptStep

LEMMA StepPays ==
  ASSUME NEW c \in Call, Step(c)
  PROVE  \/ UNCHANGED paid
         \/ /\ at[c] = "generate" /\ paid' = paid \cup {mem[c].a}
            /\ UNCHANGED <<flows, keyframes, preflights, attempts>>
<1>1. CASE ExecuteKeyframe(c) \/ StartFirstVideo(c) \/ Claim(c) \/ MarkBoundary(c) \/ Inspect(c) \/ Store(c)
  BY <1>1 DEF ExecuteKeyframe, StartFirstVideo, Claim, MarkBoundary, Inspect, Store, history
<1>2. CASE Evaluate(c) \/ Finish(c) \/ Fail(c) \/ RecordFirstVideo(c) \/ ApproveKeyframe(c) \/ Bind(c)
           \/ Crash(c)
  BY <1>2 DEF Evaluate, Finish, Fail, RecordFirstVideo, ApproveKeyframe, Bind, Crash, history
<1>3. CASE Generate(c)
  BY <1>3 DEF Generate
<1> QED
  BY <1>1, <1>2, <1>3 DEF Step

LEMMA HistoryStep ==
  ASSUME TypeInv, [Next]_vars
  PROVE  /\ crashes' \in Nat
         /\ \/ UNCHANGED paid
            \/ \E c \in Call : /\ at[c] = "generate" /\ paid' = paid \cup {mem[c].a}
                               /\ UNCHANGED <<flows, keyframes, preflights, attempts>>
<1>0. crashes \in Nat
  BY DEF TypeInv
<1>1. CASE Other \/ UNCHANGED vars
  BY <1>0, <1>1 DEF Other, Edit, Certify, PreflightKeyframe, PreflightFirstVideo, DecidePilot, MoveByHand,
     vars, history
<1>2. ASSUME NEW c \in Call, ExecuteKeyframe(c) \/ StartFirstVideo(c) \/ Claim(c) \/ MarkBoundary(c)
             \/ Generate(c) \/ Inspect(c) \/ Store(c)
      PROVE  UNCHANGED crashes
  BY <1>2 DEF ExecuteKeyframe, StartFirstVideo, Claim, MarkBoundary, Generate, Inspect, Store, history
<1>3. ASSUME NEW c \in Call, Evaluate(c) \/ Finish(c) \/ Fail(c) \/ RecordFirstVideo(c) \/ ApproveKeyframe(c)
             \/ Bind(c)
      PROVE  UNCHANGED crashes
  BY <1>3 DEF Evaluate, Finish, Fail, RecordFirstVideo, ApproveKeyframe, Bind, history
<1>4. ASSUME NEW c \in Call, Crash(c)
      PROVE  crashes' \in Nat
  BY <1>0, <1>4 DEF Crash
<1>5. ASSUME NEW c \in Call, Step(c)
      PROVE  crashes' \in Nat
  BY <1>0, <1>2, <1>3, <1>4, <1>5 DEF Step
<1> QED
  BY <1>0, <1>1, <1>5, StepPays, OtherHolds, NextSteps

LEMMA TypeStep ==
  ASSUME TypeInv, RefInv, HandInv, HoldInv, [Next]_vars
  PROVE  TypeInv'
<1>1. /\ shot' \in [plan : Plan, ref : Nat] /\ revision' \in 1 .. MaxRevisions
      /\ overtaken' \in BOOLEAN /\ certified' \in BOOLEAN
  <2>1. CASE UNCHANGED <<shot, revision, overtaken>>
    BY <2>1, DraftStep DEF TypeInv
  <2>2. ASSUME NEW s \in [plan : Plan, ref : 0 .. Len(keyframes)], Rewrite(s), revision < MaxRevisions
        PROVE  /\ shot' \in [plan : Plan, ref : Nat] /\ revision' \in 1 .. MaxRevisions
               /\ overtaken' \in BOOLEAN
    BY <2>2, BoundsAssumption, Lengths DEF TypeInv, Rewrite
  <2> QED
    BY <2>1, <2>2, DraftStep
<1>2. paid' \subseteq 1 .. Len(attempts')
  <2>1. paid \subseteq 1 .. Len(attempts) /\ Len(attempts) \in Nat
    BY Lengths DEF TypeInv
  <2>2. Len(attempts) <= Len(attempts') /\ Len(attempts') \in Nat
    BY AttemptsStay, LenProperties
  <2>3. ASSUME NEW c \in Call, at[c] = "generate"
        PROVE  mem[c].a \in 1 .. Len(attempts)
    BY <2>3, FlowOfHeld DEF Working
  <2>4. ASSUME NEW c \in Call, at[c] = "generate", paid' = paid \cup {mem[c].a}, UNCHANGED attempts
        PROVE  paid' \subseteq 1 .. Len(attempts')
    BY <2>1, <2>3, <2>4
  <2>5. CASE UNCHANGED paid
    BY <2>1, <2>2, <2>5
  <2> QED
    BY <2>4, <2>5, HistoryStep
<1> QED
  BY <1>1, <1>2, CallsTyped, FlowsStay, KeyframesStay, PreflightsStay, AttemptsStay, HistoryStep DEF TypeInv

LEMMA RefStep ==
  ASSUME TypeInv, RefInv, HandInv, HoldInv, [Next]_vars
  PROVE  RefInv'
<1>0. /\ Len(flows) \in Nat /\ Len(keyframes) \in Nat /\ Len(preflights) \in Nat /\ Len(attempts) \in Nat
      /\ Len(flows') \in Nat /\ Len(keyframes') \in Nat /\ Len(preflights') \in Nat /\ Len(attempts') \in Nat
      /\ Len(flows) <= Len(flows') /\ Len(keyframes) <= Len(keyframes') /\ Len(preflights) <= Len(preflights')
      /\ Len(attempts) <= Len(attempts')
  BY Lengths, LenProperties, FlowsStay, KeyframesStay, PreflightsStay, AttemptsStay
<1>1. shot'.ref \in 0 .. Len(keyframes')
  <2>1. shot.ref \in 0 .. Len(keyframes)
    BY DEF RefInv
  <2>2. ASSUME NEW s \in [plan : Plan, ref : 0 .. Len(keyframes)], Rewrite(s)
        PROVE  shot'.ref \in 0 .. Len(keyframes)
    BY <2>2 DEF Rewrite
  <2> QED
    BY <1>0, <2>1, <2>2, DraftStep
<1>2. \A k \in 1 .. Len(keyframes') : keyframes'[k].flow \in 1 .. Len(flows')
  BY <1>0, KeyframesStay
<1>3. ASSUME NEW p \in 1 .. Len(preflights')
      PROVE  /\ preflights'[p].flow \in 1 .. Len(flows') /\ preflights'[p].k \in 0 .. Len(keyframes')
             /\ preflights'[p].source = "VIDEO" <=> preflights'[p].stage = "FIRST_VIDEO"
  <2>1. CASE p \in 1 .. Len(preflights)
    <3>1. preflights'[p] = preflights[p]
      BY <2>1, PreflightsStay
    <3> QED
      BY <1>0, <2>1, <3>1 DEF RefInv
  <2>2. ASSUME NEW x \in PreflightRow, preflights' = Append(preflights, x), p \notin 1 .. Len(preflights)
        PROVE  p = Len(preflights) + 1 /\ preflights'[p] = x
    <3>1. Len(preflights') = Len(preflights) + 1 /\ preflights'[Len(preflights) + 1] = x
      BY <2>2, AppendProperties DEF TypeInv
    <3> QED
      BY <1>0, <2>2, <3>1
  <2>3. ASSUME NEW x \in PreflightRow, preflights' = Append(preflights, x), p \notin 1 .. Len(preflights),
               KeyframeInserted(x)
        PROVE  /\ x.flow \in 1 .. Len(flows') /\ x.k \in 0 .. Len(keyframes')
               /\ x.source = "VIDEO" <=> x.stage = "FIRST_VIDEO"
    BY <1>0, <2>3 DEF KeyframeInserted
  <2>4. ASSUME NEW x \in PreflightRow, preflights' = Append(preflights, x), p \notin 1 .. Len(preflights),
               VideoInserted(x)
        PROVE  /\ x.flow \in 1 .. Len(flows') /\ x.k \in 0 .. Len(keyframes')
               /\ x.source = "VIDEO" <=> x.stage = "FIRST_VIDEO"
    <3>1. shot.ref \in 1 .. Len(keyframes)
      BY <1>0, <2>4 DEF VideoInserted, ApprovedIdentity, RefInv
    <3>2. Latest \in 1 .. Len(flows)
      BY <2>4, <3>1 DEF VideoInserted, RefInv
    <3> QED
      BY <1>0, <2>4, <3>1, <3>2 DEF VideoInserted, VideoPlan
  <2>5. CASE p \notin 1 .. Len(preflights)
    <3>1. preflights' # preflights
      BY <2>5
    <3> QED
      BY <2>2, <2>3, <2>4, <2>5, <3>1, PreflightStep
  <2> QED
    BY <2>1, <2>5
<1>4. ASSUME NEW a \in 1 .. Len(attempts')
      PROVE  /\ attempts'[a].p \in 1 .. Len(preflights')
             /\ attempts'[a].flow = preflights'[attempts'[a].p].flow
             /\ attempts'[a].stage = preflights'[attempts'[a].p].stage
             /\ attempts'[a].k \in 0 .. Len(keyframes')
  <2>1. \A b \in 1 .. Len(attempts) :
          /\ attempts[b].p \in 1 .. Len(preflights)
          /\ attempts[b].flow = preflights[attempts[b].p].flow
          /\ attempts[b].stage = preflights[attempts[b].p].stage
          /\ attempts[b].k \in 0 .. Len(keyframes)
    BY DEF RefInv
  <2>2. CASE a \in 1 .. Len(attempts)
    <3>1. /\ attempts'[a].p \in 1 .. Len(preflights')
          /\ attempts'[a].flow = preflights'[attempts'[a].p].flow
          /\ attempts'[a].stage = preflights'[attempts'[a].p].stage
      BY <1>0, <2>1, <2>2, AttemptsStay, PreflightsStay
    <3>2. ASSUME NEW c \in Call, mem[c].a \in 1 .. Len(attempts),
                 NEW x \in {Marked(attempts[mem[c].a]), Finished(attempts[mem[c].a], mem[c]),
                            Failed(attempts[mem[c].a], mem[c])},
                 Writes(mem[c].a, x)
          PROVE  attempts'[a].k \in 0 .. Len(keyframes)
      <4>1. mem[c].a # 0
        BY <1>0, <3>2
      <4>2. mem[c].k \in 0 .. Len(keyframes)
        BY <4>1, Held
      <4>3. attempts[mem[c].a] \in AttemptRow /\ mem[c] \in Memory
        BY <3>2, Elements
      <4>4. x \in AttemptRow /\ x.k \in {attempts[mem[c].a].k, mem[c].k}
        BY <3>2, <4>3, RowsWritten
      <4>5. attempts'[a] = IF a = mem[c].a THEN x ELSE attempts[a]
        BY <2>2, <3>2, <4>4, Written
      <4> QED
        BY <2>1, <2>2, <3>2, <4>2, <4>4, <4>5
    <3>3. ASSUME NEW c \in Call, at[c] = "claim", Inserts(Claimed(mem[c].p))
          PROVE  attempts'[a] = attempts[a]
      BY <2>2, <3>3, InsertedClaim
    <3>4. attempts'[a].k \in 0 .. Len(keyframes)
      BY <2>1, <2>2, <3>2, <3>3, AttemptStep
    <3> QED
      BY <1>0, <3>1, <3>4
  <2>3. CASE a \notin 1 .. Len(attempts)
    <3>1. \E c \in Call : at[c] = "claim" /\ Inserts(Claimed(mem[c].p))
      <4>1. ASSUME NEW c \in Call, mem[c].a \in 1 .. Len(attempts),
                 NEW x \in {Marked(attempts[mem[c].a]), Finished(attempts[mem[c].a], mem[c]),
                            Failed(attempts[mem[c].a], mem[c])},
                 Writes(mem[c].a, x)
            PROVE  FALSE
        <5>1. attempts[mem[c].a] \in AttemptRow /\ mem[c] \in Memory
          BY <4>1, Elements
        <5>2. x \in AttemptRow
          BY <4>1, <5>1, RowsWritten
        <5> QED
          BY <2>3, <4>1, <5>2, Written
      <4>2. attempts' # attempts
        BY <2>3
      <4> QED
        BY <4>1, <4>2, AttemptStep
    <3>2. PICK c \in Call : at[c] = "claim" /\ Inserts(Claimed(mem[c].p))
      BY <3>1
    <3>3. mem[c].p \in 1 .. Len(preflights) /\ Len(attempts') = Len(attempts) + 1
          /\ attempts'[Len(attempts) + 1] = Claimed(mem[c].p)
      BY <3>2, InsertedClaim
    <3>4. attempts'[a] = Claimed(mem[c].p)
      BY <1>0, <2>3, <3>3
    <3>5. preflights'[mem[c].p] = preflights[mem[c].p] /\ preflights[mem[c].p].k \in 0 .. Len(keyframes)
      BY <3>3, PreflightsStay DEF RefInv
    <3> QED
      BY <1>0, <3>3, <3>4, <3>5 DEF Claimed
  <2> QED
    BY <2>2, <2>3
<1> QED
  BY <1>1, <1>2, <1>3, <1>4 DEF RefInv

LEMMA LengthsStay ==
  ASSUME TypeInv, RefInv, HandInv, HoldInv, [Next]_vars
  PROVE  /\ Len(flows) \in Nat /\ Len(keyframes) \in Nat /\ Len(preflights) \in Nat /\ Len(attempts) \in Nat
         /\ Len(flows') \in Nat /\ Len(keyframes') \in Nat /\ Len(preflights') \in Nat /\ Len(attempts') \in Nat
         /\ Len(flows) <= Len(flows') /\ Len(keyframes) <= Len(keyframes') /\ Len(preflights) <= Len(preflights')
         /\ Len(attempts) <= Len(attempts')
  BY Lengths, LenProperties, FlowsStay, KeyframesStay, PreflightsStay, AttemptsStay

LEMMA HandStays ==
  ASSUME TypeInv, RefInv, HandInv, HoldInv, [Next]_vars,
         NEW c \in Call, at'[c] = at[c], mem'[c] = mem[c]
  PROVE  Hand(c)'
<1>0. Hand(c)
  BY DEF HandInv
<1>1. at[c] = "bind" => mem[c].k \in 1 .. Len(keyframes')
  BY <1>0, LengthsStay DEF Hand
<1>2. at[c] = "claim" => mem[c].p \in 1 .. Len(preflights')
  BY <1>0, LengthsStay DEF Hand
<1>3. ASSUME at[c] \in Working \cup {"record", "fail"}
      PROVE  /\ mem[c].a \in 1 .. Len(attempts') /\ mem[c].p = attempts'[mem[c].a].p
             /\ mem[c].k \in 0 .. Len(keyframes')
  <2>1. mem[c].a \in 1 .. Len(attempts) /\ mem[c].p = attempts[mem[c].a].p /\ mem[c].k \in 0 .. Len(keyframes)
    BY <1>0, <1>3 DEF Hand
  <2> QED
    BY <2>1, LengthsStay, AttemptsStay
<1> QED
  BY <1>0, <1>1, <1>2, <1>3 DEF Hand

\* The calls that go on with the attempt they have.
LEMMA HandGoesOn ==
  ASSUME TypeInv, RefInv, HandInv, HoldInv, [Next]_vars,
         NEW c \in Call, at[c] \in Working \cup {"record", "fail"},
         NEW label \in Working \cup {"record", "fail"}, NEW m \in Memory, Go(c, label, m),
         m.a = mem[c].a, m.p = mem[c].p, m.k \in 0 .. Len(keyframes'), label = "evaluate" => m.k # 0
  PROVE  Hand(c)'
<1>1. mem[c].a \in 1 .. Len(attempts) /\ mem[c].p = attempts[mem[c].a].p
  BY DEF HandInv, Hand
<1>2. m.a \in 1 .. Len(attempts') /\ m.p = attempts'[m.a].p
  BY <1>1, LengthsStay, AttemptsStay
<1>3. at'[c] = label /\ mem'[c] = m
  BY Gone DEF Place
<1> QED
  BY <1>2, <1>3 DEF Hand, Working

LEMMA HandDone ==
  ASSUME TypeInv, NEW c \in Call, Done(c)
  PROVE  Hand(c)' /\ at'[c] = "ready" /\ mem'[c] = Idle
<1>1. at'[c] = "ready" /\ mem'[c] = Idle
  BY Gone, IdleType DEF Done, Place
<1> QED
  BY <1>1 DEF Hand, Working

LEMMA HandStep ==
  ASSUME TypeInv, RefInv, HandInv, HoldInv, [Next]_vars
  PROVE  HandInv'
<1>1. CASE UNCHANGED <<at, mem>>
  BY <1>1, HandStays DEF HandInv
<1>2. ASSUME NEW c \in Call, Step(c)
      PROVE  \A d \in Call : d # c => Hand(d)'
  <2>1. \A d \in Call : d # c => at'[d] = at[d] /\ mem'[d] = mem[d]
    BY <1>2, StepTurns, Gone
  <2> QED
    BY <2>1, HandStays
<1>3. ASSUME NEW c \in Call, Step(c)
      PROVE  Hand(c)'
  <2> USE DEF Place
  <2>0. mem[c] \in Memory
    BY DEF TypeInv
  <2>1. CASE ExecuteKeyframe(c) \/ StartFirstVideo(c)
    <3>1. PICK p \in 1 .. Len(preflights) : Go(c, "claim", [Idle EXCEPT !.p = p])
      BY <2>1 DEF ExecuteKeyframe, StartFirstVideo
    <3>2. [Idle EXCEPT !.p = p] \in Memory /\ [Idle EXCEPT !.p = p].p = p
      BY Lengths, IdleType DEF Memory
    <3>3. at'[c] = "claim" /\ mem'[c] = [Idle EXCEPT !.p = p]
      BY <3>1, <3>2, Gone
    <3>4. p \in 1 .. Len(preflights')
      BY LengthsStay
    <3> QED
      BY <3>2, <3>3, <3>4 DEF Hand, Working
  <2>2. CASE Claim(c)
    <3>1. CASE Done(c)
      BY <3>1, HandDone
    <3>2. CASE /\ at[c] = "claim" /\ Inserts(Claimed(mem[c].p))
               /\ \E label \in {"inspect", "mark"} : Go(c, label, [mem[c] EXCEPT !.a = Len(attempts) + 1])
      <4> DEFINE m == [mem[c] EXCEPT !.a = Len(attempts) + 1]
      <4>1. Len(attempts') = Len(attempts) + 1 /\ attempts'[Len(attempts) + 1] = Claimed(mem[c].p)
        BY <3>2, InsertedClaim
      <4>2. Claimed(mem[c].p).p = mem[c].p
        BY DEF Claimed
      <4>3. mem[c].k = 0
        <5>1. mem[c] = [Idle EXCEPT !.p = mem[c].p]
          BY <3>2 DEF HandInv, Hand
        <5>2. \A p : [Idle EXCEPT !.p = p].k = 0
          BY DEF Idle
        <5> QED
          BY <5>1, <5>2
      <4>4. m \in Memory /\ m.a = Len(attempts) + 1 /\ m.p = mem[c].p /\ m.k = 0
        BY <2>0, <4>3, Lengths DEF Memory
      <4>5. at'[c] \in {"inspect", "mark"} /\ mem'[c] = m
        BY <3>2, <4>4, Gone DEF Working
      <4> QED
        BY <4>1, <4>2, <4>4, <4>5, LengthsStay DEF Hand, Working
    <3> QED
      BY <2>2, <3>1, <3>2 DEF Claim, Inserts, Claimed
  <2>3. ASSUME at[c] \in Working \cup {"record", "fail"}
        PROVE  /\ mem[c].k \in 0 .. Len(keyframes')
               /\ at[c] = "evaluate" => mem[c].k # 0
    <3>1. mem[c].k \in 0 .. Len(keyframes) /\ (at[c] = "evaluate" => mem[c].k # 0)
      BY <2>3 DEF HandInv, Hand
    <3> QED
      BY <3>1, LengthsStay
  <2>4. ASSUME NEW m \in Memory, NEW label \in Working \cup {"record", "fail"}, Go(c, label, m),
               at[c] \in Working \cup {"record", "fail"},
               m.a = mem[c].a, m.p = mem[c].p, m.k = mem[c].k, label = "evaluate" => mem[c].k # 0
        PROVE  Hand(c)'
    BY <2>3, <2>4, HandGoesOn
  <2>5. CASE MarkBoundary(c) \/ Generate(c) \/ Inspect(c) \/ Evaluate(c)
    <3>1. at[c] \in {"mark", "generate", "inspect", "evaluate"}
      BY <2>5 DEF MarkBoundary, Generate, Inspect, Evaluate
    <3>2. /\ [mem[c] EXCEPT !.crossed = TRUE] \in Memory /\ [mem[c] EXCEPT !.safe = TRUE] \in Memory
          /\ \A ok \in BOOLEAN : [mem[c] EXCEPT !.ok = ok] \in Memory
      BY <2>0 DEF Memory
    <3>3. ASSUME NEW m \in {mem[c], [mem[c] EXCEPT !.crossed = TRUE], [mem[c] EXCEPT !.safe = TRUE],
                            [mem[c] EXCEPT !.ok = TRUE], [mem[c] EXCEPT !.ok = FALSE]}
          PROVE  m \in Memory /\ m.a = mem[c].a /\ m.p = mem[c].p /\ m.k = mem[c].k
      BY <2>0, <3>2 DEF Memory
    <3>4. \E m \in {mem[c], [mem[c] EXCEPT !.crossed = TRUE], [mem[c] EXCEPT !.safe = TRUE],
                     [mem[c] EXCEPT !.ok = TRUE], [mem[c] EXCEPT !.ok = FALSE]},
             label \in Working \cup {"record", "fail"} :
             Go(c, label, m) /\ (label = "evaluate" => mem[c].k # 0)
      <4>1. CASE MarkBoundary(c)
        BY <4>1 DEF MarkBoundary, Working
      <4>2. CASE Generate(c)
        <5>1. \A ok \in BOOLEAN : Go(c, "finish", [mem[c] EXCEPT !.ok = ok]) =>
                \/ Go(c, "finish", [mem[c] EXCEPT !.ok = TRUE])
                \/ Go(c, "finish", [mem[c] EXCEPT !.ok = FALSE])
          <6>1. \A ok \in BOOLEAN : ok = TRUE \/ ok = FALSE
            OBVIOUS
          <6> QED
            BY <6>1, Zenon
        <5> QED
          <6>1. Go(c, "fail", mem[c]) \/ Go(c, "store", mem[c])
                \/ \E ok \in BOOLEAN : Go(c, "finish", [mem[c] EXCEPT !.ok = ok])
            BY <4>2 DEF Generate
          <6>2. {"fail", "store", "finish"} \subseteq Working \cup {"record", "fail"}
            BY DEF Working
          <6>3. "finish" # "evaluate" /\ "fail" # "evaluate" /\ "store" # "evaluate"
            OBVIOUS
          <6> QED
            BY <5>1, <6>1, <6>2, <6>3, Zenon
      <4>3. CASE Inspect(c)
        BY <4>3 DEF Inspect, Working
      <4>4. CASE Evaluate(c)
        BY <4>4 DEF Evaluate, Working
      <4> QED
        BY <2>5, <4>1, <4>2, <4>3, <4>4
    <3> QED
      BY <2>4, <3>1, <3>3, <3>4 DEF Working
  <2>6. CASE Store(c)
    <3>1. at[c] = "store"
      BY <2>6 DEF Store
    <3>2. CASE Go(c, "fail", mem[c])
      BY <2>0, <2>4, <3>1, <3>2 DEF Working
    <3>3. CASE /\ keyframes' = Append(keyframes, [flow |-> FlowOf(c), validation |-> "NONE", approved |-> FALSE])
               /\ \E label \in {"evaluate", "mark"} : Go(c, label, [mem[c] EXCEPT !.k = Len(keyframes) + 1])
      <4> DEFINE m == [mem[c] EXCEPT !.k = Len(keyframes) + 1]
      <4>1. m \in Memory /\ m.a = mem[c].a /\ m.p = mem[c].p /\ m.k = Len(keyframes) + 1
        BY <2>0, Lengths DEF Memory
      <4>2. Len(keyframes') = Len(keyframes) + 1
        <5>1. FlowOf(c) \in 1 .. Len(flows)
          BY <3>1, FlowOfHeld DEF Working
        <5>2. [flow |-> FlowOf(c), validation |-> "NONE", approved |-> FALSE] \in KeyframeRow
          BY <5>1, Lengths DEF KeyframeRow
        <5> QED
          BY <3>3, <5>2, AppendProperties DEF TypeInv
      <4>3. m.k \in 0 .. Len(keyframes') /\ m.k # 0
        BY <4>1, <4>2, Lengths
      <4> HIDE DEF m
      <4> QED
        BY <3>1, <3>3, <4>1, <4>3, HandGoesOn DEF Working, m
    <3> QED
      BY <2>6, <3>2, <3>3 DEF Store
  <2>8. CASE Finish(c) \/ Fail(c) \/ RecordFirstVideo(c) \/ Bind(c) \/ Crash(c)
    <3>1. CASE Done(c)
      BY <3>1, HandDone
    <3>2. CASE at[c] \in {"finish", "record"} /\ \E label \in {"record", "fail"} : Go(c, label, mem[c])
      BY <2>0, <2>4, <3>2 DEF Working
    <3> QED
      BY <2>8, <3>1, <3>2 DEF Finish, Fail, RecordFirstVideo, Bind, Crash
  <2>7. CASE ApproveKeyframe(c)
    <3>1. PICK k \in 1 .. Len(keyframes) : Go(c, "bind", [Idle EXCEPT !.k = k])
      BY <2>7 DEF ApproveKeyframe
    <3>2. /\ [Idle EXCEPT !.k = k] \in Memory /\ [Idle EXCEPT !.k = k].k = k
          /\ [Idle EXCEPT !.k = k].p = 0 /\ [Idle EXCEPT !.k = k].a = 0
      <4>1. \A j : [Idle EXCEPT !.k = j].p = 0 /\ [Idle EXCEPT !.k = j].a = 0 /\ [Idle EXCEPT !.k = j].k = j
        BY DEF Idle
      <4>2. [Idle EXCEPT !.k = k] \in Memory
        BY Lengths, IdleType DEF Memory
      <4> QED
        BY <4>1, <4>2
    <3>3. at'[c] = "bind" /\ mem'[c] = [Idle EXCEPT !.k = k]
      BY <3>1, <3>2, Gone
    <3>4. k \in 1 .. Len(keyframes')
      BY LengthsStay
    <3> QED
      BY <3>2, <3>3, <3>4 DEF Hand, Working
  <2> QED
    BY <1>3, <2>1, <2>2, <2>5, <2>6, <2>7, <2>8 DEF Step
<1> QED
  BY <1>1, <1>2, <1>3, OtherHolds, NextSteps DEF HandInv

LEMMA StepNext == \A c \in Call : Step(c) => Next
  BY DEF Next, Step

\* A call drops its attempt, goes on with it, or claims one.
LEMMA HandMoves ==
  ASSUME TypeInv, HandInv, NEW c \in Call, Step(c)
  PROVE  \/ mem'[c].a = 0 /\ at'[c] \in {"ready", "bind", "claim"}
         \/ /\ at[c] \in Working \cup {"record", "fail"} /\ mem[c].a # 0
            /\ mem'[c].a = mem[c].a /\ mem'[c].p = mem[c].p
            /\ mem[c].crossed => mem'[c].crossed
            /\ at'[c] \in Working => at[c] \in Working
            /\ at'[c] = "generate" => mem'[c].crossed
         \/ /\ at[c] = "claim" /\ Inserts(Claimed(mem[c].p))
            /\ mem'[c] = [mem[c] EXCEPT !.a = Len(attempts) + 1]
            /\ at'[c] = IF preflights[mem[c].p].source = "UPLOAD" THEN "inspect" ELSE "mark"
<1> USE DEF Place
<1>0. mem[c] \in Memory
  BY DEF TypeInv
<1>1. CASE Done(c)
  <2>1. Idle.a = 0
    BY DEF Idle
  <2> QED
    BY <1>1, <2>1, HandDone
<1>2. CASE ExecuteKeyframe(c) \/ StartFirstVideo(c)
  <2>1. PICK p \in 1 .. Len(preflights) : Go(c, "claim", [Idle EXCEPT !.p = p])
    BY <1>2 DEF ExecuteKeyframe, StartFirstVideo
  <2>2. [Idle EXCEPT !.p = p] \in Memory
    BY Lengths, IdleType DEF Memory
  <2>3. \A x : [Idle EXCEPT !.p = x].a = 0
    BY DEF Idle
  <2>4. at'[c] = "claim" /\ mem'[c] = [Idle EXCEPT !.p = p]
    BY <2>1, <2>2, Gone
  <2> QED
    BY <2>3, <2>4
<1>3. CASE ApproveKeyframe(c)
  <2>1. PICK k \in 1 .. Len(keyframes) : Go(c, "bind", [Idle EXCEPT !.k = k])
    BY <1>3 DEF ApproveKeyframe
  <2>2. [Idle EXCEPT !.k = k] \in Memory
    BY Lengths, IdleType DEF Memory
  <2>3. \A x : [Idle EXCEPT !.k = x].a = 0
    BY DEF Idle
  <2>4. at'[c] = "bind" /\ mem'[c] = [Idle EXCEPT !.k = k]
    BY <2>1, <2>2, Gone
  <2> QED
    BY <2>3, <2>4
<1>4. CASE Claim(c) /\ ~Done(c)
  <2> DEFINE m == [mem[c] EXCEPT !.a = Len(attempts) + 1]
             label == IF preflights[mem[c].p].source = "UPLOAD" THEN "inspect" ELSE "mark"
  <2>1. at[c] = "claim" /\ Inserts(Claimed(mem[c].p)) /\ Go(c, label, m)
    BY <1>4 DEF Claim, Inserts, Claimed
  <2>2. m \in Memory /\ label \in Place
    BY <1>0, Lengths DEF Memory, Working
  <2> HIDE DEF m, label
  <2>3. at'[c] = label /\ mem'[c] = m
    BY <2>1, <2>2, Gone
  <2> QED
    BY <2>1, <2>3 DEF m, label
<1>5. ASSUME NEW label \in Working \cup {"record", "fail"}, NEW m \in Memory, Go(c, label, m),
             at[c] \in Working \cup {"record", "fail"}, label \in Working => at[c] \in Working,
             m.a = mem[c].a, m.p = mem[c].p, mem[c].crossed => m.crossed, label = "generate" => m.crossed
      PROVE  /\ mem[c].a # 0
             /\ mem'[c].a = mem[c].a /\ mem'[c].p = mem[c].p
             /\ mem[c].crossed => mem'[c].crossed
             /\ at'[c] \in Working => at[c] \in Working
             /\ at'[c] = "generate" => mem'[c].crossed
  <2>1. at'[c] = label /\ mem'[c] = m
    BY <1>5, Gone
  <2>2. mem[c].a \in 1 .. Len(attempts)
    BY <1>5 DEF HandInv, Hand
  <2> QED
    BY <1>5, <2>1, <2>2, Lengths
<1>6. CASE MarkBoundary(c) \/ Generate(c) \/ Inspect(c) \/ Store(c) \/ Evaluate(c)
           \/ ((Finish(c) \/ RecordFirstVideo(c)) /\ ~Done(c))
  <2> DEFINE Ms == {mem[c], [mem[c] EXCEPT !.crossed = TRUE], [mem[c] EXCEPT !.safe = TRUE],
                    [mem[c] EXCEPT !.k = Len(keyframes) + 1],
                    [mem[c] EXCEPT !.ok = TRUE], [mem[c] EXCEPT !.ok = FALSE]}
             Keeps(m) == m \in Memory /\ m.a = mem[c].a /\ m.p = mem[c].p /\ (mem[c].crossed => m.crossed)
  <2>1. Len(keyframes) + 1 \in Nat
    BY Lengths
  <2>2. ASSUME NEW m \in Ms
        PROVE  Keeps(m)
    <3>1. CASE m = mem[c] \/ m = [mem[c] EXCEPT !.crossed = TRUE]
      BY <1>0, <3>1 DEF Memory
    <3>2. CASE m = [mem[c] EXCEPT !.safe = TRUE] \/ m = [mem[c] EXCEPT !.k = Len(keyframes) + 1]
      BY <1>0, <2>1, <3>2 DEF Memory
    <3>3. CASE m = [mem[c] EXCEPT !.ok = TRUE] \/ m = [mem[c] EXCEPT !.ok = FALSE]
      BY <1>0, <3>3 DEF Memory
    <3> QED
      BY <3>1, <3>2, <3>3
  <2>3. [mem[c] EXCEPT !.crossed = TRUE].crossed
    BY <1>0 DEF Memory
  <2>4. /\ at[c] \in Working \cup {"record"} 
        /\ \E label \in Working \cup {"record", "fail"}, m \in Ms :
             /\ Go(c, label, m) /\ (label \in Working => at[c] \in Working)
             /\ label = "generate" => m = [mem[c] EXCEPT !.crossed = TRUE]
    <3>1. CASE MarkBoundary(c)
      BY <3>1 DEF MarkBoundary, Working
    <3>2. CASE Generate(c)
      <4>1. /\ at[c] = "generate"
            /\ Go(c, "fail", mem[c]) \/ Go(c, "store", mem[c])
               \/ \E ok \in BOOLEAN : Go(c, "finish", [mem[c] EXCEPT !.ok = ok])
        BY <3>2 DEF Generate
      <4>2. {"fail", "store", "finish"} \subseteq Working \cup {"record", "fail"} /\ "generate" \in Working
        BY DEF Working
      <4>3. "fail" # "generate" /\ "store" # "generate" /\ "finish" # "generate"
        OBVIOUS
      <4>4. \A ok \in BOOLEAN : ok = TRUE \/ ok = FALSE
        OBVIOUS
      <4>5. \E label \in {"fail", "store", "finish"}, m \in Ms : Go(c, label, m)
        BY <4>1, <4>4, Zenon
      <4> QED
        BY <4>1, <4>2, <4>3, <4>5, Zenon
    <3>3. CASE Inspect(c)
      BY <3>3 DEF Inspect, Working
    <3>4. CASE Store(c)
      BY <3>4 DEF Store, Working
    <3>5. CASE Evaluate(c)
      BY <3>5 DEF Evaluate, Working
    <3>6. CASE (Finish(c) \/ RecordFirstVideo(c)) /\ ~Done(c)
      BY <3>6 DEF Finish, RecordFirstVideo, Working
    <3> QED
      BY <1>6, <3>1, <3>2, <3>3, <3>4, <3>5, <3>6
  <2> HIDE DEF Ms
  <2>5. PICK label \in Working \cup {"record", "fail"}, m \in Ms :
             /\ Go(c, label, m) /\ (label \in Working => at[c] \in Working)
             /\ label = "generate" => m = [mem[c] EXCEPT !.crossed = TRUE]
    BY <2>4
  <2> QED
    BY <1>5, <2>2, <2>3, <2>4, <2>5
<1> QED
  BY <1>1, <1>2, <1>3, <1>4, <1>6 DEF Step, Fail, Bind, Crash

LEMMA OthersHold ==
  ASSUME TypeInv, RefInv, HandInv, HoldInv, NEW c \in Call, Step(c),
         NEW d \in Call, d # c
  PROVE  /\ at'[d] = at[d] /\ mem'[d] = mem[d]
         /\ mem[d].a # 0 => /\ attempts'[mem[d].a] = attempts[mem[d].a]
                            /\ mem[d].a \in paid' <=> mem[d].a \in paid
                            /\ mem'[c].a # mem[d].a
<1>1. at'[d] = at[d] /\ mem'[d] = mem[d]
  BY StepTurns, Gone
<1>2. ASSUME mem[d].a # 0
      PROVE  /\ mem[d].a \in 1 .. Len(attempts) /\ mem[c].a # mem[d].a
             /\ mem[d].a # Len(attempts) + 1 /\ mem[d].a \in Nat
  BY <1>2, Held, Lengths DEF HoldInv, Holds
<1>3. ASSUME mem[d].a # 0
      PROVE  mem'[c].a # mem[d].a
  <2>1. [mem[c] EXCEPT !.a = Len(attempts) + 1].a = Len(attempts) + 1
    BY DEF TypeInv, Memory
  <2> QED
    BY <1>2, <1>3, <2>1, HandMoves
<1>4. ASSUME mem[d].a # 0
      PROVE  mem[d].a \in paid' <=> mem[d].a \in paid
  BY <1>2, <1>4, StepPays
<1>5. ASSUME mem[d].a # 0
      PROVE  attempts'[mem[d].a] = attempts[mem[d].a]
  <2>1. CASE at[c] = "claim" /\ Inserts(Claimed(mem[c].p))
    BY <1>2, <1>5, <2>1, InsertedClaim
  <2>2. ASSUME mem[c].a \in 1 .. Len(attempts), NEW x, Writes(mem[c].a, x)
        PROVE  attempts'[mem[d].a] = attempts[mem[d].a]
    <3>1. attempts \in Seq(AttemptRow)
      BY DEF TypeInv
    <3> QED
      BY <1>2, <1>5, <2>2, <3>1 DEF Writes
  <2> QED
    BY <1>2, <1>5, <2>1, <2>2, StepAttempt
<1> QED
  BY <1>1, <1>3, <1>4, <1>5

LEMMA HoldStep ==
  ASSUME TypeInv, RefInv, HandInv, HoldInv, [Next]_vars
  PROVE  HoldInv'
<1>1. CASE Other \/ UNCHANGED vars
  <2>1. UNCHANGED <<at, mem, paid, attempts>>
    BY <1>1, OtherHolds, OtherAttempts
  <2> QED
    BY <2>1 DEF HoldInv, Holds
<1>2. ASSUME NEW c \in Call, Step(c), NEW d \in Call, d # c, mem'[d].a # 0
      PROVE  Holds(d)'
  <2>1. /\ at'[d] = at[d] /\ mem'[d] = mem[d] /\ attempts'[mem[d].a] = attempts[mem[d].a]
        /\ mem[d].a \in paid' <=> mem[d].a \in paid
        /\ mem'[c].a # mem[d].a
    BY <1>2, OthersHold
  <2>2. \A e \in Call : e # c => mem'[e] = mem[e]
    BY <1>2, OthersHold
  <2>3. Holds(d)
    BY <1>2, <2>1 DEF HoldInv
  <2> QED
    BY <2>1, <2>2, <2>3 DEF Holds
<1>3. ASSUME NEW c \in Call, Step(c), mem'[c].a # 0
      PROVE  Holds(c)'
  <2>1. \A e \in Call : e # c => mem'[e] = mem[e] /\ (mem[e].a # 0 => mem'[c].a # mem[e].a)
    BY <1>3, OthersHold
  <2>2. \A e \in Call : mem'[e].a = mem'[c].a => e = c
    BY <1>3, <2>1
  <2>3. CASE /\ at[c] \in Working \cup {"record", "fail"} /\ mem[c].a # 0
             /\ mem'[c].a = mem[c].a /\ mem'[c].p = mem[c].p
             /\ mem[c].crossed => mem'[c].crossed
             /\ at'[c] \in Working => at[c] \in Working
             /\ at'[c] = "generate" => mem'[c].crossed
    <3>1. Holds(c) /\ mem[c].a \in 1 .. Len(attempts)
      BY <2>3, Held DEF HoldInv
    <3>2. mem'[c].a \in paid' => mem'[c].crossed
      <4>1. mem[c].a \in paid' => at[c] = "generate" \/ mem[c].a \in paid
        BY <1>3, StepPays
      <4>2. at[c] = "generate" \/ mem[c].a \in paid => mem[c].crossed
        BY <3>1 DEF Holds
      <4> QED
        BY <2>3, <4>1, <4>2, Zenon
    <3>3. attempts[mem[c].a] \in AttemptRow
      BY <3>1, Elements
    <3>4. /\ at'[c] \in Working => attempts'[mem[c].a].status = "RUNNING"
          /\ ~attempts'[mem[c].a].safe
      <4>1. CASE UNCHANGED attempts
        BY <2>3, <3>1, <4>1 DEF Holds
      <4>2. CASE at[c] = "mark" /\ Writes(mem[c].a, Marked(attempts[mem[c].a]))
        <5>1. attempts'[mem[c].a] = Marked(attempts[mem[c].a])
          BY <3>1, <3>3, <4>2, RowsWritten, Written, TypeOfMemory
        <5> QED
          BY <3>1, <3>3, <4>2, <5>1, RowsWritten, TypeOfMemory DEF Holds, Working
      <4>3. CASE /\ at[c] = "finish" /\ Writes(mem[c].a, Finished(attempts[mem[c].a], mem[c]))
                 /\ Go(c, "record", mem[c])
        <5>1. attempts'[mem[c].a] = Finished(attempts[mem[c].a], mem[c])
          BY <3>1, <3>3, <4>3, RowsWritten, Written, TypeOfMemory
        <5>2. at'[c] = "record"
          BY <4>3, Gone, TypeOfMemory DEF Place
        <5> QED
          BY <3>1, <3>3, <5>1, <5>2, RowsWritten, TypeOfMemory DEF Holds, Working
      <4>4. CASE Done(c)
        BY <1>3, <4>4, HandDone DEF Idle
      <4>5. at[c] # "claim"
        BY <2>3 DEF Working
      <4> QED
        BY <1>3, <4>1, <4>2, <4>3, <4>4, <4>5, StepAttempt
    <3> QED
      BY <2>2, <2>3, <3>2, <3>4 DEF Holds
  <2>4. CASE /\ at[c] = "claim" /\ Inserts(Claimed(mem[c].p))
             /\ mem'[c] = [mem[c] EXCEPT !.a = Len(attempts) + 1]
             /\ at'[c] = IF preflights[mem[c].p].source = "UPLOAD" THEN "inspect" ELSE "mark"
    <3>1. mem'[c].a = Len(attempts) + 1
      BY <2>4, TypeOfMemory DEF Memory
    <3>2. attempts'[mem'[c].a] = Claimed(mem[c].p)
      BY <2>4, <3>1, InsertedClaim
    <3>3. Claimed(mem[c].p).status = "RUNNING" /\ Claimed(mem[c].p).safe = FALSE
      BY DEF Claimed
    <3>4. mem'[c].a \notin paid'
      <4>1. paid' = paid
        BY <1>3, <2>4, StepPays
      <4> QED
        BY <3>1, <4>1, Lengths DEF TypeInv
    <3>5. at'[c] # "generate"
      BY <2>4
    <3> QED
      BY <2>2, <3>2, <3>3, <3>4, <3>5 DEF Holds
  <2> QED
    BY <1>3, <2>3, <2>4, HandMoves
<1> QED
  BY <1>1, <1>2, <1>3, NextSteps DEF HoldInv

\* An attempt that has ended is not in doubt again, and is safe only when its call, which has
\* paid for nothing, says so.
LEMMA AttemptsEnd ==
  ASSUME TypeInv, RefInv, HandInv, HoldInv, OrderInv, [Next]_vars, NEW a \in 1 .. Len(attempts)
  PROVE  /\ attempts'[a].status \in InDoubt => attempts[a].status \in InDoubt
         /\ attempts[a].safe => attempts'[a].safe
         /\ attempts'[a].safe => attempts'[a].status \notin InDoubt /\ a \notin paid'
<1>1. CASE Other \/ UNCHANGED vars
  <2>1. UNCHANGED <<paid, attempts>>
    BY <1>1, OtherHolds, OtherAttempts
  <2> QED
    BY <2>1 DEF OrderInv
<1>2. ASSUME NEW c \in Call, Step(c)
      PROVE  /\ attempts'[a].status \in InDoubt => attempts[a].status \in InDoubt
             /\ attempts[a].safe => attempts'[a].safe
             /\ attempts'[a].safe => attempts'[a].status \notin InDoubt /\ a \notin paid'
  <2>0. attempts[a] \in AttemptRow /\ mem[c] \in Memory /\ a \in Nat /\ Len(attempts) \in Nat
    BY Elements, Lengths
  <2>1. CASE UNCHANGED attempts
    <3>1. attempts[a].safe => attempts[a].status \notin InDoubt /\ a \notin paid
      BY DEF OrderInv
    <3>2. at[c] = "generate" /\ a = mem[c].a => ~attempts[a].safe
      BY <2>0 DEF HoldInv, Holds
    <3>3. attempts[a].safe => a \notin paid'
      BY <1>2, <3>1, <3>2, StepPays
    <3> QED
      BY <2>1, <3>1, <3>3
  <2>2. CASE /\ at[c] = "claim" /\ Inserts(Claimed(mem[c].p)) /\ UNCHANGED paid
    <3>1. attempts'[a] = attempts[a]
      BY <2>2, InsertedClaim
    <3> QED
      BY <2>2, <3>1 DEF OrderInv
  <2>3. ASSUME mem[c].a \in 1 .. Len(attempts), attempts[mem[c].a].status = "RUNNING", UNCHANGED paid,
               NEW x \in AttemptRow, Writes(mem[c].a, x), ~attempts[mem[c].a].safe => 
               (x.safe => x.status \notin InDoubt /\ mem[c].a \notin paid)
        PROVE  /\ attempts'[a].status \in InDoubt => attempts[a].status \in InDoubt
               /\ attempts[a].safe => attempts'[a].safe
               /\ attempts'[a].safe => attempts'[a].status \notin InDoubt /\ a \notin paid'
    <3>1. attempts'[a] = IF a = mem[c].a THEN x ELSE attempts[a]
      BY <2>3, Written
    <3>2. ~attempts[mem[c].a].safe
      BY <2>3, Lengths DEF HoldInv, Holds
    <3>3. CASE a = mem[c].a
      BY <2>3, <3>1, <3>2, <3>3 DEF InDoubt
    <3>4. CASE a # mem[c].a
      BY <2>3, <3>1, <3>4 DEF OrderInv
    <3> QED
      BY <3>3, <3>4
  <2>4. ASSUME mem[c].a \in 1 .. Len(attempts)
        PROVE  /\ Marked(attempts[mem[c].a]) \in AttemptRow
               /\ Finished(attempts[mem[c].a], mem[c]) \in AttemptRow
               /\ Failed(attempts[mem[c].a], mem[c]) \in AttemptRow
               /\ Marked(attempts[mem[c].a]).safe = attempts[mem[c].a].safe
               /\ Finished(attempts[mem[c].a], mem[c]).safe = attempts[mem[c].a].safe
               /\ Failed(attempts[mem[c].a], mem[c]).safe =>
                    /\ Failed(attempts[mem[c].a], mem[c]).status \notin InDoubt
                    /\ mem[c].a \notin paid
    <3>1. attempts[mem[c].a] \in AttemptRow /\ mem[c].a # 0
      BY <2>0, <2>4, Elements
    <3>2. mem[c].a \in paid => mem[c].crossed
      BY <3>1 DEF HoldInv, Holds
    <3>3. Failed(attempts[mem[c].a], mem[c]).safe = (~mem[c].crossed /\ mem[c].safe)
      BY <2>0, <3>1, RowsWritten
    <3>4. Failed(attempts[mem[c].a], mem[c]).status = IF mem[c].crossed THEN "NEEDS_RECONCILIATION" ELSE "FAILED"
      BY <2>0, <3>1, RowsWritten
    <3>5. Failed(attempts[mem[c].a], mem[c]).safe => ~mem[c].crossed
      BY <3>3
    <3>6. ~mem[c].crossed => Failed(attempts[mem[c].a], mem[c]).status \notin InDoubt
      BY <3>4 DEF InDoubt
    <3> QED
      BY <2>0, <3>1, <3>2, <3>5, <3>6, RowsWritten
  <2> QED
    BY <1>2, <2>1, <2>2, <2>3, <2>4, StepAttempt
<1> QED
  BY <1>1, <1>2, NextSteps

\* What a claim has made sure of.
LEMMA NewAttempt ==
  ASSUME TypeInv, RefInv, HandInv, HoldInv, [Next]_vars, NEW b \in 1 .. Len(attempts'), b \notin 1 .. Len(attempts)
  PROVE  \E c \in Call :
           /\ at[c] = "claim" /\ Open(mem[c].p) /\ Retriable(mem[c].p)
           /\ mem[c].p \in 1 .. Len(preflights)
           /\ UNCHANGED <<preflights, keyframes, flows, paid>>
           /\ b = Len(attempts) + 1 /\ attempts'[b] = Claimed(mem[c].p)
<1>1. attempts' # attempts /\ Len(attempts) \in Nat /\ Len(attempts') \in Nat
  BY LengthsStay
<1>2. ASSUME NEW c \in Call, mem[c].a \in 1 .. Len(attempts),
                 NEW x \in {Marked(attempts[mem[c].a]), Finished(attempts[mem[c].a], mem[c]),
                            Failed(attempts[mem[c].a], mem[c])},
                 Writes(mem[c].a, x)
      PROVE FALSE
  <2>1. attempts[mem[c].a] \in AttemptRow /\ mem[c] \in Memory
    BY <1>2, Elements
  <2>2. x \in AttemptRow
    BY <1>2, <2>1, RowsWritten
  <2> QED
    BY <1>2, <2>2, Written
<1>3. PICK c \in Call :
        /\ at[c] = "claim" /\ Open(mem[c].p) /\ Retriable(mem[c].p) /\ Inserts(Claimed(mem[c].p))
        /\ UNCHANGED <<preflights, keyframes, flows, paid>>
  BY <1>1, <1>2, AttemptStep
<1>4. /\ Len(attempts') = Len(attempts) + 1 /\ attempts'[Len(attempts) + 1] = Claimed(mem[c].p)
      /\ mem[c].p \in 1 .. Len(preflights)
  BY <1>3, InsertedClaim
<1>5. b = Len(attempts) + 1
  BY <1>1, <1>4
<1> QED
  BY <1>3, <1>4, <1>5

LEMMA OrderStep ==
  ASSUME TypeInv, RefInv, HandInv, HoldInv, OrderInv, [Next]_vars
  PROVE  OrderInv'
<1>0. Len(attempts) \in Nat /\ Len(attempts') \in Nat
  BY LengthsStay
<1>1. ASSUME NEW a \in 1 .. Len(attempts'), NEW b \in 1 .. Len(attempts'), a < b
      PROVE  /\ attempts'[a].flow = attempts'[b].flow /\ attempts'[a].stage = attempts'[b].stage
                  => attempts'[a].status \notin InDoubt
             /\ attempts'[a].p = attempts'[b].p => attempts'[a].safe
  <2>1. CASE b \in 1 .. Len(attempts)
    <3>1. a \in 1 .. Len(attempts)
      BY <1>0, <1>1, <2>1
    <3>2. \A x \in {a, b} : /\ attempts'[x].flow = attempts[x].flow /\ attempts'[x].stage = attempts[x].stage
                            /\ attempts'[x].p = attempts[x].p
      BY <2>1, <3>1, AttemptsStay
    <3>3. /\ attempts[a].flow = attempts[b].flow /\ attempts[a].stage = attempts[b].stage
                  => attempts[a].status \notin InDoubt
          /\ attempts[a].p = attempts[b].p => attempts[a].safe
      BY <1>1, <2>1, <3>1 DEF OrderInv
    <3>4. /\ attempts'[a].status \in InDoubt => attempts[a].status \in InDoubt
          /\ attempts[a].safe => attempts'[a].safe
      BY <3>1, AttemptsEnd
    <3> QED
      BY <3>2, <3>3, <3>4
  <2>2. CASE b \notin 1 .. Len(attempts)
    <3>1. PICK c \in Call :
           /\ at[c] = "claim" /\ Open(mem[c].p) /\ Retriable(mem[c].p)
           /\ b = Len(attempts) + 1 /\ attempts'[b] = Claimed(mem[c].p)
      BY <2>2, NewAttempt
    <3>2. a \in 1 .. Len(attempts)
      BY <1>0, <1>1, <3>1
    <3>3. /\ attempts'[a].flow = attempts[a].flow /\ attempts'[a].stage = attempts[a].stage
          /\ attempts'[a].p = attempts[a].p
      BY <3>2, AttemptsStay
    <3>4. /\ attempts'[b].flow = preflights[mem[c].p].flow /\ attempts'[b].stage = preflights[mem[c].p].stage
          /\ attempts'[b].p = mem[c].p
      BY <3>1 DEF Claimed
    <3>5. attempts[a].flow = preflights[mem[c].p].flow /\ attempts[a].stage = preflights[mem[c].p].stage
             => attempts[a].status \notin InDoubt
      BY <3>1, <3>2 DEF Open
    <3>6. attempts[a].p = mem[c].p => attempts[a].safe
      <4>1. CASE \E x \in 1 .. Len(attempts) : a < x /\ attempts[x].p = mem[c].p
        BY <3>2, <4>1 DEF OrderInv
      <4>2. CASE \A x \in 1 .. Len(attempts) : attempts[x].p = mem[c].p => x <= a
        BY <3>1, <3>2, <4>2 DEF Retriable
      <4> QED
        BY <1>0, <4>1, <4>2
    <3>7. /\ attempts'[a].status \in InDoubt => attempts[a].status \in InDoubt
          /\ attempts[a].safe => attempts'[a].safe
      BY <3>2, AttemptsEnd
    <3> QED
      BY <3>3, <3>4, <3>5, <3>6, <3>7
  <2> QED
    BY <2>1, <2>2
<1>2. ASSUME NEW a \in 1 .. Len(attempts'), attempts'[a].safe
      PROVE  attempts'[a].status \notin InDoubt /\ a \notin paid'
  <2>1. CASE a \in 1 .. Len(attempts)
    BY <1>2, <2>1, AttemptsEnd
  <2>2. CASE a \notin 1 .. Len(attempts)
    <3>1. \E p : attempts'[a] = Claimed(p)
      BY <2>2, NewAttempt
    <3> QED
      BY <1>2, <3>1 DEF Claimed
  <2> QED
    BY <2>1, <2>2
<1> QED
  BY <1>1, <1>2 DEF OrderInv

\* Two calls do not make a keyframe of one workflow at once.
LEMMA OneMaker ==
  ASSUME TypeInv, RefInv, HandInv, HoldInv, OrderInv, NEW c \in Call, NEW d \in Call, c # d,
         at[c] \in Working, at[d] \in Working,
         attempts[mem[c].a].stage = attempts[mem[d].a].stage
  PROVE  FlowOf(c) # FlowOf(d)
<1>1. mem[c].a \in 1 .. Len(attempts) /\ mem[d].a \in 1 .. Len(attempts)
  BY FlowOfHeld
<1>2. mem[c].a # 0 /\ mem[d].a # 0 /\ mem[c].a \in Nat /\ mem[d].a \in Nat
  BY <1>1, Lengths
<1>3. /\ attempts[mem[c].a].status = "RUNNING" /\ attempts[mem[d].a].status = "RUNNING"
      /\ mem[c].a # mem[d].a
  BY <1>2 DEF HoldInv, Holds
<1>4. ASSUME FlowOf(c) = FlowOf(d)
      PROVE  FALSE
  <2>1. attempts[mem[c].a].flow = attempts[mem[d].a].flow
    BY <1>4 DEF FlowOf
  <2>2. CASE mem[c].a < mem[d].a
    BY <1>1, <1>3, <2>1, <2>2 DEF OrderInv, InDoubt
  <2>3. CASE mem[d].a < mem[c].a
    BY <1>1, <1>3, <2>1, <2>3 DEF OrderInv, InDoubt
  <2> QED
    BY <1>2, <1>3, <2>2, <2>3
<1> QED
  BY <1>4

\* A keyframe that is inserted.
LEMMA StoredKeyframe ==
  ASSUME TypeInv, RefInv, HandInv, NEW c \in Call, at[c] = "store",
         keyframes' = Append(keyframes, [flow |-> FlowOf(c), validation |-> "NONE", approved |-> FALSE])
  PROVE  /\ Len(keyframes') = Len(keyframes) + 1
         /\ \A k \in 1 .. Len(keyframes) : keyframes'[k] = keyframes[k]
         /\ keyframes'[Len(keyframes) + 1] = [flow |-> FlowOf(c), validation |-> "NONE", approved |-> FALSE]
         /\ FlowOf(c) \in 1 .. Len(flows)
<1>1. FlowOf(c) \in 1 .. Len(flows)
  BY FlowOfHeld DEF Working
<1>2. [flow |-> FlowOf(c), validation |-> "NONE", approved |-> FALSE] \in KeyframeRow
  BY <1>1, Lengths DEF KeyframeRow
<1> QED
  BY <1>1, <1>2, AppendProperties DEF TypeInv

\* A keyframe that is evaluated, and one that is approved.
LEMMA EvaluatedKeyframe ==
  ASSUME TypeInv, NEW i \in 1 .. Len(keyframes), NEW v \in {"PASS", "FAIL"},
         keyframes' = [keyframes EXCEPT ![i].validation = v]
  PROVE  /\ Len(keyframes') = Len(keyframes)
         /\ \A k \in 1 .. Len(keyframes) : /\ keyframes'[k].flow = keyframes[k].flow
                                           /\ k # i => keyframes'[k] = keyframes[k]
         /\ keyframes'[i].validation = v
<1>1. keyframes \in Seq(KeyframeRow) /\ keyframes[i] \in KeyframeRow
  BY Elements DEF TypeInv
<1>2. [keyframes[i] EXCEPT !.validation = v] \in KeyframeRow
  BY <1>1 DEF KeyframeRow
<1>3. /\ Len(keyframes') = Len(keyframes)
      /\ \A k \in 1 .. Len(keyframes) :
           keyframes'[k] = IF k = i THEN [keyframes[i] EXCEPT !.validation = v] ELSE keyframes[k]
  BY <1>1, <1>2, ExceptSeq
<1> QED
  BY <1>1, <1>3 DEF KeyframeRow

LEMMA ApprovedKeyframe ==
  ASSUME TypeInv, NEW i \in 1 .. Len(keyframes),
         keyframes' = [keyframes EXCEPT ![i].approved = TRUE]
  PROVE  /\ Len(keyframes') = Len(keyframes)
         /\ \A k \in 1 .. Len(keyframes) : /\ keyframes'[k].flow = keyframes[k].flow
                                           /\ keyframes'[k].validation = keyframes[k].validation
<1>1. keyframes \in Seq(KeyframeRow) /\ keyframes[i] \in KeyframeRow
  BY Elements DEF TypeInv
<1>2. [keyframes[i] EXCEPT !.approved = TRUE] \in KeyframeRow
  BY <1>1 DEF KeyframeRow
<1>3. /\ Len(keyframes') = Len(keyframes)
      /\ \A k \in 1 .. Len(keyframes) :
           keyframes'[k] = IF k = i THEN [keyframes[i] EXCEPT !.approved = TRUE] ELSE keyframes[k]
  BY <1>1, <1>2, ExceptSeq
<1> QED
  BY <1>1, <1>3 DEF KeyframeRow

LEMMA HoldingKeyframe ==
  ASSUME TypeInv, HandInv, MakingInv, NEW c \in Call, Holding(c)
  PROVE  /\ mem[c].k \in 1 .. Len(keyframes) /\ at[c] \in Working
         /\ keyframes[mem[c].k].flow = FlowOf(c)
<1>1. at[c] \in Working /\ at[c] \in Working \cup {"record", "fail"}
  BY DEF Holding, Working
<1>2. mem[c].k \in 0 .. Len(keyframes) /\ mem[c].k # 0
  BY <1>1 DEF HandInv, Hand, Holding
<1> QED
  BY <1>1, <1>2, Lengths DEF MakingInv, Makes, Newest

\* What a call makes is not disturbed by the steps of the others.
LEMMA OthersMake ==
  ASSUME TypeInv, RefInv, HandInv, HoldInv, OrderInv, MakingInv, NEW c \in Call, Step(c), NEW d \in Call, d # c
  PROVE  Makes(d)'
<1>1. at'[d] = at[d] /\ mem'[d] = mem[d] /\ (mem[d].a # 0 => attempts'[mem[d].a] = attempts[mem[d].a])
  BY OthersHold
<1>2. [Next]_vars
  BY StepNext
<1>3. ASSUME at[d] \in {"store", "inspect"} \/ Holding(d)
      PROVE  attempts'[mem[d].a].stage = "KEYFRAME"
  <2>1. at[d] \in Working
    BY <1>3 DEF Holding, Working
  <2>2. mem[d].a # 0
    BY <2>1, FlowOfHeld, Lengths
  <2> QED
    BY <1>1, <1>3, <2>2 DEF MakingInv, Makes
<1>4. ASSUME Holding(d)
      PROVE  Newest(FlowOf(d), mem[d].k)' /\ keyframes'[mem[d].k].validation = "NONE"
  <2>1. /\ mem[d].k \in 1 .. Len(keyframes) /\ at[d] \in Working
        /\ keyframes[mem[d].k].flow = FlowOf(d)
        /\ \A j \in mem[d].k + 1 .. Len(keyframes) : keyframes[j].flow # FlowOf(d)
        /\ keyframes[mem[d].k].validation = "NONE"
        /\ attempts[mem[d].a].stage = "KEYFRAME"
    BY <1>4, HoldingKeyframe DEF MakingInv, Makes, Newest
  <2>2. FlowOf(d)' = FlowOf(d) /\ Len(keyframes) \in Nat
    <3>1. mem[d].a # 0
      BY <2>1, FlowOfHeld, Lengths
    <3> QED
      BY <1>1, <3>1, Lengths DEF FlowOf
  <2>3. CASE UNCHANGED keyframes
    BY <1>1, <2>1, <2>2, <2>3 DEF Newest
  <2>4. CASE /\ at[c] = "store"
             /\ keyframes' = Append(keyframes, [flow |-> FlowOf(c), validation |-> "NONE", approved |-> FALSE])
    <3>1. attempts[mem[c].a].stage = "KEYFRAME" /\ at[c] \in Working
      BY <2>4 DEF MakingInv, Makes, Working
    <3>2. FlowOf(c) # FlowOf(d)
      BY <2>1, <3>1, OneMaker
    <3>3. /\ Len(keyframes') = Len(keyframes) + 1
          /\ \A k \in 1 .. Len(keyframes) : keyframes'[k] = keyframes[k]
          /\ keyframes'[Len(keyframes) + 1].flow = FlowOf(c)
      BY <2>4, StoredKeyframe
    <3>4. ASSUME NEW j \in mem[d].k + 1 .. Len(keyframes')
          PROVE  keyframes'[j].flow # FlowOf(d)
      <4>1. j \in mem[d].k + 1 .. Len(keyframes) \/ j = Len(keyframes) + 1
        BY <2>1, <2>2, <3>3
      <4>2. j \in mem[d].k + 1 .. Len(keyframes) => j \in 1 .. Len(keyframes)
        BY <2>1, <2>2
      <4> QED
        BY <2>1, <3>2, <3>3, <4>1, <4>2
    <3> QED
      BY <1>1, <2>1, <2>2, <3>3, <3>4 DEF Newest
  <2>5. ASSUME NEW v \in {"PASS", "FAIL"}, at[c] = "evaluate",
               keyframes' = [keyframes EXCEPT ![mem[c].k].validation = v]
        PROVE  Newest(FlowOf(d), mem[d].k)' /\ keyframes'[mem[d].k].validation = "NONE"
    <3>1. Holding(c)
      BY <2>5 DEF Holding
    <3>2. /\ mem[c].k \in 1 .. Len(keyframes) /\ at[c] \in Working
          /\ keyframes[mem[c].k].flow = FlowOf(c) /\ attempts[mem[c].a].stage = "KEYFRAME"
      BY <3>1, HoldingKeyframe DEF MakingInv, Makes
    <3>3. mem[c].k # mem[d].k
      BY <2>1, <3>2, OneMaker
    <3>4. /\ Len(keyframes') = Len(keyframes)
          /\ \A k \in 1 .. Len(keyframes) : /\ keyframes'[k].flow = keyframes[k].flow
                                            /\ k # mem[c].k => keyframes'[k] = keyframes[k]
      BY <2>5, <3>2, EvaluatedKeyframe
    <3>5. \A j \in mem[d].k + 1 .. Len(keyframes) : j \in 1 .. Len(keyframes)
      BY <2>1, <2>2
    <3> QED
      BY <1>1, <2>1, <2>2, <3>3, <3>4, <3>5 DEF Newest
  <2>6. ASSUME NEW k \in 1 .. Len(keyframes), keyframes' = [keyframes EXCEPT ![k].approved = TRUE]
        PROVE  Newest(FlowOf(d), mem[d].k)' /\ keyframes'[mem[d].k].validation = "NONE"
    <3>4. /\ Len(keyframes') = Len(keyframes)
          /\ \A j \in 1 .. Len(keyframes) : /\ keyframes'[j].flow = keyframes[j].flow
                                            /\ keyframes'[j].validation = keyframes[j].validation
      BY <2>6, ApprovedKeyframe
    <3>5. \A j \in mem[d].k + 1 .. Len(keyframes) : j \in 1 .. Len(keyframes)
      BY <2>1, <2>2
    <3> QED
      BY <1>1, <2>1, <2>2, <3>4, <3>5 DEF Newest
  <2> QED
    BY <2>3, <2>4, <2>5, <2>6, StepKeyframe
<1> QED
  BY <1>1, <1>3, <1>4 DEF Makes, Holding

\* How a call comes to make a keyframe.
LEMMA SelfMakes ==
  ASSUME TypeInv, RefInv, HandInv, HoldInv, OrderInv, MakingInv, NEW c \in Call, Step(c)
  PROVE  Makes(c)'
<1> USE DEF Place, Working
<1>0. [Next]_vars /\ mem[c] \in Memory
  BY StepNext DEF TypeInv
<1>1. CASE at'[c] \notin {"store", "inspect", "evaluate", "mark"}
  BY <1>1 DEF Makes, Holding
<1>2. CASE Claim(c) /\ at'[c] \in {"store", "inspect", "evaluate", "mark"}
  <2>1. /\ at[c] = "claim" /\ Inserts(Claimed(mem[c].p))
        /\ mem'[c] = [mem[c] EXCEPT !.a = Len(attempts) + 1]
        /\ at'[c] = IF preflights[mem[c].p].source = "UPLOAD" THEN "inspect" ELSE "mark"
    <3>1. at[c] = "claim"
      BY <1>2 DEF Claim
    <3> QED
      BY <1>2, <3>1, HandMoves
  <2>2. mem'[c].a = Len(attempts) + 1 /\ mem'[c].k = 0
    <3>1. mem[c] = [Idle EXCEPT !.p = mem[c].p]
      BY <2>1 DEF HandInv, Hand
    <3>2. \A p : [Idle EXCEPT !.p = p].k = 0
      BY DEF Idle
    <3> QED
      BY <1>0, <2>1, <3>1, <3>2 DEF Memory
  <2>3. attempts'[mem'[c].a].stage = preflights[mem[c].p].stage /\ mem[c].p \in 1 .. Len(preflights)
    BY <2>1, <2>2, InsertedClaim DEF Claimed
  <2>4. preflights[mem[c].p].source = "UPLOAD" => preflights[mem[c].p].stage = "KEYFRAME"
    <3>1. preflights[mem[c].p] \in PreflightRow
      BY <2>3, Elements
    <3> QED
      BY <2>3, <3>1 DEF RefInv, PreflightRow, Stage
  <2> QED
    BY <2>1, <2>2, <2>3, <2>4 DEF Makes, Holding
<1>3. CASE MarkBoundary(c) \/ Generate(c) \/ Inspect(c) \/ Store(c)
  <2>1. at[c] \in Working
    BY <1>3 DEF MarkBoundary, Generate, Inspect, Store
  <2>2. /\ mem[c].a \in 1 .. Len(attempts)
        /\ attempts'[mem[c].a].stage = attempts[mem[c].a].stage
        /\ attempts'[mem[c].a].flow = attempts[mem[c].a].flow
    BY <1>0, <2>1, FlowOfHeld, AttemptsStay
  <2>3. CASE MarkBoundary(c) /\ at'[c] \in {"store", "inspect", "evaluate", "mark"}
    <3> DEFINE m == [mem[c] EXCEPT !.crossed = TRUE]
    <3>1. m \in Memory /\ m.k = mem[c].k /\ m.a = mem[c].a
      BY <1>0 DEF Memory
    <3>2. \/ Go(c, IF mem[c].k # 0 THEN "evaluate" ELSE "generate", m)
          \/ Go(c, "fail", mem[c])
      BY <2>3 DEF MarkBoundary
    <3>3. at[c] = "mark" /\ UNCHANGED keyframes
      BY <2>3 DEF MarkBoundary
    <3> HIDE DEF m
    <3>4. ~Go(c, "fail", mem[c])
      <4>1. Go(c, "fail", mem[c]) => at'[c] = "fail"
        BY <1>0, Gone
      <4> QED
        BY <2>3, <4>1
    <3>5. CASE mem[c].k = 0
      <4>1. Go(c, "generate", m) => at'[c] = "generate"
        BY <1>0, <3>1, Gone
      <4> QED
        BY <2>3, <3>2, <3>4, <3>5, <4>1
    <3>6. CASE mem[c].k # 0
      <4>1. at'[c] = "evaluate" /\ mem'[c] = m
        BY <3>1, <3>2, <3>4, <3>6, Gone
      <4>2. Holding(c)
        BY <3>3, <3>6 DEF Holding
      <4>3. /\ attempts[mem[c].a].stage = "KEYFRAME"
            /\ Newest(FlowOf(c), mem[c].k) /\ keyframes[mem[c].k].validation = "NONE"
        BY <4>2 DEF MakingInv, Makes
      <4>4. FlowOf(c)' = FlowOf(c) /\ mem'[c].k = mem[c].k /\ mem'[c].a = mem[c].a
        BY <2>2, <3>1, <4>1 DEF FlowOf
      <4>5. Newest(FlowOf(c), mem[c].k)'
        BY <3>3, <4>3, <4>4 DEF Newest
      <4> QED
        BY <2>2, <3>3, <4>1, <4>3, <4>4, <4>5 DEF Makes
    <3> QED
      BY <3>5, <3>6
  <2>4. CASE (Generate(c) \/ Inspect(c)) /\ at'[c] \in {"store", "inspect", "evaluate", "mark"}
    <3>1. Go(c, "store", mem[c]) => at'[c] = "store" /\ mem'[c] = mem[c]
      BY <1>0, Gone
    <3>2. ASSUME NEW label \in {"fail", "finish"}, NEW m \in Memory, Go(c, label, m)
          PROVE  FALSE
      BY <2>4, <3>2, Gone
    <3>3. /\ [mem[c] EXCEPT !.safe = TRUE] \in Memory
          /\ \A ok \in BOOLEAN : [mem[c] EXCEPT !.ok = ok] \in Memory
      BY <1>0 DEF Memory
    <3>4. CASE Inspect(c)
      <4>1. at[c] = "inspect" /\ Go(c, "store", mem[c])
        BY <1>0, <3>2, <3>3, <3>4 DEF Inspect
      <4> QED
        BY <2>2, <3>1, <4>1 DEF MakingInv, Makes, Holding
    <3>5. CASE Generate(c)
      <4>1. \/ Go(c, "fail", mem[c])
            \/ Go(c, "store", mem[c]) /\ attempts[mem[c].a].stage = "KEYFRAME"
            \/ \E ok \in BOOLEAN : Go(c, "finish", [mem[c] EXCEPT !.ok = ok])
        BY <3>5 DEF Generate
      <4>2. Go(c, "store", mem[c]) /\ attempts[mem[c].a].stage = "KEYFRAME"
        BY <1>0, <3>2, <3>3, <4>1
      <4> QED
        BY <2>2, <3>1, <4>2 DEF Makes, Holding
    <3> QED
      BY <2>4, <3>4, <3>5
  <2>5. CASE Store(c) /\ at'[c] \in {"store", "inspect", "evaluate", "mark"}
    <3> DEFINE m == [mem[c] EXCEPT !.k = Len(keyframes) + 1]
               label == IF mem[c].crossed THEN "evaluate" ELSE "mark"
    <3>1. m \in Memory /\ m.k = Len(keyframes) + 1 /\ m.a = mem[c].a /\ label \in {"evaluate", "mark"}
      BY <1>0, Lengths DEF Memory
    <3>2. ~Go(c, "fail", mem[c])
      <4>1. Go(c, "fail", mem[c]) => at'[c] = "fail"
        BY <1>0, Gone
      <4> QED
        BY <2>5, <4>1
    <3>3. /\ at[c] = "store" /\ Go(c, label, m)
          /\ keyframes' = Append(keyframes, [flow |-> FlowOf(c), validation |-> "NONE", approved |-> FALSE])
      BY <2>5, <3>2 DEF Store
    <3> HIDE DEF m, label
    <3>4. at'[c] \in {"evaluate", "mark"} /\ mem'[c] = m
      BY <3>1, <3>3, Gone
    <3>5. attempts[mem[c].a].stage = "KEYFRAME"
      BY <3>3 DEF MakingInv, Makes
    <3>6. FlowOf(c)' = FlowOf(c)
      BY <2>2, <3>1, <3>4 DEF FlowOf
    <3>7. /\ Len(keyframes') = Len(keyframes) + 1
          /\ keyframes'[Len(keyframes) + 1] = [flow |-> FlowOf(c), validation |-> "NONE", approved |-> FALSE]
      BY <3>3, StoredKeyframe
    <3>8. Newest(FlowOf(c), mem[c].k)' /\ keyframes'[mem'[c].k].validation = "NONE"
      BY <3>1, <3>4, <3>6, <3>7, Lengths DEF Newest
    <3> QED
      BY <2>2, <3>1, <3>4, <3>5, <3>8 DEF Makes
  <2> QED
    BY <1>1, <1>3, <2>3, <2>4, <2>5
<1>4. CASE ExecuteKeyframe(c) \/ StartFirstVideo(c) \/ ApproveKeyframe(c)
  <2>1. mem'[c].a = 0 /\ at'[c] \in {"ready", "bind", "claim"}
    <3>1. at[c] = "ready"
      BY <1>4 DEF ExecuteKeyframe, StartFirstVideo, ApproveKeyframe
    <3> QED
      BY <1>4, <3>1, HandMoves
  <2> QED
    BY <1>1, <2>1
<1>5. CASE Evaluate(c) \/ Finish(c) \/ RecordFirstVideo(c) \/ Fail(c) \/ Bind(c) \/ Crash(c)
  <2>1. Done(c) => at'[c] = "ready"
    BY HandDone
  <2>2. \A label \in {"fail", "finish", "record"} : 
          /\ Go(c, label, mem[c]) => at'[c] = label
          /\ Go(c, label, [mem[c] EXCEPT !.ok = TRUE]) => at'[c] = label
    <3>1. [mem[c] EXCEPT !.ok = TRUE] \in Memory
      BY <1>0 DEF Memory
    <3> QED
      BY <1>0, <3>1, Gone
  <2>3. at'[c] \in {"ready", "fail", "finish", "record"}
    BY <1>5, <2>1, <2>2 DEF Evaluate, Finish, RecordFirstVideo, Fail, Bind, Crash
  <2> QED
    BY <1>1, <2>3
<1> QED
  BY <1>1, <1>2, <1>3, <1>4, <1>5 DEF Step

LEMMA MakingStep ==
  ASSUME TypeInv, RefInv, HandInv, HoldInv, OrderInv, MakingInv, [Next]_vars
  PROVE  MakingInv'
<1>1. CASE Other \/ UNCHANGED vars
  <2>1. UNCHANGED <<at, mem, attempts, keyframes>>
    BY <1>1, OtherHolds, OtherAttempts, OtherKeyframes
  <2> QED
    BY <2>1 DEF MakingInv, Makes, Holding, Newest, FlowOf
<1> QED
  BY <1>1, SelfMakes, OthersMake, NextSteps DEF MakingInv

\* A workflow that waits for a human or was approved by one.
Waiting == {"AWAITING_HUMAN_APPROVAL", "KEYFRAME_APPROVED", "FIRST_VIDEO_RUNNING",
            "FIRST_VIDEO_REVIEW", "FIRST_VIDEO_ACCEPTED"}
Passed(f) == \E k \in 1 .. Len(keyframes) : Newest(f, k) /\ keyframes[k].validation = "PASS"

LEMMA NewestPassedIs == NewestPassed <=> \A f \in 1 .. Len(flows) : flows[f].state \in Waiting => Passed(f)
  BY DEF NewestPassed, Waiting, Passed, Newest, Latest

\* Without a keyframe's evaluation no workflow begins to wait.
LEMMA BeginsToWait ==
  ASSUME TypeInv, RefInv, HandInv, [Next]_vars, \A c \in Call : ~Evaluate(c),
         NEW f \in 1 .. Len(flows'), flows'[f].state \in Waiting
  PROVE  f \in 1 .. Len(flows) /\ flows[f].state \in Waiting
<1>0. flows \in Seq(FlowRow) /\ Len(flows) \in Nat /\ Len(flows') \in Nat
  BY Lengths, FlowsStay, LenProperties DEF TypeInv
<1>1. CASE UNCHANGED flows
  BY <1>1
<1>2. CASE flows' = Append(flows, [shot |-> shot, state |-> "PREPARED"])
  <2>1. [shot |-> shot, state |-> "PREPARED"] \in FlowRow
    BY DEF FlowRow, FlowState, TypeInv
  <2>2. /\ Len(flows') = Len(flows) + 1
        /\ \A g \in 1 .. Len(flows) : flows'[g] = flows[g]
        /\ flows'[Len(flows) + 1] = [shot |-> shot, state |-> "PREPARED"]
    BY <1>0, <1>2, <2>1, AppendProperties
  <2>3. f # Len(flows) + 1
    BY <2>2 DEF Waiting
  <2>4. f \in 1 .. Len(flows)
    BY <1>0, <2>2, <2>3
  <2> QED
    BY <2>2, <2>4
<1>3. ASSUME NEW g \in 1 .. Len(flows), NEW to \in FlowState, Move(g, to),
             to \in Waiting => flows[g].state \in Waiting
      PROVE  f \in 1 .. Len(flows) /\ flows[f].state \in Waiting
  <2>1. /\ Len(flows') = Len(flows)
        /\ \A h \in 1 .. Len(flows) : flows'[h].state = IF h = g THEN to ELSE flows[h].state
    BY <1>3, Moved
  <2> QED
    BY <1>3, <2>1
<1>4. CASE PreflightKeyframe
  BY <1>1, <1>2, <1>4 DEF PreflightKeyframe, EnsureWorkflow
<1>5. CASE DecidePilot
  <2>1. Latest \in 1 .. Len(flows) /\ flows[Latest].state \in Waiting
    BY <1>5, Lengths DEF DecidePilot, Latest, Waiting
  <2> QED
    BY <1>3, <1>5, <2>1 DEF DecidePilot, FlowState
<1>6. CASE MoveByHand
  BY <1>3, <1>6 DEF MoveByHand, Latest, Waiting, FlowState
<1>7. ASSUME NEW c \in Call, Step(c)
      PROVE  f \in 1 .. Len(flows) /\ flows[f].state \in Waiting
  <2>1. CASE ExecuteKeyframe(c) \/ StartFirstVideo(c) \/ Claim(c) \/ MarkBoundary(c) \/ Generate(c) \/ Inspect(c)
             \/ Finish(c) \/ Fail(c) \/ Bind(c) \/ Crash(c)
    BY <1>1, <2>1 DEF ExecuteKeyframe, StartFirstVideo, Claim, MarkBoundary, Generate, Inspect,
       Finish, Fail, Bind, Crash
  <2>2. CASE Store(c)
    <3>1. flows' # flows => Move(FlowOf(c), "KEYFRAME_READY") /\ FlowOf(c) \in 1 .. Len(flows)
      BY <2>2, FlowOfHeld DEF Store, Working
    <3> QED
      BY <1>1, <1>3, <3>1 DEF Waiting, FlowState
  <2>4. CASE RecordFirstVideo(c)
    <3>1. UNCHANGED flows \/ \E to \in {"FIRST_VIDEO_REVIEW", "FIRST_VIDEO_FAILED"} :
             Move(FlowOf(c), to) /\ flows[FlowOf(c)].state \in {"KEYFRAME_APPROVED", "FIRST_VIDEO_RUNNING"}
      BY <2>4 DEF RecordFirstVideo
    <3>2. FlowOf(c) \in 1 .. Len(flows)
      BY <2>4, FlowOfHeld DEF RecordFirstVideo
    <3> QED
      BY <1>1, <1>3, <3>1, <3>2 DEF Waiting, FlowState
  <2>5. CASE ApproveKeyframe(c)
    <3>1. \E g \in 1 .. Len(flows) : /\ Move(g, "KEYFRAME_APPROVED")
                                     /\ flows[g].state \in {"AWAITING_HUMAN_APPROVAL", "KEYFRAME_APPROVED"}
      BY <2>5 DEF ApproveKeyframe, RefInv
    <3> QED
      BY <1>3, <3>1 DEF Waiting, FlowState
  <2> QED
    BY <1>7, <2>1, <2>2, <2>4, <2>5 DEF Step
<1>8. CASE Edit \/ Certify \/ PreflightFirstVideo \/ UNCHANGED vars
  BY <1>1, <1>8 DEF Edit, Certify, PreflightFirstVideo, vars
<1> QED
  BY <1>4, <1>5, <1>6, <1>7, <1>8, NextSteps DEF Other

LEMMA NewestStep ==
  ASSUME TypeInv, RefInv, HandInv, HoldInv, OrderInv, MakingInv, NewestPassed, [Next]_vars
  PROVE  NewestPassed'
<1> SUFFICES ASSUME NEW f \in 1 .. Len(flows'), flows'[f].state \in Waiting
             PROVE  Passed(f)'
  BY NewestPassedIs DEF NewestPassed, Waiting, Passed, Newest, Latest
<1>0. Len(keyframes) \in Nat
  BY Lengths
<1>1. ASSUME NEW k \in 1 .. Len(keyframes), Newest(f, k), keyframes[k].validation = "PASS",
             Len(keyframes') = Len(keyframes),
             \A j \in 1 .. Len(keyframes) : keyframes'[j].flow = keyframes[j].flow,
             keyframes'[k].validation = keyframes[k].validation
      PROVE  Passed(f)'
  <2>1. \A j \in k + 1 .. Len(keyframes) : j \in 1 .. Len(keyframes)
    BY <1>0
  <2> QED
    BY <1>1, <2>1 DEF Passed, Newest
<1>2. ASSUME NEW c \in Call, Evaluate(c)
      PROVE  Passed(f)'
  <2>1. Holding(c)
    BY <1>2 DEF Evaluate, Holding
  <2>2. /\ mem[c].k \in 1 .. Len(keyframes) /\ keyframes[mem[c].k].flow = FlowOf(c)
        /\ Newest(FlowOf(c), mem[c].k) /\ keyframes[mem[c].k].validation = "NONE"
        /\ FlowOf(c) \in 1 .. Len(flows)
    BY <2>1, HoldingKeyframe, FlowOfHeld DEF MakingInv, Makes
  <2>3. CASE UNCHANGED <<keyframes, flows>>
    BY <2>3, NewestPassedIs DEF Passed, Newest
  <2>4. CASE UNCHANGED flows /\ keyframes' = [keyframes EXCEPT ![mem[c].k].validation = "FAIL"]
    <3>1. PICK k \in 1 .. Len(keyframes) : Newest(f, k) /\ keyframes[k].validation = "PASS"
      BY <2>4, NewestPassedIs DEF Passed
    <3>2. k # mem[c].k
      BY <2>2, <3>1
    <3> QED
      BY <1>1, <2>2, <2>4, <3>1, <3>2, EvaluatedKeyframe
  <2>5. CASE Move(FlowOf(c), "AWAITING_HUMAN_APPROVAL")
             /\ keyframes' = [keyframes EXCEPT ![mem[c].k].validation = "PASS"]
    <3>1. /\ Len(keyframes') = Len(keyframes)
          /\ \A k \in 1 .. Len(keyframes) : /\ keyframes'[k].flow = keyframes[k].flow
                                            /\ k # mem[c].k => keyframes'[k] = keyframes[k]
          /\ keyframes'[mem[c].k].validation = "PASS"
      BY <2>2, <2>5, EvaluatedKeyframe
    <3>2. CASE f = FlowOf(c)
      <4>1. \A j \in mem[c].k + 1 .. Len(keyframes) : j \in 1 .. Len(keyframes)
        BY <1>0, <2>2
      <4> QED
        <5>1. PICK k \in 1 .. Len(keyframes) : k = mem[c].k
          BY <2>2
        <5>2. keyframes'[k].flow = f /\ keyframes'[k].validation = "PASS" /\ k \in 1 .. Len(keyframes')
          BY <2>2, <3>1, <3>2, <5>1
        <5>3. \A j \in k + 1 .. Len(keyframes) : keyframes[j].flow # f
          BY <2>2, <3>2, <5>1 DEF Newest
        <5>4. \A j \in k + 1 .. Len(keyframes') : keyframes'[j].flow # f
          BY <3>1, <4>1, <5>1, <5>3
        <5> QED
          BY <5>2, <5>4 DEF Passed, Newest
    <3>3. CASE f # FlowOf(c)
      <4>1. f \in 1 .. Len(flows) /\ flows[f].state \in Waiting
        BY <2>2, <2>5, <3>3, Moved DEF FlowState
      <4>2. PICK k \in 1 .. Len(keyframes) : Newest(f, k) /\ keyframes[k].validation = "PASS"
        BY <4>1, NewestPassedIs DEF Passed
      <4>3. k # mem[c].k
        BY <2>2, <4>2
      <4> QED
        BY <1>1, <3>1, <4>2, <4>3
    <3> QED
      BY <3>2, <3>3
  <2> QED
    BY <1>2, <2>3, <2>4, <2>5 DEF Evaluate
<1>3. CASE \A c \in Call : ~Evaluate(c)
  <2>1. f \in 1 .. Len(flows) /\ flows[f].state \in Waiting
    BY <1>3, BeginsToWait
  <2>2. PICK k \in 1 .. Len(keyframes) : Newest(f, k) /\ keyframes[k].validation = "PASS"
    BY <2>1, NewestPassedIs DEF Passed
  <2>3. CASE UNCHANGED keyframes
    BY <2>2, <2>3 DEF Passed, Newest
  <2>4. ASSUME NEW i \in 1 .. Len(keyframes), keyframes' = [keyframes EXCEPT ![i].approved = TRUE]
        PROVE  Passed(f)'
    BY <1>1, <2>2, <2>4, ApprovedKeyframe
  <2>5. ASSUME NEW c \in Call, at[c] = "store", Store(c),
               keyframes' = Append(keyframes, [flow |-> FlowOf(c), validation |-> "NONE", approved |-> FALSE])
        PROVE  Passed(f)'
    <3>1. /\ Len(keyframes') = Len(keyframes) + 1
          /\ \A j \in 1 .. Len(keyframes) : keyframes'[j] = keyframes[j]
          /\ keyframes'[Len(keyframes) + 1].flow = FlowOf(c)
          /\ FlowOf(c) \in 1 .. Len(flows)
      BY <2>5, StoredKeyframe
    <3>2. Move(FlowOf(c), "KEYFRAME_READY")
      <4>1. keyframes' # keyframes
        BY <1>0, <3>1
      <4> QED
        BY <2>5, <4>1 DEF Store
    <3>3. f # FlowOf(c)
      <4>1. flows'[FlowOf(c)].state = "KEYFRAME_READY"
        BY <3>1, <3>2, Moved DEF FlowState
      <4> QED
        BY <4>1 DEF Waiting
    <3>4. ASSUME NEW j \in k + 1 .. Len(keyframes')
          PROVE  keyframes'[j].flow # f
      <4>1. (j \in k + 1 .. Len(keyframes) /\ j \in 1 .. Len(keyframes)) \/ j = Len(keyframes) + 1
        BY <1>0, <3>1
      <4> QED
        BY <2>2, <3>1, <3>3, <4>1 DEF Newest
    <3>5. k \in 1 .. Len(keyframes')
      BY <1>0, <3>1
    <3> QED
      BY <2>2, <3>1, <3>4, <3>5 DEF Passed, Newest
  <2> QED
    BY <1>3, <2>3, <2>4, <2>5, KeyframeStep
<1> QED
  BY <1>2, <1>3

LEMMA PlanInHand ==
  ASSUME TypeInv, RefInv, HandInv, NEW c \in Call, mem[c].p # 0
  PROVE  /\ mem[c].p \in 1 .. Len(preflights)
         /\ mem[c].a # 0 => attempts[mem[c].a].stage = preflights[mem[c].p].stage
<1>1. at[c] \in {"ready", "claim", "bind"} \cup (Working \cup {"record", "fail"})
  BY DEF TypeInv, Place
<1>2. Idle.p = 0 /\ Idle.a = 0 /\ \A p : [Idle EXCEPT !.p = p].a = 0
  BY DEF Idle
<1>3. at[c] \notin {"ready", "bind"}
  BY <1>2 DEF HandInv, Hand
<1>4. CASE at[c] = "claim"
  <2>1. mem[c].p \in 1 .. Len(preflights) /\ mem[c].a = 0
    BY <1>2, <1>4 DEF HandInv, Hand
  <2> QED
    BY <2>1
<1>5. CASE at[c] \in Working \cup {"record", "fail"}
  <2>1. mem[c].a \in 1 .. Len(attempts) /\ mem[c].p = attempts[mem[c].a].p
    BY <1>5 DEF HandInv, Hand
  <2> QED
    BY <2>1 DEF RefInv
<1> QED
  BY <1>1, <1>3, <1>4, <1>5

LEMMA PreparedStep ==
  ASSUME TypeInv, RefInv, HandInv, PreparedInv, [Next]_vars
  PROVE  PreparedInv'
<1> SUFFICES ASSUME NEW p \in 1 .. Len(preflights'), preflights'[p].stage = "FIRST_VIDEO"
             PROVE  /\ preflights'[p].k # 0 /\ preflights'[p].revision <= revision'
                    /\ preflights'[p].revision = revision' => preflights'[p].k = shot'.ref
  BY DEF PreparedInv
<1>0. /\ Len(preflights) \in Nat /\ Len(preflights') \in Nat /\ revision \in Nat
      /\ \A q \in 1 .. Len(preflights) : preflights[q].revision \in Nat
  <2>1. \A q \in 1 .. Len(preflights) : preflights[q] \in PreflightRow
    BY Elements
  <2> QED
    <3>1. Len(preflights) \in Nat /\ Len(preflights') \in Nat
      BY Lengths, PreflightsStay, LenProperties
    <3>2. \A q \in 1 .. Len(preflights) : preflights[q].revision \in Nat
      BY <2>1 DEF PreflightRow
    <3> QED
      BY <3>1, <3>2, BoundsAssumption DEF TypeInv
<1>1. CASE p \in 1 .. Len(preflights)
  <2>1. preflights'[p] = preflights[p]
    BY <1>1, PreflightsStay
  <2>2. /\ preflights[p].k # 0 /\ preflights[p].revision <= revision
        /\ preflights[p].revision = revision => preflights[p].k = shot.ref
    BY <1>1, <2>1 DEF PreparedInv
  <2>3. CASE UNCHANGED <<shot, revision>>
    BY <2>1, <2>2, <2>3
  <2>4. CASE revision' = revision + 1
    BY <1>0, <1>1, <2>1, <2>2, <2>4
  <2> QED
    BY <2>3, <2>4, DraftStep DEF Rewrite
<1>2. CASE p \notin 1 .. Len(preflights)
  <2>1. PICK x \in PreflightRow :
          /\ preflights' = Append(preflights, x) /\ (KeyframeInserted(x) \/ VideoInserted(x))
          /\ UNCHANGED draft
    BY <1>2, PreflightStep
  <2>2. Len(preflights') = Len(preflights) + 1 /\ preflights'[Len(preflights) + 1] = x
    BY <2>1, AppendProperties DEF TypeInv
  <2>3. preflights'[p] = x
    BY <1>0, <1>2, <2>2
  <2>4. VideoInserted(x)
    BY <2>1, <2>3 DEF KeyframeInserted
  <2> QED
    BY <1>0, <2>1, <2>3, <2>4 DEF VideoInserted, VideoPlan, ApprovedIdentity, draft
<1> QED
  BY <1>1, <1>2

LEMMA FilmedStep ==
  ASSUME TypeInv, RefInv, HandInv, HoldInv, PreparedInv, FilmedInv, [Next]_vars
  PROVE  FilmedInv'
<1> SUFFICES ASSUME NEW a \in 1 .. Len(attempts'), attempts'[a].stage = "FIRST_VIDEO"
             PROVE  attempts'[a].k = preflights'[attempts'[a].p].k
  BY DEF FilmedInv
<1>1. CASE a \in 1 .. Len(attempts)
  <2>1. /\ attempts[a].p \in 1 .. Len(preflights) /\ attempts[a].stage = preflights[attempts[a].p].stage
        /\ attempts'[a].p = attempts[a].p /\ attempts'[a].stage = attempts[a].stage
        /\ preflights'[attempts[a].p] = preflights[attempts[a].p]
    BY <1>1, AttemptsStay, PreflightsStay DEF RefInv
  <2>2. attempts[a].k = preflights[attempts[a].p].k /\ attempts[a].k # 0
    BY <1>1, <2>1 DEF FilmedInv, PreparedInv
  <2>3. ASSUME NEW c \in Call, mem[c].a \in 1 .. Len(attempts),
               NEW x \in {Marked(attempts[mem[c].a]), Finished(attempts[mem[c].a], mem[c]),
                          Failed(attempts[mem[c].a], mem[c])},
               Writes(mem[c].a, x)
        PROVE  attempts'[a].k = attempts[a].k
    <3>1. attempts[mem[c].a] \in AttemptRow /\ mem[c] \in Memory
      BY <2>3, Elements
    <3>2. x \in AttemptRow /\ (attempts[mem[c].a].k # 0 => x.k = attempts[mem[c].a].k)
      BY <2>3, <3>1, RowsWritten
    <3>3. attempts'[a] = IF a = mem[c].a THEN x ELSE attempts[a]
      BY <1>1, <2>3, <3>2, Written
    <3> QED
      BY <2>2, <3>2, <3>3
  <2>4. ASSUME NEW c \in Call, at[c] = "claim", Inserts(Claimed(mem[c].p))
        PROVE  attempts'[a].k = attempts[a].k
    BY <1>1, <2>4, InsertedClaim
  <2>5. attempts'[a].k = attempts[a].k
    BY <2>3, <2>4, AttemptStep
  <2> QED
    BY <2>1, <2>2, <2>5
<1>2. CASE a \notin 1 .. Len(attempts)
  <2>1. PICK c \in Call : UNCHANGED preflights /\ attempts'[a] = Claimed(mem[c].p)
    BY <1>2, NewAttempt
  <2> QED
    BY <2>1 DEF Claimed
<1> QED
  BY <1>1, <1>2

LEMMA Label ==
  ASSUME TypeInv, NEW c \in Call, NEW label, NEW m, Go(c, label, m)
  PROVE  at'[c] = label
  BY DEF TypeInv, Go

\* While a pilot is being made a changed brief is noticed.
LEMMA PilotKeepsLook ==
  ASSUME TypeInv, RefInv, HandInv, FilmsInv, [Next]_vars, NEW c \in Call, IsPilot(c)
  PROVE  overtaken' \/ preflights'[mem[c].p].k = shot'.ref
<1>1. mem[c].p \in 1 .. Len(preflights)
  BY PlanInHand DEF IsPilot
<1>2. preflights'[mem[c].p] = preflights[mem[c].p]
  BY <1>1, PreflightsStay
<1>3. overtaken \/ preflights[mem[c].p].k = shot.ref
  BY DEF FilmsInv, Films
<1>4. Filming
  BY DEF Filming, IsPilot
<1>5. UNCHANGED <<shot, overtaken>> \/ overtaken'
  BY <1>4, DraftStep DEF Rewrite
<1> QED
  BY <1>2, <1>3, <1>5

LEMMA OthersFilm ==
  ASSUME TypeInv, RefInv, HandInv, HoldInv, FilmsInv, [Next]_vars, NEW d \in Call,
         at'[d] = at[d], mem'[d] = mem[d], mem[d].a # 0 => attempts'[mem[d].a] = attempts[mem[d].a],
         paid \subseteq paid'
  PROVE  Films(d)'
<1>1. ASSUME mem[d].p # 0
      PROVE  preflights'[mem[d].p] = preflights[mem[d].p]
  BY <1>1, PlanInHand, PreflightsStay
<1>2. IsPilot(d)' <=> IsPilot(d)
  BY <1>1 DEF IsPilot
<1>3. IsPilot(d) => overtaken' \/ preflights'[mem'[d].p].k = shot'.ref
  BY PilotKeepsLook
<1>4. at[d] = "record" => mem[d].a # 0
  BY FlowOfHeld, Lengths
<1> QED
  BY <1>2, <1>3, <1>4 DEF FilmsInv, Films

LEMMA SelfFilms ==
  ASSUME TypeInv, RefInv, HandInv, HoldInv, MakingInv, PreparedInv, FilmsInv, NEW c \in Call, Step(c)
  PROVE  Films(c)'
<1> USE DEF Place, Working
<1>0. [Next]_vars /\ mem[c] \in Memory
  BY StepNext DEF TypeInv
<1>1. CASE mem'[c].p = 0 /\ at'[c] # "record"
  BY <1>1 DEF Films, IsPilot
<1>2. CASE ExecuteKeyframe(c) \/ StartFirstVideo(c)
  <2>1. PICK p \in 1 .. Len(preflights) :
          /\ Go(c, "claim", [Idle EXCEPT !.p = p])
          /\ preflights[p].stage = "FIRST_VIDEO" => preflights[p].revision = revision
          /\ UNCHANGED <<preflights, shot>>
    BY <1>2 DEF ExecuteKeyframe, StartFirstVideo, draft
  <2>2. [Idle EXCEPT !.p = p] \in Memory /\ [Idle EXCEPT !.p = p].p = p
    BY Lengths, IdleType DEF Memory
  <2>3. at'[c] = "claim" /\ mem'[c].p = p
    BY <2>1, <2>2, Gone
  <2>4. preflights[p].stage = "FIRST_VIDEO" => preflights[p].k = shot.ref
    BY <2>1 DEF PreparedInv
  <2> QED
    BY <2>1, <2>3, <2>4 DEF Films, IsPilot
<1>3. ASSUME mem'[c].p = mem[c].p,
             at'[c] \in {"finish", "record"} /\ IsPilot(c) => mem'[c].a \in paid',
             at'[c] = "record" => IsPilot(c) /\ (mem'[c].ok => attempts'[mem'[c].a].status = "SUCCEEDED")
      PROVE  Films(c)'
  <2>1. mem[c].p # 0 => preflights'[mem[c].p] = preflights[mem[c].p]
    BY <1>0, PlanInHand, PreflightsStay
  <2>2. IsPilot(c)' <=> IsPilot(c)
    BY <1>3, <2>1 DEF IsPilot
  <2>3. IsPilot(c) => overtaken' \/ preflights'[mem'[c].p].k = shot'.ref
    BY <1>0, <1>3, PilotKeepsLook
  <2> QED
    BY <1>3, <2>2, <2>3 DEF Films
<1>4. CASE Generate(c)
  <2>1. at[c] = "generate" /\ paid' = paid \cup {mem[c].a}
    BY <1>4 DEF Generate
  <2>2. mem'[c].a = mem[c].a /\ mem'[c].p = mem[c].p
    <3>1. at'[c] \in {"fail", "store", "finish"}
      BY <1>4, Label DEF Generate
    <3> QED
      BY <2>1, <3>1, HandMoves
  <2>3. at'[c] # "record"
    BY <1>4, Label DEF Generate
  <2> QED
    BY <1>3, <2>1, <2>2, <2>3
<1>5. CASE Evaluate(c)
  <2>1. Holding(c) /\ at[c] = "evaluate"
    BY <1>5 DEF Evaluate, Holding
  <2>2. attempts[mem[c].a].stage = "KEYFRAME" /\ mem[c].a # 0
    BY <2>1, FlowOfHeld, Lengths DEF MakingInv, Makes
  <2>3. ~IsPilot(c)
    BY <2>2, PlanInHand DEF IsPilot
  <2>4. at'[c] \in {"fail", "finish"}
    BY <1>5, Label DEF Evaluate
  <2>5. mem'[c].p = mem[c].p
    BY <2>1, <2>4, HandMoves
  <2> QED
    BY <1>3, <2>3, <2>4, <2>5
<1>6. CASE Finish(c) /\ at'[c] # "ready"
  <2>1. at[c] = "finish" /\ mem[c].a \in 1 .. Len(attempts) /\ mem[c].p = attempts[mem[c].a].p
    <3>1. at[c] = "finish"
      BY <1>6 DEF Finish
    <3> QED
      BY <3>1 DEF HandInv, Hand
  <2>2. Go(c, "fail", mem[c]) \/ Go(c, "record", mem[c])
    BY <1>6, Label DEF Finish, Done
  <2>3. mem'[c] = mem[c] /\ at'[c] \in {"fail", "record"}
    BY <1>0, <2>2, Gone
  <2>4. UNCHANGED paid
    BY <1>6 DEF Finish, history
  <2>5. IsPilot(c) => mem[c].a \in paid
    BY <2>1 DEF FilmsInv, Films
  <2>6. ASSUME at'[c] = "record"
        PROVE  IsPilot(c) /\ (mem[c].ok => attempts'[mem[c].a].status = "SUCCEEDED")
    <3>1. /\ attempts[mem[c].a].stage = "FIRST_VIDEO"
          /\ Writes(mem[c].a, Finished(attempts[mem[c].a], mem[c]))
      BY <1>6, <2>6, Label DEF Finish, Done, Writes
    <3>2. attempts[mem[c].a] \in AttemptRow
      BY <2>1, Elements
    <3>3. /\ Finished(attempts[mem[c].a], mem[c]) \in AttemptRow
          /\ mem[c].ok => Finished(attempts[mem[c].a], mem[c]).status = "SUCCEEDED"
      BY <1>0, <3>2, RowsWritten
    <3>4. attempts'[mem[c].a] = Finished(attempts[mem[c].a], mem[c])
      BY <2>1, <3>1, <3>3, Written
    <3>5. mem[c].p \in 1 .. Len(preflights) /\ preflights[mem[c].p].stage = "FIRST_VIDEO"
      BY <2>1, <3>1 DEF RefInv
    <3>6. IsPilot(c)
      BY <3>5, Lengths DEF IsPilot
    <3> QED
      BY <3>3, <3>4, <3>6
  <2> QED
    BY <1>3, <2>3, <2>4, <2>5, <2>6
<1>7. CASE \/ Claim(c) \/ MarkBoundary(c) \/ Inspect(c) \/ Store(c) \/ Fail(c) \/ (Finish(c) /\ at'[c] = "ready")
           \/ RecordFirstVideo(c) \/ ApproveKeyframe(c) \/ Bind(c) \/ Crash(c)
  <2>1. at'[c] \notin {"finish", "record", "claim"}
    BY <1>7, Label DEF Claim, MarkBoundary, Inspect, Store, Fail, RecordFirstVideo, ApproveKeyframe,
       Bind, Crash, Done
  <2>2. CASE at'[c] \in {"ready", "bind"}
    <3>1. HandInv'
      BY <1>0, HandStep
    <3>2. Hand(c)'
      BY <3>1 DEF HandInv
    <3>3. mem'[c] = Idle \/ mem'[c].p = 0
      BY <2>2, <3>2 DEF Hand
    <3>4. Idle.p = 0
      BY DEF Idle
    <3> QED
      BY <1>1, <2>2, <3>3, <3>4
  <2>3. CASE at'[c] \notin {"ready", "bind"}
    <3>1. mem'[c].p = mem[c].p
      <4>1. [mem[c] EXCEPT !.a = Len(attempts) + 1].p = mem[c].p
        BY <1>0 DEF Memory
      <4> QED
        BY <2>1, <2>3, <4>1, HandMoves
    <3> QED
      BY <1>3, <2>1, <3>1
  <2> QED
    BY <2>2, <2>3
<1>8. CASE Finish(c)
  BY <1>6, <1>7, <1>8
<1> QED
  BY <1>2, <1>4, <1>5, <1>7, <1>8 DEF Step

LEMMA FilmsStep ==
  ASSUME TypeInv, RefInv, HandInv, HoldInv, MakingInv, PreparedInv, FilmsInv, [Next]_vars
  PROVE  FilmsInv'
<1>1. CASE Other \/ UNCHANGED vars
  <2>1. UNCHANGED <<at, mem, attempts, paid>>
    BY <1>1, OtherHolds, OtherAttempts
  <2> QED
    BY <2>1, OthersFilm DEF FilmsInv
<1>2. ASSUME NEW c \in Call, Step(c), NEW d \in Call, d # c
      PROVE  Films(d)'
  <2>1. paid \subseteq paid'
    BY <1>2, StepPays
  <2> QED
    BY <1>2, <2>1, OthersHold, OthersFilm
<1> QED
  BY <1>1, <1>2, SelfFilms, NextSteps DEF FilmsInv

\* A workflow comes into review by the record of its pilot only.
Reviewed(c, f) == RecordFirstVideo(c) /\ mem[c].ok /\ FlowOf(c) = f

LEMMA ReviewBegins ==
  ASSUME TypeInv, RefInv, HandInv, [Next]_vars,
         NEW f \in 1 .. Len(flows'), flows'[f].state = "FIRST_VIDEO_REVIEW", \A c \in Call : ~Reviewed(c, f)
  PROVE  f \in 1 .. Len(flows) /\ flows[f].state = "FIRST_VIDEO_REVIEW"
<1>0. flows \in Seq(FlowRow) /\ Len(flows) \in Nat /\ Len(flows') \in Nat
  BY Lengths, FlowsStay, LenProperties DEF TypeInv
<1>1. CASE UNCHANGED flows
  BY <1>1
<1>2. CASE flows' = Append(flows, [shot |-> shot, state |-> "PREPARED"])
  <2>1. [shot |-> shot, state |-> "PREPARED"] \in FlowRow
    BY DEF FlowRow, FlowState, TypeInv
  <2>2. /\ Len(flows') = Len(flows) + 1
        /\ \A g \in 1 .. Len(flows) : flows'[g] = flows[g]
        /\ flows'[Len(flows) + 1] = [shot |-> shot, state |-> "PREPARED"]
    BY <1>0, <1>2, <2>1, AppendProperties
  <2>3. f \in 1 .. Len(flows)
    BY <1>0, <2>2
  <2> QED
    BY <2>2, <2>3
<1>3. ASSUME NEW g \in 1 .. Len(flows), NEW to \in FlowState, Move(g, to), to # "FIRST_VIDEO_REVIEW" \/ g # f
      PROVE  f \in 1 .. Len(flows) /\ flows[f].state = "FIRST_VIDEO_REVIEW"
  <2>1. /\ Len(flows') = Len(flows)
        /\ \A h \in 1 .. Len(flows) : flows'[h].state = IF h = g THEN to ELSE flows[h].state
    BY <1>3, Moved
  <2> QED
    BY <1>3, <2>1
<1>4. CASE PreflightKeyframe
  BY <1>1, <1>2, <1>4 DEF PreflightKeyframe, EnsureWorkflow
<1>5. CASE DecidePilot
  <2>1. Latest \in 1 .. Len(flows)
    BY <1>5, Lengths DEF DecidePilot, Latest
  <2> QED
    BY <1>3, <1>5, <2>1 DEF DecidePilot, FlowState
<1>6. CASE MoveByHand
  BY <1>3, <1>6 DEF MoveByHand, Latest, FlowState
<1>7. ASSUME NEW c \in Call, Step(c)
      PROVE  f \in 1 .. Len(flows) /\ flows[f].state = "FIRST_VIDEO_REVIEW"
  <2>1. CASE ExecuteKeyframe(c) \/ StartFirstVideo(c) \/ Claim(c) \/ MarkBoundary(c) \/ Generate(c) \/ Inspect(c)
             \/ Finish(c) \/ Fail(c) \/ Bind(c) \/ Crash(c)
    BY <1>1, <2>1 DEF ExecuteKeyframe, StartFirstVideo, Claim, MarkBoundary, Generate, Inspect,
       Finish, Fail, Bind, Crash
  <2>2. CASE Store(c) \/ Evaluate(c)
    <3>1. \/ UNCHANGED flows
          \/ \E to \in {"KEYFRAME_READY", "AWAITING_HUMAN_APPROVAL"} : Move(FlowOf(c), to)
      BY <2>2 DEF Store, Evaluate
    <3>2. FlowOf(c) \in 1 .. Len(flows)
      BY <2>2, FlowOfHeld DEF Store, Evaluate, Working
    <3> QED
      BY <1>1, <1>3, <3>1, <3>2 DEF FlowState
  <2>3. CASE RecordFirstVideo(c)
    <3>1. \/ UNCHANGED flows
          \/ \E to \in {"FIRST_VIDEO_REVIEW", "FIRST_VIDEO_FAILED"} :
               Move(FlowOf(c), to) /\ (to = "FIRST_VIDEO_REVIEW" => mem[c].ok)
      BY <2>3 DEF RecordFirstVideo
    <3>2. FlowOf(c) \in 1 .. Len(flows)
      BY <2>3, FlowOfHeld DEF RecordFirstVideo
    <3>3. mem[c].ok => FlowOf(c) # f
      BY <2>3 DEF Reviewed
    <3> QED
      BY <1>1, <1>3, <3>1, <3>2, <3>3 DEF FlowState
  <2>4. CASE ApproveKeyframe(c)
    <3>1. \E g \in 1 .. Len(flows) : Move(g, "KEYFRAME_APPROVED")
      BY <2>4 DEF ApproveKeyframe, RefInv
    <3> QED
      BY <1>3, <3>1 DEF FlowState
  <2> QED
    BY <1>7, <2>1, <2>2, <2>3, <2>4 DEF Step
<1>8. CASE Edit \/ Certify \/ PreflightFirstVideo \/ UNCHANGED vars
  BY <1>1, <1>8 DEF Edit, Certify, PreflightFirstVideo, vars
<1> QED
  BY <1>4, <1>5, <1>6, <1>7, <1>8, NextSteps DEF Other

\* The pilot that is put before a human shows the brief, and stays what it is.
Shows(f, a) == /\ a \in 1 .. Len(attempts) /\ attempts[a].stage = "FIRST_VIDEO" /\ attempts[a].flow = f
               /\ attempts[a].status = "SUCCEEDED" /\ attempts[a].k = shot.ref /\ a \in paid

LEMMA PilotShowsIs ==
  PilotShowsLookUnlessOvertaken <=>
    \A f \in 1 .. Len(flows) : flows[f].state = "FIRST_VIDEO_REVIEW" => overtaken \/ \E a : Shows(f, a)
<1>1. \A f : (\E a : Shows(f, a)) <=>
               \E a \in Pilots : /\ attempts[a].flow = f /\ attempts[a].status = "SUCCEEDED"
                                 /\ attempts[a].k = shot.ref /\ a \in paid
  BY DEF Shows, Pilots
<1> QED
  BY <1>1 DEF PilotShowsLookUnlessOvertaken, Latest

LEMMA ShowStep ==
  ASSUME TypeInv, RefInv, HandInv, HoldInv, FilmedInv, FilmsInv, PilotShowsLookUnlessOvertaken, [Next]_vars
  PROVE  PilotShowsLookUnlessOvertaken'
<1> SUFFICES ASSUME NEW f \in 1 .. Len(flows'), flows'[f].state = "FIRST_VIDEO_REVIEW"
             PROVE  overtaken' \/ \E a : Shows(f, a)'
  BY DEF PilotShowsLookUnlessOvertaken, Latest, Shows, Pilots
<1>1. CASE f \in 1 .. Len(flows) /\ flows[f].state = "FIRST_VIDEO_REVIEW"
  <2>1. (\E s : Rewrite(s)) => overtaken'
    BY <1>1 DEF Rewrite, Latest
  <2>2. CASE UNCHANGED <<shot, overtaken>> /\ ~overtaken
    <3>1. PICK a : Shows(f, a)
      BY <1>1, <2>2, PilotShowsIs
    <3>2. /\ Len(attempts) \in Nat /\ Len(attempts') \in Nat /\ Len(attempts) <= Len(attempts')
          /\ attempts'[a] = attempts[a]
      BY <3>1, LengthsStay, AttemptsStay DEF Shows
    <3>3. paid \subseteq paid'
      BY HistoryStep
    <3> QED
      BY <2>2, <3>1, <3>2, <3>3 DEF Shows
  <2>3. UNCHANGED <<shot, overtaken>> \/ overtaken'
    BY <2>1, DraftStep
  <2> QED
    BY <2>2, <2>3
<1>2. ASSUME NEW c \in Call, Reviewed(c, f)
      PROVE  overtaken' \/ \E a : Shows(f, a)'
  <2>1. at[c] = "record" /\ mem[c].ok /\ UNCHANGED <<shot, attempts, preflights, paid, overtaken>>
    BY <1>2 DEF Reviewed, RecordFirstVideo, history
  <2>2. mem[c].a \in 1 .. Len(attempts) /\ mem[c].p = attempts[mem[c].a].p
    BY <2>1 DEF HandInv, Hand
  <2>3. /\ IsPilot(c) /\ attempts[mem[c].a].status = "SUCCEEDED" /\ mem[c].a \in paid
        /\ overtaken \/ preflights[mem[c].p].k = shot.ref
    BY <2>1 DEF FilmsInv, Films
  <2>4. attempts[mem[c].a].stage = "FIRST_VIDEO"
    BY <2>2, <2>3 DEF RefInv, IsPilot
  <2>5. attempts[mem[c].a].k = preflights[mem[c].p].k
    BY <2>2, <2>4 DEF FilmedInv
  <2>6. attempts[mem[c].a].flow = f
    BY <1>2 DEF Reviewed, FlowOf
  <2> QED
    BY <2>1, <2>2, <2>3, <2>4, <2>5, <2>6 DEF Shows
<1> QED
  BY <1>1, <1>2, ReviewBegins

----------------------------------------------------------------------------
\* Nothing is written and nobody is at work at first.
LEMMA InitInv == Init => IInv
<1> SUFFICES ASSUME Init
             PROVE  IInv
  OBVIOUS
<1>1. /\ flows = <<>> /\ keyframes = <<>> /\ preflights = <<>> /\ attempts = <<>> /\ paid = {}
      /\ \A c \in Call : at[c] = "ready" /\ mem[c] = Idle
  BY DEF Init
<1>2. Len(flows) = 0 /\ Len(keyframes) = 0 /\ Len(preflights) = 0 /\ Len(attempts) = 0
  BY <1>1
<1>3. TypeInv
  <2>1. shot \in [plan : Plan, ref : Nat] /\ revision \in 1 .. MaxRevisions /\ certified \in BOOLEAN
    <3>1. MaxRevisions \in Nat /\ MaxRevisions # 0
      BY BoundsAssumption
    <3>2. 1 \in 1 .. MaxRevisions
      BY <3>1
    <3>3. shot \in [plan : Plan, ref : Nat]
      BY DEF Init
    <3> QED
      BY <3>2, <3>3 DEF Init
  <2>2. at \in [Call -> Place] /\ mem \in [Call -> Memory]
    BY IdleType DEF Init, Place
  <2>3. overtaken \in BOOLEAN /\ crashes \in Nat
    BY DEF Init
  <2>4. <<>> \in Seq(FlowRow) /\ <<>> \in Seq(KeyframeRow) /\ <<>> \in Seq(PreflightRow) /\ <<>> \in Seq(AttemptRow)
    OBVIOUS
  <2> QED
    BY <1>1, <2>1, <2>2, <2>3, <2>4 DEF TypeInv
<1>4. RefInv
  BY <1>2 DEF RefInv, Init
<1>5. /\ Idle.a = 0 /\ Idle.p = 0
      /\ \A c \in Call : at[c] \notin Working \cup {"record", "fail", "bind", "claim"}
  BY <1>1 DEF Idle, Working
<1>6. HandInv
  BY <1>1, <1>5 DEF HandInv, Hand
<1>7. HoldInv
  BY <1>1, <1>5 DEF HoldInv
<1>8. OrderInv
  BY <1>2 DEF OrderInv
<1>9. MakingInv
  BY <1>1 DEF MakingInv, Makes, Holding
<1>10. PilotInv
  BY <1>1, <1>2, <1>5 DEF PilotInv, PreparedInv, FilmedInv, FilmsInv, Films, IsPilot
<1>11. NewestPassed /\ PilotShowsLookUnlessOvertaken
  BY <1>2 DEF NewestPassed, PilotShowsLookUnlessOvertaken, Latest
<1> QED
  BY <1>3, <1>4, <1>6, <1>7, <1>8, <1>9, <1>10, <1>11 DEF IInv

LEMMA StepInv == IInv /\ [Next]_vars => IInv'
  BY TypeStep, RefStep, HandStep, HoldStep, OrderStep, MakingStep, PreparedStep, FilmedStep, FilmsStep,
     NewestStep, ShowStep DEF IInv, PilotInv

LEMMA Inductive == Spec => []IInv
  BY InitInv, StepInv, PTL DEF Spec

\* The rows refer to one another, and a stage of a workflow has at most one
\* attempt in doubt: what the index locked_stage_one_active_attempt demands is
\* already seen to by claimLockedStage().
THEOREM TypeCorrect == Spec => []TypeOK
<1>1. IInv => TypeOK
  <2> SUFFICES ASSUME IInv
               PROVE  TypeOK
    OBVIOUS
  <2>1. shot \in [plan : Plan, ref : 0 .. Len(keyframes)] /\ revision \in 1 .. MaxRevisions
    BY DEF IInv, TypeInv, RefInv
  <2>2. /\ \A k \in 1 .. Len(keyframes) : keyframes[k].flow \in 1 .. Len(flows)
        /\ \A p \in 1 .. Len(preflights) : preflights[p].flow \in 1 .. Len(flows)
        /\ \A a \in 1 .. Len(attempts) : /\ attempts[a].flow = preflights[attempts[a].p].flow
                                         /\ attempts[a].k \in 0 .. Len(keyframes)
    BY DEF IInv, RefInv
  <2>3. ASSUME NEW a \in 1 .. Len(attempts), NEW b \in 1 .. Len(attempts), a # b,
               attempts[a].flow = attempts[b].flow, attempts[a].stage = attempts[b].stage
        PROVE  ~({attempts[a].status, attempts[b].status} \subseteq InDoubt)
    <3>1. a < b \/ b < a
      BY <2>3, Lengths DEF IInv
    <3>2. attempts[a].status \notin InDoubt \/ attempts[b].status \notin InDoubt
      BY <2>3, <3>1 DEF IInv, OrderInv
    <3> QED
      BY <3>2
  <2> QED
    BY <2>1, <2>2, <2>3 DEF TypeOK, Latest
<1> QED
  BY <1>1, Inductive, PTL

\* A preflight of a keyframe or of a pilot is paid for once, whatever becomes
\* of its attempts, and no stage of a workflow is paid for behind a call whose
\* outcome is unknown.
THEOREM PaidForOnce == Spec => []PaidOnce
<1>1. IInv => PaidOnce
  <2> SUFFICES ASSUME IInv, NEW a \in paid, NEW b \in paid, a < b
               PROVE  /\ attempts[a].p # attempts[b].p
                      /\ attempts[a].flow = attempts[b].flow /\ attempts[a].stage = attempts[b].stage
                           => attempts[a].status \notin InDoubt
    BY DEF PaidOnce
  <2>1. a \in 1 .. Len(attempts) /\ b \in 1 .. Len(attempts)
    BY DEF IInv, TypeInv
  <2> QED
    BY <2>1 DEF IInv, OrderInv
<1> QED
  BY <1>1, Inductive, PTL

\* What waits for a human, or was approved by one, is a workflow whose newest
\* keyframe passed its evaluation: storeKeyframeArtifact() moves the workflow
\* away from every approval, and no two calls make a keyframe of one workflow.
THEOREM KeyframesPassed == Spec => []NewestPassed
  BY Inductive, PTL DEF IInv

\* A pilot that recordFirstVideoResult() puts before a human was paid for and
\* shows the opening shot of the brief, unless the brief changed while it was
\* made or while it waited.
THEOREM PilotShows == Spec => []PilotShowsLookUnlessOvertaken
  BY Inductive, PTL DEF IInv
-----------------------------------------------------------------------------
(***************************************************************************)
(* Each of the two stages of a workflow is a PaidStage.  The row in doubt  *)
(* has it in hand.                                                         *)
(***************************************************************************)
InStage(f, s) == {a \in 1 .. Len(attempts) : attempts[a].flow = f /\ attempts[a].stage = s}
Pending(f, s) == {a \in InStage(f, s) : attempts[a].status \in InDoubt}
InHand(f, s) == CHOOSE a \in Pending(f, s) : TRUE

PhaseOf(a) == IF attempts[a].status = "NEEDS_RECONCILIATION" THEN "doubt"
              ELSE IF a \in paid THEN "paid"
              ELSE IF attempts[a].boundary = "MAY_HAVE_STARTED" THEN "marked" ELSE "held"

Phase(f, s) == IF Pending(f, s) = {} THEN "free" ELSE PhaseOf(InHand(f, s))
Current(f, s) == IF Pending(f, s) = {} THEN 0 ELSE attempts[InHand(f, s)].p
Spent(f, s) == {attempts[a].p : a \in {b \in InStage(f, s) : attempts[b].status \notin InDoubt
                                                             /\ ~attempts[b].safe}}
Bought(f, s) == {attempts[a].p : a \in InStage(f, s) \cap paid}

StageOf(f, s) == INSTANCE PaidStage WITH
  Preflight <- Nat \ {0}, None <- 0,
  phase <- Phase(f, s), current <- Current(f, s), spent <- Spent(f, s), bought <- Bought(f, s)

\* A call has moved the row as far as it knows itself: an upload is inspected,
\* and called safe, in front of the boundary.
Bounded(c) ==
  /\ at[c] = "inspect" \/ mem[c].safe => attempts[mem[c].a].boundary = "NOT_CROSSED"
  /\ mem[c].safe => at[c] = "fail"
  /\ attempts[mem[c].a].status = "RUNNING" /\ mem[c].crossed
       => attempts[mem[c].a].boundary = "MAY_HAVE_STARTED"
BoundaryInv == \A c \in Call : mem[c].a # 0 => Bounded(c)

LEMMA InitBoundary == Init => BoundaryInv
  BY DEF Init, BoundaryInv, Idle

LEMMA SelfBounded ==
  ASSUME TypeInv, RefInv, HandInv, HoldInv, BoundaryInv, NEW c \in Call, Step(c), mem'[c].a # 0
  PROVE  Bounded(c)'
<1> USE DEF Place, Working
<1>0. mem[c] \in Memory /\ Idle \in Memory /\ Idle.a = 0 /\ \A p : [Idle EXCEPT !.p = p].a = 0
  BY IdleType DEF TypeInv, Idle
<1>1. ASSUME mem[c].a # 0, at[c] \notin {"record", "fail"}
      PROVE  /\ ~mem[c].safe /\ mem[c].a \in 1 .. Len(attempts)
             /\ attempts[mem[c].a] \in AttemptRow /\ attempts[mem[c].a].status = "RUNNING"
             /\ mem[c].crossed => attempts[mem[c].a].boundary = "MAY_HAVE_STARTED"
             /\ at[c] = "inspect" => attempts[mem[c].a].boundary = "NOT_CROSSED"
  <2>1. at[c] \in Working
    BY <1>1, Held
  <2>2. Bounded(c) /\ Holds(c)
    BY <1>1 DEF BoundaryInv, HoldInv
  <2>3. mem[c].a \in 1 .. Len(attempts) /\ attempts[mem[c].a] \in AttemptRow
    BY <1>1, Held, Elements
  <2> QED
    BY <1>1, <2>1, <2>2, <2>3 DEF Bounded, Holds
<1>2. ASSUME Done(c) PROVE FALSE
  BY <1>0, <1>2, HandDone
<1>3. ASSUME NEW label \in Place, NEW m \in Memory, Go(c, label, m)
      PROVE  at'[c] = label /\ mem'[c] = m
  BY <1>3, Gone
<1>4. ASSUME UNCHANGED attempts, at[c] \in {"generate", "store", "evaluate"}, mem[c].a # 0,
             mem'[c].a = mem[c].a, mem'[c].safe = mem[c].safe, mem'[c].crossed = mem[c].crossed,
             at'[c] # "inspect"
      PROVE  Bounded(c)'
  BY <1>1, <1>4 DEF Bounded
<1>5. CASE ExecuteKeyframe(c) \/ StartFirstVideo(c) \/ ApproveKeyframe(c) \/ Bind(c) \/ Crash(c)
  <2>1. \A p \in Nat : [Idle EXCEPT !.p = p] \in Memory /\ [Idle EXCEPT !.k = p] \in Memory
                      /\ [Idle EXCEPT !.k = p].a = 0
    BY <1>0 DEF Memory, Idle
  <2>2. 1 .. Len(preflights) \subseteq Nat /\ 1 .. Len(keyframes) \subseteq Nat
    BY Lengths
  <2>3. ASSUME NEW p \in 1 .. Len(preflights), Go(c, "claim", [Idle EXCEPT !.p = p]) PROVE FALSE
    BY <1>0, <1>3, <2>1, <2>2, <2>3
  <2>4. ASSUME NEW k \in 1 .. Len(keyframes), Go(c, "bind", [Idle EXCEPT !.k = k]) PROVE FALSE
    BY <1>3, <2>1, <2>2, <2>4
  <2> QED
    BY <1>2, <1>5, <2>3, <2>4 DEF ExecuteKeyframe, StartFirstVideo, ApproveKeyframe, Bind, Crash
<1>6. CASE Claim(c)
  <2>1. at[c] = "claim" /\ Inserts(Claimed(mem[c].p))
    BY <1>2, <1>6 DEF Claim, Inserts, Claimed
  <2>2. mem[c].crossed = FALSE /\ mem[c].safe = FALSE
    BY <2>1 DEF HandInv, Hand, Idle
  <2>3. /\ mem'[c] = [mem[c] EXCEPT !.a = Len(attempts) + 1]
        /\ at'[c] \in {"inspect", "mark"}
    BY <1>6, <2>1, HandMoves, <1>0, <1>2 DEF Claim
  <2>4. mem'[c].a = Len(attempts) + 1 /\ ~mem'[c].crossed /\ ~mem'[c].safe
    BY <1>0, <2>2, <2>3 DEF Memory
  <2>5. attempts'[mem'[c].a].boundary = "NOT_CROSSED"
    BY <2>1, <2>4, InsertedClaim DEF Claimed
  <2> QED
    BY <2>4, <2>5 DEF Bounded
<1>7. CASE MarkBoundary(c)
  <2>1. at[c] = "mark" /\ mem[c].a # 0
    BY <1>7, HandMoves DEF MarkBoundary
  <2>2. [mem[c] EXCEPT !.crossed = TRUE] \in Memory
    BY <1>0 DEF Memory
  <2>3. CASE UNCHANGED attempts /\ Go(c, "fail", mem[c])
    BY <1>0, <1>1, <1>3, <2>1, <2>3 DEF Bounded
  <2>4. CASE /\ Writes(mem[c].a, Marked(attempts[mem[c].a]))
             /\ \/ Go(c, IF mem[c].k # 0 THEN "evaluate" ELSE "generate", [mem[c] EXCEPT !.crossed = TRUE])
                \/ Go(c, "fail", mem[c])
    <3>1. at'[c] \in {"evaluate", "generate", "fail"} /\ mem'[c] \in {mem[c], [mem[c] EXCEPT !.crossed = TRUE]}
      BY <1>0, <1>3, <2>2, <2>4
    <3>2. mem'[c].a = mem[c].a /\ ~mem'[c].safe
      BY <1>0, <1>1, <2>1, <3>1 DEF Memory
    <3>3. attempts'[mem[c].a] = Marked(attempts[mem[c].a])
      BY <1>0, <1>1, <2>1, <2>4, RowsWritten, Written
    <3>4. attempts'[mem[c].a].boundary = "MAY_HAVE_STARTED"
      BY <1>1, <2>1, <3>3 DEF Marked, AttemptRow
    <3> QED
      BY <3>1, <3>2, <3>4 DEF Bounded
  <2> QED
    BY <1>7, <2>3, <2>4 DEF MarkBoundary, Writes, Marked
<1>8. CASE Generate(c) \/ Store(c) \/ Evaluate(c)
  <2>1. at[c] \in {"generate", "store", "evaluate"} /\ UNCHANGED attempts
    BY <1>8 DEF Generate, Store, Evaluate
  <2>2. mem[c].a # 0
    BY <2>1, HandMoves
  <2>3. /\ \A ok \in BOOLEAN : /\ [mem[c] EXCEPT !.ok = ok] \in Memory
                                /\ [mem[c] EXCEPT !.ok = ok].safe = mem[c].safe
                                /\ [mem[c] EXCEPT !.ok = ok].crossed = mem[c].crossed
                                /\ [mem[c] EXCEPT !.ok = ok].a = mem[c].a
        /\ [mem[c] EXCEPT !.k = Len(keyframes) + 1] \in Memory
        /\ [mem[c] EXCEPT !.k = Len(keyframes) + 1].safe = mem[c].safe
        /\ [mem[c] EXCEPT !.k = Len(keyframes) + 1].crossed = mem[c].crossed
        /\ [mem[c] EXCEPT !.k = Len(keyframes) + 1].a = mem[c].a
    BY <1>0, Lengths DEF Memory
  <2>4. \E label \in {"fail", "store", "finish", "evaluate", "mark"}, m \in Memory :
          /\ Go(c, label, m)
          /\ m.safe = mem[c].safe /\ m.crossed = mem[c].crossed /\ m.a = mem[c].a
    <3>1. CASE Generate(c)
      BY <1>0, <2>3, <3>1 DEF Generate
    <3>2. CASE Store(c)
      BY <1>0, <2>3, <3>2 DEF Store
    <3>3. CASE Evaluate(c)
      BY <1>0, <2>3, <3>3 DEF Evaluate
    <3> QED
      BY <1>8, <3>1, <3>2, <3>3
  <2>5. /\ at'[c] # "inspect"
        /\ mem'[c].safe = mem[c].safe /\ mem'[c].crossed = mem[c].crossed /\ mem'[c].a = mem[c].a
    BY <1>3, <2>4
  <2> QED
    BY <1>4, <2>1, <2>2, <2>5
<1>9. CASE Inspect(c)
  <2>1. at[c] = "inspect" /\ UNCHANGED attempts /\ mem[c].a # 0
    BY <1>9, HandMoves DEF Inspect
  <2>2. [mem[c] EXCEPT !.safe = TRUE] \in Memory
    BY <1>0 DEF Memory
  <2>3. CASE Go(c, "store", mem[c])
    BY <1>0, <1>1, <1>3, <2>1, <2>3 DEF Bounded
  <2>4. CASE Go(c, "fail", [mem[c] EXCEPT !.safe = TRUE])
    <3>1. at'[c] = "fail" /\ mem'[c] = [mem[c] EXCEPT !.safe = TRUE]
      BY <1>3, <2>2, <2>4
    <3>2. mem'[c].a = mem[c].a /\ mem'[c].crossed = mem[c].crossed
      BY <1>0, <3>1 DEF Memory
    <3> QED
      BY <1>1, <2>1, <3>1, <3>2 DEF Bounded
  <2> QED
    BY <1>9, <2>3, <2>4 DEF Inspect
<1>10. CASE Finish(c)
  <2>1. at[c] = "finish" /\ mem[c].a # 0
    BY <1>10, HandMoves DEF Finish
  <2>2. CASE UNCHANGED attempts /\ Go(c, "fail", mem[c])
    BY <1>0, <1>1, <1>3, <2>1, <2>2 DEF Bounded
  <2>3. CASE Writes(mem[c].a, Finished(attempts[mem[c].a], mem[c])) /\ Go(c, "record", mem[c])
    <3>1. at'[c] = "record" /\ mem'[c] = mem[c]
      BY <1>0, <1>3, <2>3
    <3>2. attempts'[mem[c].a] = Finished(attempts[mem[c].a], mem[c])
      BY <1>0, <1>1, <2>1, <2>3, RowsWritten, Written
    <3>3. attempts[mem[c].a] \in AttemptRow /\ ~mem[c].safe
      BY <1>1, <2>1
    <3>4. attempts'[mem[c].a].status \in {"SUCCEEDED", "FAILED"}
      BY <1>0, <3>2, <3>3, RowsWritten
    <3> QED
      BY <2>1, <3>1, <3>3, <3>4 DEF Bounded
  <2> QED
    BY <1>2, <1>10, <2>2, <2>3 DEF Finish, Writes
<1>11. CASE Fail(c)
  BY <1>2, <1>11 DEF Fail
<1>12. CASE RecordFirstVideo(c)
  <2>1. at[c] = "record" /\ UNCHANGED attempts /\ mem[c].a # 0
    BY <1>12, HandMoves DEF RecordFirstVideo
  <2>2. at'[c] = "fail" /\ mem'[c] = mem[c]
    BY <1>0, <1>2, <1>3, <1>12 DEF RecordFirstVideo
  <2>3. Bounded(c)
    BY <2>1 DEF BoundaryInv
  <2> QED
    BY <2>1, <2>2, <2>3 DEF Bounded
<1> QED
  BY <1>5, <1>6, <1>7, <1>8, <1>9, <1>10, <1>11, <1>12 DEF Step

LEMMA BoundaryStep ==
  ASSUME TypeInv, RefInv, HandInv, HoldInv, BoundaryInv, [Next]_vars
  PROVE  BoundaryInv'
<1>1. CASE Other \/ UNCHANGED vars
  <2>1. UNCHANGED <<at, mem, attempts>>
    BY <1>1, OtherHolds, OtherAttempts
  <2> QED
    BY <2>1 DEF BoundaryInv, Bounded
<1>2. ASSUME NEW c \in Call, Step(c), NEW d \in Call, d # c, mem'[d].a # 0
      PROVE  Bounded(d)'
  <2>1. at'[d] = at[d] /\ mem'[d] = mem[d] /\ attempts'[mem[d].a] = attempts[mem[d].a]
    BY <1>2, OthersHold
  <2> QED
    BY <1>2, <2>1 DEF BoundaryInv, Bounded
<1> QED
  BY <1>1, <1>2, SelfBounded, NextSteps DEF BoundaryInv
-----------------------------------------------------------------------------
\* What a step leaves alone is not seen by its stage.
LEMMA StageSame ==
  ASSUME NEW f, NEW s, InStage(f, s)' = InStage(f, s),
         \A a \in InStage(f, s) : attempts'[a] = attempts[a] /\ (a \in paid' <=> a \in paid)
  PROVE  UNCHANGED <<Phase(f, s), Current(f, s), Spent(f, s), Bought(f, s)>>
<1>1. Pending(f, s)' = Pending(f, s) /\ Pending(f, s) \subseteq InStage(f, s)
  BY DEF Pending
<1>2. InHand(f, s)' = InHand(f, s)
  BY <1>1 DEF InHand
<1>3. Pending(f, s) # {} => InHand(f, s) \in InStage(f, s)
  BY <1>1 DEF InHand
<1>4. UNCHANGED <<Phase(f, s), Current(f, s)>>
  BY <1>1, <1>2, <1>3 DEF Phase, Current, PhaseOf
<1>5. UNCHANGED <<Spent(f, s), Bought(f, s)>>
  BY DEF Spent, Bought
<1> QED
  BY <1>4, <1>5

\* The row in doubt is the only one.
LEMMA InHandIs ==
  ASSUME TypeInv, OrderInv, NEW f, NEW s, NEW a \in Pending(f, s)
  PROVE  Pending(f, s) = {a} /\ Phase(f, s) = PhaseOf(a) /\ Current(f, s) = attempts[a].p
<1>1. ASSUME NEW b \in Pending(f, s) PROVE b = a
  <2>1. /\ a \in 1 .. Len(attempts) /\ b \in 1 .. Len(attempts) /\ Len(attempts) \in Nat
        /\ attempts[a].flow = attempts[b].flow /\ attempts[a].stage = attempts[b].stage
        /\ attempts[a].status \in InDoubt /\ attempts[b].status \in InDoubt
    BY Lengths DEF Pending, InStage
  <2>2. ~(a < b) /\ ~(b < a)
    BY <2>1 DEF OrderInv
  <2> QED
    BY <2>1, <2>2
<1>2. Pending(f, s) = {a} /\ InHand(f, s) = a
  BY <1>1 DEF InHand
<1> QED
  BY <1>2 DEF Phase, Current

\* The row in doubt is written, or is paid for.
LEMMA StageWritten ==
  ASSUME TypeInv, OrderInv, NEW f, NEW s, NEW a \in Pending(f, s), InStage(f, s)' = InStage(f, s),
         \A b \in InStage(f, s) : b # a => attempts'[b] = attempts[b],
         attempts'[a].p = attempts[a].p, paid' \in {paid, paid \cup {a}}
  PROVE  /\ attempts'[a].status \in InDoubt
              => /\ Phase(f, s)' = PhaseOf(a)'
                 /\ UNCHANGED <<Current(f, s), Spent(f, s)>>
         /\ attempts'[a].status \notin InDoubt
              => /\ Phase(f, s)' = "free" /\ Current(f, s)' = 0
                 /\ Spent(f, s)' = IF attempts'[a].safe THEN Spent(f, s)
                                   ELSE Spent(f, s) \cup {attempts[a].p}
         /\ Bought(f, s)' = IF a \in paid' THEN Bought(f, s) \cup {attempts[a].p} ELSE Bought(f, s)
<1>1. a \in InStage(f, s) /\ attempts[a].status \in InDoubt
  BY DEF Pending
<1>2. Pending(f, s) = {a} /\ Current(f, s) = attempts[a].p
  BY InHandIs
<1>3. ASSUME attempts'[a].status \in InDoubt
      PROVE  Phase(f, s)' = PhaseOf(a)' /\ UNCHANGED <<Current(f, s), Spent(f, s)>>
  <2>1. Pending(f, s)' = {a}
    BY <1>1, <1>2, <1>3 DEF Pending
  <2>2. InHand(f, s)' = a
    BY <2>1 DEF InHand
  <2>3. Spent(f, s)' = Spent(f, s)
    BY <1>1, <1>3 DEF Spent
  <2> QED
    BY <1>2, <2>1, <2>2, <2>3 DEF Phase, Current
<1>4. ASSUME attempts'[a].status \notin InDoubt
      PROVE  /\ Phase(f, s)' = "free" /\ Current(f, s)' = 0
             /\ Spent(f, s)' = IF attempts'[a].safe THEN Spent(f, s)
                               ELSE Spent(f, s) \cup {attempts[a].p}
  <2>1. Pending(f, s)' = {}
    BY <1>1, <1>2, <1>4 DEF Pending
  <2> DEFINE Tried == {b \in InStage(f, s) : attempts[b].status \notin InDoubt /\ ~attempts[b].safe}
  <2>2. /\ a \notin Tried
        /\ Tried' = IF attempts'[a].safe THEN Tried ELSE Tried \cup {a}
    BY <1>1, <1>4
  <2>3. \A b \in Tried \cup {a} : attempts'[b].p = attempts[b].p
    OBVIOUS
  <2>4. Spent(f, s) = {attempts[b].p : b \in Tried} /\ Spent(f, s)' = {attempts'[b].p : b \in Tried'}
    BY DEF Spent
  <2> HIDE DEF Tried
  <2>5. Spent(f, s)' = IF attempts'[a].safe THEN Spent(f, s) ELSE Spent(f, s) \cup {attempts[a].p}
    BY <2>2, <2>3, <2>4
  <2> QED
    BY <2>1, <2>5 DEF Phase, Current
<1>5. Bought(f, s)' = IF a \in paid' THEN Bought(f, s) \cup {attempts[a].p} ELSE Bought(f, s)
  <2>1. \A b \in InStage(f, s) : attempts'[b].p = attempts[b].p
    OBVIOUS
  <2>2. Bought(f, s)' = {attempts[b].p : b \in InStage(f, s) \cap paid'}
    BY <2>1 DEF Bought
  <2>3. CASE a \in paid'
    <3>1. InStage(f, s) \cap paid' = (InStage(f, s) \cap paid) \cup {a}
      BY <1>1, <2>3
    <3> QED
      BY <2>2, <2>3, <3>1 DEF Bought
  <2>4. CASE a \notin paid'
    <3>1. paid' = paid
      BY <2>4
    <3> QED
      BY <2>2, <2>4, <3>1 DEF Bought
  <2> QED
    BY <2>3, <2>4
<1> QED
  BY <1>3, <1>4, <1>5

\* Rows stay in their stage, and a claim adds one to its own.
LEMMA StageGrows ==
  ASSUME TypeInv, RefInv, HandInv, HoldInv, [Next]_vars, NEW f, NEW s,
         Len(attempts') = Len(attempts)
  PROVE  InStage(f, s)' = InStage(f, s)
  BY AttemptsStay DEF InStage

SeenBy(f, s) == StageOf(f, s)!Next \/ UNCHANGED <<Phase(f, s), Current(f, s), Spent(f, s), Bought(f, s)>>

\* A claim takes a stage that is free, for a preflight that has not had its try.
LEMMA ClaimSeen ==
  ASSUME IInv, [Next]_vars, NEW f, NEW s, NEW c \in Call,
         at[c] = "claim", Open(mem[c].p), Retriable(mem[c].p), Inserts(Claimed(mem[c].p)),
         UNCHANGED <<preflights, keyframes, flows, paid>>
  PROVE  SeenBy(f, s)
<1> DEFINE p == mem[c].p
           n == Len(attempts) + 1
           x == Claimed(p)
<1>0. /\ Len(attempts) \in Nat /\ n \in Nat /\ n \notin 1 .. Len(attempts)
      /\ 1 .. n = 1 .. Len(attempts) \cup {n}
  BY Lengths DEF IInv
<1>1. /\ Len(attempts') = n /\ attempts'[n] = x /\ p \in 1 .. Len(preflights)
      /\ \A a \in 1 .. Len(attempts) : attempts'[a] = attempts[a]
  BY InsertedClaim DEF IInv
<1>2. /\ x.flow = preflights[p].flow /\ x.stage = preflights[p].stage /\ x.p = p
      /\ x.status = "RUNNING" /\ x.boundary = "NOT_CROSSED" /\ ~x.safe
  BY DEF Claimed
<1>3. n \notin paid /\ paid' = paid /\ p \in Nat \ {0}
  <2>1. paid \subseteq 1 .. Len(attempts)
    BY DEF IInv, TypeInv
  <2>2. Len(preflights) \in Nat
    BY Lengths DEF IInv
  <2> QED
    BY <1>0, <1>1, <2>1, <2>2
<1> HIDE DEF p, n, x
<1>4. InStage(f, s) \subseteq 1 .. Len(attempts)
  BY DEF InStage
<1>5. CASE ~(x.flow = f /\ x.stage = s)
  <2>1. InStage(f, s)' = InStage(f, s)
    BY <1>0, <1>1, <1>5 DEF InStage
  <2> QED
    BY <1>1, <1>3, <1>4, <2>1, StageSame DEF SeenBy
<1>6. CASE x.flow = f /\ x.stage = s
  <2>1. InStage(f, s)' = InStage(f, s) \cup {n}
    BY <1>0, <1>1, <1>6 DEF InStage
  <2>2. \A a \in InStage(f, s) : attempts[a].status \notin InDoubt
    BY <1>2, <1>6 DEF Open, InStage, p
  <2>3. Pending(f, s) = {} /\ Pending(f, s)' = {n}
    <3>1. Pending(f, s) = {}
      BY <2>2 DEF Pending
    <3>2. \A a \in InStage(f, s) : attempts'[a].status \notin InDoubt
      BY <1>1, <1>4, <2>2
    <3>3. attempts'[n].status \in InDoubt
      BY <1>1, <1>2 DEF InDoubt
    <3> QED
      BY <2>1, <3>1, <3>2, <3>3 DEF Pending
  <2>4. InHand(f, s)' = n
    BY <2>3 DEF InHand
  <2>5. Phase(f, s) = "free" /\ Phase(f, s)' = "held" /\ Current(f, s)' = p
    BY <1>1, <1>2, <1>3, <2>3, <2>4 DEF Phase, PhaseOf, Current
  <2>6. Spent(f, s)' = Spent(f, s)
    <3> DEFINE Tried == {a \in InStage(f, s) : attempts[a].status \notin InDoubt /\ ~attempts[a].safe}
    <3>1. attempts'[n].status \in InDoubt
      BY <1>1, <1>2 DEF InDoubt
    <3>2. Tried' = Tried
      BY <1>1, <1>4, <2>1, <3>1
    <3>3. \A a \in Tried : attempts'[a] = attempts[a]
      BY <1>1, <1>4
    <3>4. Spent(f, s) = {attempts[a].p : a \in Tried} /\ Spent(f, s)' = {attempts'[a].p : a \in Tried'}
      BY DEF Spent
    <3> HIDE DEF Tried
    <3> QED
      BY <3>2, <3>3, <3>4
  <2>7. Bought(f, s)' = Bought(f, s)
    <3>1. InStage(f, s)' \cap paid' = InStage(f, s) \cap paid
      BY <1>3, <2>1
    <3>2. \A a \in InStage(f, s) \cap paid : attempts'[a] = attempts[a]
      BY <1>1, <1>4
    <3> QED
      BY <3>1, <3>2 DEF Bought
  <2>8. p \notin Spent(f, s)
    <3>1. SUFFICES ASSUME NEW a \in InStage(f, s), attempts[a].p = p PROVE attempts[a].safe
      BY DEF Spent
    <3>2. a \in 1 .. Len(attempts)
      BY <1>4
    <3>3. CASE \E b \in 1 .. Len(attempts) : a < b /\ attempts[b].p = p
      BY <3>1, <3>2, <3>3 DEF IInv, OrderInv
    <3>4. CASE \A b \in 1 .. Len(attempts) : attempts[b].p = p => b <= a
      BY <3>1, <3>2, <3>4 DEF Retriable, p
    <3> QED
      BY <1>0, <3>2, <3>3, <3>4
  <2> QED
    BY <1>3, <2>5, <2>6, <2>7, <2>8 DEF SeenBy, StageOf!Next, StageOf!Claim
<1> QED
  BY <1>5, <1>6

\* A stage sees what happens to a row of another one as little as what does not happen.
LEMMA ElsewhereSeen ==
  ASSUME IInv, [Next]_vars, NEW f, NEW s, NEW a \in 1 .. Len(attempts),
         ~(attempts[a].flow = f /\ attempts[a].stage = s), Len(attempts') = Len(attempts),
         \A b \in 1 .. Len(attempts) : b # a => attempts'[b] = attempts[b],
         paid' \in {paid, paid \cup {a}}
  PROVE  SeenBy(f, s)
<1>1. InStage(f, s)' = InStage(f, s)
  BY StageGrows DEF IInv
<1>2. a \notin InStage(f, s) /\ InStage(f, s) \subseteq 1 .. Len(attempts)
  BY DEF InStage
<1> QED
  BY <1>1, <1>2, StageSame DEF SeenBy

\* The row that a call has in hand is written: it is marked, or ends.
LEMMA WriteSeen ==
  ASSUME IInv, BoundaryInv, [Next]_vars, NEW f, NEW s, NEW c \in Call,
         mem[c].a \in 1 .. Len(attempts), attempts[mem[c].a].status = "RUNNING",
         \/ at[c] = "mark" /\ Writes(mem[c].a, Marked(attempts[mem[c].a]))
         \/ at[c] = "finish" /\ Writes(mem[c].a, Finished(attempts[mem[c].a], mem[c]))
         \/ at[c] = "fail" /\ Writes(mem[c].a, Failed(attempts[mem[c].a], mem[c])),
         UNCHANGED paid
  PROVE  SeenBy(f, s)
<1>0. PICK a \in 1 .. Len(attempts) : a = mem[c].a
  OBVIOUS
<1> DEFINE m == mem[c]
           x == attempts[a]
<1>1. x \in AttemptRow /\ m \in Memory /\ m.a # 0
  BY <1>0, Elements DEF IInv
<1>2. PICK y \in AttemptRow :
        /\ Writes(a, y) /\ y.p = x.p
        /\ \/ y.status = "RUNNING" /\ y.boundary = "MAY_HAVE_STARTED"
           \/ y.status \in {"SUCCEEDED", "FAILED"} /\ ~y.safe
           \/ y.status = "NEEDS_RECONCILIATION" /\ m.crossed
           \/ y.status = "FAILED" /\ y.safe /\ ~m.crossed /\ m.safe
  <2>1. CASE at[c] = "mark" /\ Writes(a, Marked(x))
    <3>1. Marked(x) \in AttemptRow /\ Marked(x).p = x.p /\ Marked(x).status = x.status
      BY <1>1, RowsWritten
    <3>2. Marked(x).boundary = "MAY_HAVE_STARTED"
      BY <1>1 DEF Marked, AttemptRow
    <3> QED
      BY <1>0, <2>1, <3>1, <3>2
  <2>2. CASE at[c] = "finish" /\ Writes(a, Finished(x, m))
    <3>1. /\ Finished(x, m) \in AttemptRow /\ Finished(x, m).p = x.p
          /\ Finished(x, m).status \in {"SUCCEEDED", "FAILED"} /\ Finished(x, m).safe = x.safe
      BY <1>1, RowsWritten
    <3>2. ~x.safe
      BY <1>0, <1>1 DEF IInv, HoldInv, Holds
    <3> QED
      BY <2>2, <3>1, <3>2
  <2>3. CASE at[c] = "fail" /\ Writes(a, Failed(x, m))
    <3>1. /\ Failed(x, m) \in AttemptRow /\ Failed(x, m).p = x.p
          /\ Failed(x, m).status = IF m.crossed THEN "NEEDS_RECONCILIATION" ELSE "FAILED"
          /\ Failed(x, m).safe = (~m.crossed /\ m.safe)
      BY <1>1, RowsWritten
    <3> QED
      BY <2>3, <3>1
  <2> QED
    BY <1>0, <2>1, <2>2, <2>3
<1>3. Bounded(c) /\ (a \in paid => m.crossed)
  BY <1>0, <1>1 DEF BoundaryInv, IInv, HoldInv, Holds
<1>4. /\ m.crossed => x.boundary = "MAY_HAVE_STARTED"
      /\ m.safe => x.boundary = "NOT_CROSSED"
  BY <1>0, <1>3 DEF Bounded
<1> HIDE DEF m, x
<1>5. x = attempts[a] /\ x.status = "RUNNING"
  BY <1>0 DEF x
<1>6. /\ Len(attempts') = Len(attempts) /\ attempts'[a] = y
      /\ \A b \in 1 .. Len(attempts) : b # a => attempts'[b] = attempts[b]
  BY <1>2, <1>5, Written DEF IInv
<1>7. CASE ~(x.flow = f /\ x.stage = s)
  BY <1>5, <1>6, <1>7, ElsewhereSeen
<1>8. CASE x.flow = f /\ x.stage = s
  <2>1. a \in Pending(f, s)
    BY <1>5, <1>8 DEF Pending, InStage, InDoubt
  <2>2. InStage(f, s)' = InStage(f, s) /\ InStage(f, s) \subseteq 1 .. Len(attempts)
    BY <1>6, StageGrows DEF IInv, InStage
  <2>3. Phase(f, s) = PhaseOf(a) /\ Current(f, s) = x.p
    BY <1>5, <2>1, InHandIs DEF IInv
  <2>4. /\ y.status \in InDoubt => /\ Phase(f, s)' = PhaseOf(a)'
                                   /\ UNCHANGED <<Current(f, s), Spent(f, s)>>
        /\ y.status \notin InDoubt
              => /\ Phase(f, s)' = "free" /\ Current(f, s)' = 0
                 /\ Spent(f, s)' = IF y.safe THEN Spent(f, s) ELSE Spent(f, s) \cup {x.p}
        /\ Bought(f, s)' = IF a \in paid THEN Bought(f, s) \cup {x.p} ELSE Bought(f, s)
    BY <1>2, <1>5, <1>6, <2>1, <2>2, StageWritten DEF IInv
  <2>5. Bought(f, s)' = Bought(f, s)
    <3>1. a \in paid => x.p \in Bought(f, s)
      BY <1>5, <2>1 DEF Bought, Pending
    <3> QED
      BY <2>4, <3>1
  <2>6. PhaseOf(a) = IF a \in paid THEN "paid" ELSE IF x.boundary = "MAY_HAVE_STARTED" THEN "marked" ELSE "held"
    BY <1>5 DEF PhaseOf
  <2>7. PhaseOf(a)' = IF y.status = "NEEDS_RECONCILIATION" THEN "doubt" ELSE IF a \in paid THEN "paid"
                      ELSE IF y.boundary = "MAY_HAVE_STARTED" THEN "marked" ELSE "held"
    BY <1>6 DEF PhaseOf
  <2>8. CASE y.status = "RUNNING" /\ y.boundary = "MAY_HAVE_STARTED"
    <3>1. /\ UNCHANGED <<Current(f, s), Spent(f, s)>>
          /\ Phase(f, s)' = IF a \in paid THEN "paid" ELSE "marked"
      BY <2>4, <2>7, <2>8 DEF InDoubt
    <3> QED
      BY <2>3, <2>5, <2>6, <3>1 DEF SeenBy, StageOf!Next, StageOf!Mark
  <2>9. CASE y.status \in {"SUCCEEDED", "FAILED"} /\ ~y.safe
    <3>1. /\ Phase(f, s)' = "free" /\ Current(f, s)' = 0
          /\ Spent(f, s)' = Spent(f, s) \cup {Current(f, s)}
      BY <2>3, <2>4, <2>9 DEF InDoubt
    <3> QED
      BY <2>3, <2>5, <2>6, <3>1 DEF SeenBy, StageOf!Next, StageOf!Settle
  <2>10. CASE y.status = "NEEDS_RECONCILIATION" /\ m.crossed
    <3>1. UNCHANGED <<Current(f, s), Spent(f, s)>> /\ Phase(f, s)' = "doubt"
      BY <2>4, <2>7, <2>10 DEF InDoubt
    <3>2. Phase(f, s) \in {"marked", "paid"}
      BY <1>4, <2>3, <2>6, <2>10
    <3> QED
      BY <2>5, <3>1, <3>2 DEF SeenBy, StageOf!Next, StageOf!Doubt
  <2>11. CASE y.status = "FAILED" /\ y.safe /\ ~m.crossed /\ m.safe
    <3>1. Phase(f, s)' = "free" /\ Current(f, s)' = 0 /\ Spent(f, s)' = Spent(f, s)
      BY <2>4, <2>11 DEF InDoubt
    <3>2. Phase(f, s) = "held"
      BY <1>3, <1>4, <2>3, <2>6, <2>11
    <3> QED
      BY <2>5, <3>1, <3>2 DEF SeenBy, StageOf!Next, StageOf!Refuse
  <2> QED
    BY <1>2, <2>8, <2>9, <2>10, <2>11
<1> QED
  BY <1>7, <1>8

\* The provider is paid for the row in hand, which says so already.
LEMMA PaymentSeen ==
  ASSUME IInv, BoundaryInv, [Next]_vars, NEW f, NEW s, NEW c \in Call,
         at[c] = "generate", paid' = paid \cup {mem[c].a}, UNCHANGED attempts
  PROVE  SeenBy(f, s)
<1>0. mem[c].a \in 1 .. Len(attempts) /\ Len(attempts) \in Nat
  BY FlowOfHeld, Lengths DEF IInv, Working
<1>1. PICK a \in 1 .. Len(attempts) : a = mem[c].a
  BY <1>0
<1>2. attempts[a].status = "RUNNING" /\ mem[c].crossed
  BY <1>0, <1>1 DEF IInv, HoldInv, Holds, Working
<1>3. attempts[a].boundary = "MAY_HAVE_STARTED"
  BY <1>0, <1>1, <1>2 DEF BoundaryInv, Bounded
<1>4. paid' = paid \cup {a}
  BY <1>1
<1>5. CASE ~(attempts[a].flow = f /\ attempts[a].stage = s)
  BY <1>1, <1>4, <1>5, ElsewhereSeen
<1>6. CASE attempts[a].flow = f /\ attempts[a].stage = s
  <2>1. a \in Pending(f, s)
    BY <1>1, <1>2, <1>6 DEF Pending, InStage, InDoubt
  <2>2. InStage(f, s)' = InStage(f, s)
    BY DEF InStage
  <2>3. Phase(f, s) = PhaseOf(a) /\ Current(f, s) = attempts[a].p
    BY <2>1, InHandIs DEF IInv
  <2>4. /\ Phase(f, s)' = PhaseOf(a)' /\ UNCHANGED <<Current(f, s), Spent(f, s)>>
        /\ Bought(f, s)' = Bought(f, s) \cup {Current(f, s)}
    BY <1>2, <1>4, <2>1, <2>2, <2>3, StageWritten DEF IInv, InDoubt
  <2>5. PhaseOf(a) = (IF a \in paid THEN "paid" ELSE "marked") /\ PhaseOf(a)' = "paid"
    BY <1>2, <1>3, <1>4 DEF PhaseOf
  <2>6. CASE a \in paid
    <3>1. paid' = paid
      BY <1>4, <2>6
    <3> QED
      BY <2>2, <3>1, StageSame DEF SeenBy
  <2>7. CASE a \notin paid
    BY <2>3, <2>4, <2>5, <2>7 DEF SeenBy, StageOf!Next, StageOf!Pay
  <2> QED
    BY <2>6, <2>7
<1> QED
  BY <1>5, <1>6

LEMMA NextSeen ==
  ASSUME IInv, BoundaryInv, [Next]_vars, NEW f, NEW s
  PROVE  SeenBy(f, s)
<1>1. CASE UNCHANGED <<attempts, paid>>
  <2>1. InStage(f, s)' = InStage(f, s)
    BY <1>1 DEF InStage
  <2> QED
    BY <1>1, <2>1, StageSame DEF SeenBy
<1>2. CASE Other \/ UNCHANGED vars
  BY <1>1, <1>2, OtherHolds, OtherAttempts
<1>3. ASSUME NEW c \in Call, Step(c) PROVE SeenBy(f, s)
  <2>1. CASE UNCHANGED attempts
    BY <1>1, <1>3, <2>1, StepPays, PaymentSeen
  <2>2. CASE /\ at[c] = "claim" /\ Open(mem[c].p) /\ Retriable(mem[c].p) /\ Inserts(Claimed(mem[c].p))
             /\ UNCHANGED <<preflights, keyframes, flows, paid>>
    BY <2>2, ClaimSeen
  <2>3. CASE /\ mem[c].a \in 1 .. Len(attempts) /\ attempts[mem[c].a].status = "RUNNING"
             /\ \/ at[c] = "mark" /\ Writes(mem[c].a, Marked(attempts[mem[c].a]))
                \/ at[c] = "finish" /\ Writes(mem[c].a, Finished(attempts[mem[c].a], mem[c]))
                \/ at[c] = "fail" /\ Writes(mem[c].a, Failed(attempts[mem[c].a], mem[c]))
             /\ UNCHANGED paid
    BY <2>3, WriteSeen
  <2> QED
    BY <1>3, <2>1, <2>2, <2>3, StepAttempt DEF IInv
<1> QED
  BY <1>2, <1>3, NextSteps

(***************************************************************************)
(* Each stage of every workflow implements its promise: however calls      *)
(* race for the lock, fail or die, the rows of claimLockedStage(),         *)
(* markLockedStageBoundary() and finishLockedStage() move as a PaidStage   *)
(* does, and the provider is paid only in its Pay.                         *)
(***************************************************************************)
THEOREM StagesArePaidStages ==
  ASSUME NEW f \in Nat, NEW s \in Stage
  PROVE  Spec => StageOf(f, s)!Spec
<1>1. Init => StageOf(f, s)!Init
  <2> SUFFICES ASSUME Init PROVE StageOf(f, s)!Init
    OBVIOUS
  <2>1. InStage(f, s) = {}
    BY DEF Init, InStage
  <2> QED
    BY <2>1 DEF StageOf!Init, Phase, Current, Spent, Bought, Pending
<1>2. IInv /\ BoundaryInv /\ [Next]_vars => [StageOf(f, s)!Next]_(StageOf(f, s)!vars)
  BY NextSeen DEF SeenBy, StageOf!vars
<1>3. IInv /\ BoundaryInv /\ [Next]_vars => BoundaryInv'
  BY BoundaryStep DEF IInv
<1> QED
  BY <1>1, <1>2, <1>3, InitBoundary, Inductive, PTL DEF Spec, StageOf!Spec

(***************************************************************************)
(* What the promise comes to: in every stage of every workflow nothing is  *)
(* bought twice, what was bought has had its try or is in hand, and a      *)
(* stage in doubt stays as it is.                                          *)
(***************************************************************************)
THEOREM StagePromise ==
  ASSUME NEW f \in Nat, NEW s \in Stage
  PROVE  Spec => []StageOf(f, s)!BoughtIsSpent /\ StageOf(f, s)!DoubtIsFinal
<1> USE DEF StageOf!TypeOK, StageOf!BoughtIsSpent
<1>1. StageOf(f, s)!Init => StageOf(f, s)!TypeOK /\ StageOf(f, s)!BoughtIsSpent
  BY DEF StageOf!Init
<1>2. StageOf(f, s)!TypeOK /\ StageOf(f, s)!BoughtIsSpent /\ [StageOf(f, s)!Next]_(StageOf(f, s)!vars)
        => StageOf(f, s)!TypeOK' /\ StageOf(f, s)!BoughtIsSpent'
  BY DEF StageOf!Next, StageOf!vars, StageOf!Claim, StageOf!Mark, StageOf!Pay, StageOf!Settle,
         StageOf!Refuse, StageOf!Doubt
<1>3. [StageOf(f, s)!Next]_(StageOf(f, s)!vars) => [Phase(f, s) # "doubt"]_(StageOf(f, s)!vars)
  BY DEF StageOf!Next, StageOf!vars, StageOf!Claim, StageOf!Mark, StageOf!Pay, StageOf!Settle,
         StageOf!Refuse, StageOf!Doubt
<1> QED
  BY <1>1, <1>2, <1>3, StagesArePaidStages, PTL DEF StageOf!Spec, StageOf!DoubtIsFinal
=============================================================================
