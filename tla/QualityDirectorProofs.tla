------------------------ MODULE QualityDirectorProofs ------------------------
(***************************************************************************)
(* Theorems about QualityDirector, for any number of sessions, texts,      *)
(* storyboards, revisions, workflows, keyframes and pilots.                *)
(*                                                                         *)
(* The operations write in several statements, each of its own, and what   *)
(* one has left half done another may read.  The invariant says, for every *)
(* rule that an approval or a bound keyframe can break, which session      *)
(* still has to take the step that restores it; when nobody has, the       *)
(* operation was disturbed.  A start is claimed behind the gate only, so   *)
(* that at the claim every rule holds or has somebody who is about to      *)
(* restore it.                                                             *)
(***************************************************************************)
EXTENDS QualityDirector, TLAPS

Decision == {"NONE", "APPROVED", "REJECTED", "INVALIDATED"}
Label == {"ready", "edit", "invalidate", "voice", "boardBind", "boardRecord", "still", "look",
          "lookBind", "lookRecord", "film", "filming", "filmed", "pilotRecord", "pilotAccept",
          "rejectFlow", "preflight", "start", "claim", "create", "finish", "fail", "continue"}
Boundary == {"NOT_CROSSED", "CANONICAL_CREATED", "MAY_HAVE_STARTED"}
Anything == Text \cup Storyboard \cup Nat \cup {None} \cup Boundary

(***************************************************************************)
(* The keyframes and the pilots: each is of a workflow, or of a keyframe,  *)
(* that is stored, and only a keyframe that was approved gets a pilot.     *)
(***************************************************************************)
Frame == [flow : Nat, approved : BOOLEAN]
Attempt == [keyframe : Nat, status : {"RUNNING", "SUCCEEDED", "FAILED"}]
Passed == {k \in 1 .. Len(frames) : frames[k].approved}

StageInv ==
  /\ flows \in Seq(Locked) /\ frames \in Seq(Frame) /\ pilots \in Seq(Attempt)
  /\ Len(frames) <= MaxKeyframes /\ Len(pilots) <= MaxPilots
  /\ \A k \in 1 .. Len(frames) : frames[k].flow \in 1 .. Len(flows)
  /\ \A i \in 1 .. Len(pilots) : pilots[i].keyframe \in Passed

(***************************************************************************)
(* The types: what each session holds in memory where it stands, and that  *)
(* what was approved is one of the things stored.                          *)
(***************************************************************************)
Kept == [board |-> ToSet(boards), flow |-> 1 .. Len(flows), passed |-> Passed,
         pilot |-> 1 .. Len(pilots)]

HoldsBrief == {"voice", "boardBind", "look", "lookBind", "preflight", "claim"}
HoldsKeyframe == {"lookBind", "lookRecord", "film"}
HoldsPilot == {"filming", "filmed", "pilotRecord", "pilotAccept", "rejectFlow"}

Memory == [brief : Brief \cup {None}, rev : Anything, from : 0 .. 5]

Holds(l, m, kept) ==
  /\ l \in HoldsBrief => m.brief \in Brief
  /\ l = "invalidate" => m.from \in 1 .. 5
  /\ l \in {"boardBind", "boardRecord"} => m.rev \in kept.board
  /\ l = "still" => m.rev \in kept.flow
  /\ l \in HoldsKeyframe => m.rev \in kept.passed
  /\ l \in HoldsPilot => m.rev \in kept.pilot
  /\ l = "fail" => m.rev \in Boundary

EventInv ==
  /\ events \in [Stage -> [decision : Decision, subject : Anything]]
  /\ granted \in [Stage -> SUBSET Anything]
  /\ events["SCRIPT"].decision = "APPROVED" => events["SCRIPT"].subject \in ToSet(scripts)
  /\ events["STORYBOARD"].decision = "APPROVED" => events["STORYBOARD"].subject \in ToSet(boards)
  /\ events["PILOT"].decision = "APPROVED" => events["PILOT"].subject \in 1 .. Len(pilots)

LocalInv ==
  /\ at \in [Session -> Label] /\ mem \in [Session -> Memory]
  /\ \A s \in Session : Holds(at[s], mem[s], Kept)

TypeInv ==
  /\ TypeOK
  /\ scripts \in Seq(Text) /\ boards \in Seq(Storyboard)
  /\ EventInv /\ StageInv
  /\ LocalInv

(***************************************************************************)
(* One session at most is behind a claim, and what it has done so far is   *)
(* what the counter and the draft say; the one whose finishStartSuccess()  *)
(* was answered by an error may have a draft before it that is started.    *)
(***************************************************************************)
Starting(s) == at[s] \in {"create", "finish", "fail"}
Uncertain(s) == at[s] = "fail" /\ mem[s].rev = "MAY_HAVE_STARTED"

StartInv ==
  /\ scheduled \in Nat
  /\ \A s \in Session :
       /\ Starting(s) => start = "RUNNING" \/ (start = "SUCCEEDED" /\ Uncertain(s))
       /\ at[s] = "create" => scheduled = 0
       /\ at[s] = "finish" => scheduled = 1
       /\ at[s] = "fail" => scheduled = IF Uncertain(s) THEN 1 ELSE 0
  /\ \A s, t \in Session : Starting(s) /\ Starting(t) => s = t

(***************************************************************************)
(* Until an operation is disturbed, what it has left incoherent is waiting *)
(* for a step that it still has to take.                                   *)
(***************************************************************************)
\* Script, storyboard and brief: who binds a storyboard will record it, who changed the
\* script or the storyboard withdraws the approval of the storyboard.
Binding == \E s \in Session : \/ at[s] = "boardRecord"
                              \/ at[s] = "invalidate" /\ mem[s].from <= 2

BoardInv ==
  Approved("SCRIPT") /\ Approved("STORYBOARD") =>
    \/ disturbed \/ Binding
    \/ /\ events["STORYBOARD"].subject.script = events["SCRIPT"].subject
       /\ events["STORYBOARD"].subject.board = brief.board

\* A new brief takes the preflight of the old one away.
CertifiedInv == disturbed \/ preflight \in {None, brief}

\* Look and pilot: who approved a keyframe will record it, and withdraws the pilot.
Looking(k) == \E s \in Session : at[s] \in {"lookBind", "lookRecord"} /\ mem[s].rev = k
Withdrawing == \E s \in Session : at[s] = "invalidate" /\ mem[s].from <= 4

LookInv == \A k \in Passed : k \in granted["LOOK"] \/ disturbed \/ Looking(k)

PilotInv ==
  Approved("LOOK") /\ Approved("PILOT") =>
    Shown = events["LOOK"].subject \/ strayed \/ disturbed \/ Withdrawing

\* A start that has passed its gate and has not claimed.
GatedInv == Gated => Gate(4) \/ overtaken

----------------------------------------------------------------------------
LEMMA Bounds == {MaxRevisions, MaxKeyframes, MaxFlows, MaxPilots} \subseteq Nat /\ None \notin Brief
  BY BoundsAssumption, NoneAssumption

LEMMA Stages ==
  /\ Stage = {"SCRIPT", "STORYBOARD", "LOOK", "PILOT"}
  /\ STAGE_ORDER[1] = "SCRIPT" /\ STAGE_ORDER[2] = "STORYBOARD"
  /\ STAGE_ORDER[3] = "LOOK" /\ STAGE_ORDER[4] = "PILOT" /\ Len(STAGE_ORDER) = 4
<1>1. /\ STAGE_ORDER[1] = "SCRIPT" /\ STAGE_ORDER[2] = "STORYBOARD"
      /\ STAGE_ORDER[3] = "LOOK" /\ STAGE_ORDER[4] = "PILOT" /\ Len(STAGE_ORDER) = 4
      /\ DOMAIN STAGE_ORDER = 1 .. 4
  BY DEF STAGE_ORDER
<1>2. Stage = {STAGE_ORDER[i] : i \in 1 .. 4}
  BY <1>1 DEF Stage, ToSet
<1> QED
  BY <1>1, <1>2

LEMMA Gates ==
  /\ Gate(1) <=> Approved("SCRIPT")
  /\ Gate(2) <=> Approved("SCRIPT") /\ Approved("STORYBOARD")
  /\ Gate(3) <=> Approved("SCRIPT") /\ Approved("STORYBOARD") /\ Approved("LOOK")
  /\ Gate(4) <=> Approved("SCRIPT") /\ Approved("STORYBOARD") /\ Approved("LOOK") /\ Approved("PILOT")
<1>1. /\ 1 .. 1 = {1} /\ 1 .. 2 = {1, 2} /\ 1 .. 3 = {1, 2, 3} /\ 1 .. 4 = {1, 2, 3, 4}
  OBVIOUS
<1> QED
  BY <1>1, Stages DEF Gate

\* A sequence with one more element, and with another one.
LEMMA Extended ==
  ASSUME NEW S, NEW q \in Seq(S), NEW x \in S
  PROVE  /\ Append(q, x) \in Seq(S) /\ Len(Append(q, x)) = Len(q) + 1 /\ Len(q) \in Nat
         /\ \A i \in 1 .. Len(q) : Append(q, x)[i] = q[i]
         /\ Append(q, x)[Len(q) + 1] = x
OBVIOUS

LEMMA Replaced ==
  ASSUME NEW S, NEW q \in Seq(S), NEW n \in 1 .. Len(q), NEW x \in S
  PROVE  /\ [q EXCEPT ![n] = x] \in Seq(S) /\ Len([q EXCEPT ![n] = x]) = Len(q)
         /\ [q EXCEPT ![n] = x][n] = x
         /\ \A i \in 1 .. Len(q) : i # n => [q EXCEPT ![n] = x][i] = q[i]
<1> DEFINE r == [q EXCEPT ![n] = x]
<1>1. /\ Len(q) \in Nat /\ DOMAIN q = 1 .. Len(q) /\ \A i \in 1 .. Len(q) : q[i] \in S
      /\ q = [i \in 1 .. Len(q) |-> q[i]]
  OBVIOUS
<1>2. /\ r = [i \in 1 .. Len(q) |-> IF i = n THEN x ELSE q[i]]
      /\ r[n] = x /\ \A i \in 1 .. Len(q) : i # n => r[i] = q[i]
  BY <1>1
<1>3. \A i \in 1 .. Len(q) : r[i] \in S
  BY <1>1, <1>2
<1>4. r \in [1 .. Len(q) -> S]
  BY <1>2, <1>3
<1>5. r \in Seq(S) /\ Len(r) = Len(q)
  BY <1>1, <1>4
<1> QED
  BY <1>2, <1>5

LEMMA Appended ==
  ASSUME NEW S, NEW q \in Seq(S), NEW x \in S, x \notin ToSet(q), IsInjective(q), ToSet(q) \subseteq S
  PROVE  /\ Append(q, x) \in Seq(S) /\ IsInjective(Append(q, x))
         /\ ToSet(Append(q, x)) = ToSet(q) \cup {x} /\ Last(Append(q, x)) = x
<1> DEFINE a == Append(q, x)
<1>1. /\ a \in Seq(S) /\ Len(a) = Len(q) + 1 /\ DOMAIN a = 1 .. Len(q) + 1
      /\ DOMAIN q = 1 .. Len(q) /\ Len(q) \in Nat
      /\ \A i \in 1 .. Len(q) : a[i] = q[i]
      /\ a[Len(q) + 1] = x
  OBVIOUS
<1> HIDE DEF a
<1>2. \A i \in 1 .. Len(q) : q[i] # x
  BY <1>1 DEF ToSet
<1>3. IsInjective(a)
  BY <1>1, <1>2 DEF IsInjective
<1>4. ToSet(a) = ToSet(q) \cup {x}
  BY <1>1 DEF ToSet
<1>5. Last(a) = x
  BY <1>1 DEF Last
<1> QED
  BY <1>1, <1>3, <1>4, <1>5 DEF a

LEMMA InitInv ==
  ASSUME Init
  PROVE  /\ TypeInv /\ StartInv /\ BoardInv /\ CertifiedInv /\ LookInv
         /\ PilotInv /\ GatedInv /\ ScheduledOnce
<1>1. /\ \A st \in Stage : events[st] = NoEvent /\ granted[st] = {}
      /\ {"SCRIPT", "STORYBOARD", "LOOK", "PILOT"} \subseteq Stage
  BY Stages DEF Init
<1>2. /\ \A st \in Stage : ~Approved(st)
      /\ \A s \in Session : at[s] = "ready" /\ mem[s] = Idle
  BY <1>1 DEF Approved, NoEvent, Init
<1>3. EventInv
  BY <1>1 DEF EventInv, NoEvent, Init, Decision, Anything
<1>4. StageInv /\ ToSet(flows) \subseteq Locked /\ Passed = {}
  BY Bounds DEF StageInv, Init, ToSet, Passed
<1>5. LocalInv
  BY <1>2 DEF Init, Label, Memory, Idle, Anything, LocalInv, Holds, HoldsBrief, HoldsKeyframe, HoldsPilot
<1>6. /\ scripts \in Seq(Text) /\ boards \in Seq(Storyboard)
      /\ IsInjective(scripts) /\ IsInjective(boards) /\ ToSet(scripts) = {} /\ ToSet(boards) = {}
  BY DEF Init, IsInjective, ToSet
<1>7. TypeInv
  BY <1>1, <1>3, <1>4, <1>5, <1>6, Bounds DEF TypeInv, TypeOK, Init, StageInv, Passed
<1>8. StartInv /\ ScheduledOnce
  BY <1>2 DEF StartInv, ScheduledOnce, Starting, Init
<1>9. BoardInv /\ CertifiedInv /\ LookInv /\ PilotInv /\ GatedInv
  BY <1>1, <1>2, <1>4 DEF BoardInv, CertifiedInv, LookInv, PilotInv, GatedInv, Gated, Init
<1> QED
  BY <1>7, <1>8, <1>9

----------------------------------------------------------------------------
\* What the steps do to the revisions, to the keyframes and to the sessions.
LEMMA TypeFacts ==
  ASSUME TypeInv
  PROVE  /\ brief \in Brief /\ preflight \in Brief \cup {None}
         /\ status \in {"DRAFT", "PREFLIGHT_READY", "STARTED"}
         /\ start \in {"IDLE", "RUNNING", "FAILED_RETRYABLE", "NEEDS_RECONCILIATION", "SUCCEEDED"}
         /\ (status # "DRAFT") = (preflight # None)
         /\ (status = "STARTED") = (start = "SUCCEEDED")
         /\ scripts \in Seq(Text) /\ IsInjective(scripts) /\ ToSet(scripts) \subseteq Text
         /\ boards \in Seq(Storyboard) /\ IsInjective(boards) /\ ToSet(boards) \subseteq Storyboard
BY DEF TypeInv, TypeOK

\* What a session holds.
LEMMA Held ==
  ASSUME TypeInv, NEW s \in Session
  PROVE  /\ at[s] \in Label /\ mem[s] \in Memory
         /\ at[s] \in HoldsBrief => mem[s].brief \in Brief
         /\ at[s] = "invalidate" => mem[s].from \in 1 .. 5
         /\ at[s] \in {"boardBind", "boardRecord"} => mem[s].rev \in ToSet(boards)
         /\ at[s] = "still" => mem[s].rev \in 1 .. Len(flows)
         /\ at[s] \in HoldsKeyframe => mem[s].rev \in Passed
         /\ at[s] \in HoldsPilot => mem[s].rev \in 1 .. Len(pilots)
         /\ at[s] = "fail" => mem[s].rev \in Boundary
BY DEF TypeInv, LocalInv, Holds, Kept

\* The workflow of a keyframe, and the one of a pilot.
LEMMA FlowOf ==
  ASSUME TypeInv
  PROVE  /\ Len(flows) \in Nat /\ Len(frames) \in Nat /\ Len(pilots) \in Nat
         /\ \A k \in Passed : k \in 1 .. Len(frames) /\ k \in 1 .. MaxKeyframes /\ k \in Nat
         /\ \A k \in 1 .. Len(frames) : frames[k].flow \in 1 .. Len(flows) /\ frames[k] \in Frame
         /\ \A i \in 1 .. Len(pilots) : /\ pilots[i].keyframe \in Passed /\ pilots[i] \in Attempt
                                       /\ i \in 1 .. MaxPilots /\ i \in Nat
                                       /\ frames[pilots[i].keyframe].flow \in 1 .. Len(flows)
<1>1. StageInv /\ Len(flows) \in Nat /\ Len(frames) \in Nat /\ Len(pilots) \in Nat
      /\ MaxKeyframes \in Nat /\ MaxPilots \in Nat
  BY Bounds DEF TypeInv, StageInv
<1>2. \A k \in Passed : k \in 1 .. Len(frames) /\ k \in 1 .. MaxKeyframes /\ k \in Nat
  BY <1>1 DEF StageInv, Passed
<1>3. \A k \in 1 .. Len(frames) : frames[k].flow \in 1 .. Len(flows) /\ frames[k] \in Frame
  BY <1>1 DEF StageInv
<1>4. \A i \in 1 .. Len(pilots) : /\ pilots[i].keyframe \in Passed /\ pilots[i] \in Attempt
                                 /\ i \in 1 .. MaxPilots /\ i \in Nat
  BY <1>1 DEF StageInv
<1> QED
  BY <1>1, <1>2, <1>3, <1>4

LEMMA Drafted ==
  ASSUME TypeInv, Approved("SCRIPT"), NEW b \in Board
  PROVE  [board |-> b, script |-> events["SCRIPT"].subject] \in Storyboard
<1>1. events["SCRIPT"].subject \in ToSet(scripts)
  BY DEF TypeInv, EventInv, Approved
<1> QED
  BY <1>1, TypeFacts DEF Storyboard

LEMMA RevisionsStep ==
  ASSUME TypeInv, [Next]_vars
  PROVE  /\ scripts' \in Seq(Text) /\ IsInjective(scripts') /\ ToSet(scripts') \subseteq Text
         /\ boards' \in Seq(Storyboard) /\ IsInjective(boards') /\ ToSet(boards') \subseteq Storyboard
         /\ ToSet(scripts) \subseteq ToSet(scripts') /\ ToSet(boards) \subseteq ToSet(boards')
<1>0. CASE UNCHANGED <<scripts, boards>>
  BY <1>0, TypeFacts
<1>1. CASE \E s \in Session : SaveScript(s)
  <2>1. boards' = boards
    BY <1>1 DEF SaveScript
  <2>2. scripts' = scripts \/ \E t \in Text : t \notin ToSet(scripts) /\ scripts' = Append(scripts, t)
    BY <1>1 DEF SaveScript
  <2>3. CASE scripts' = scripts
    BY <2>1, <2>3, TypeFacts
  <2>4. ASSUME NEW t \in Text, t \notin ToSet(scripts), scripts' = Append(scripts, t)
        PROVE  /\ scripts' \in Seq(Text) /\ IsInjective(scripts')
               /\ ToSet(scripts') = ToSet(scripts) \cup {t}
    BY <2>4, TypeFacts, Appended
  <2> QED
    BY <2>1, <2>2, <2>3, <2>4, TypeFacts
<1>2. CASE \E s \in Session : SaveStoryboard(s)
  <2>1. scripts' = scripts
    BY <1>2 DEF SaveStoryboard
  <2>2. Approved("SCRIPT")
    BY <1>2, Gates DEF SaveStoryboard
  <2>3. \/ boards' = boards
        \/ \E b \in Storyboard : b \notin ToSet(boards) /\ boards' = Append(boards, b)
    BY <1>2, <2>2, Drafted DEF SaveStoryboard
  <2>4. CASE boards' = boards
    BY <2>1, <2>4, TypeFacts
  <2>5. ASSUME NEW b \in Storyboard, b \notin ToSet(boards), boards' = Append(boards, b)
        PROVE  /\ boards' \in Seq(Storyboard) /\ IsInjective(boards')
               /\ ToSet(boards') = ToSet(boards) \cup {b}
    BY <2>5, TypeFacts, Appended
  <2> QED
    BY <2>1, <2>3, <2>4, <2>5, TypeFacts
<1> QED
  <2>1. CASE Next
    <3>1. ASSUME NEW s \in Session,
                 \/ StillCheck(s) \/ StillStore(s)
                 \/ FilmCheck(s) \/ FilmClaim(s) \/ FilmFinish(s) \/ FilmRecord(s)
          PROVE  UNCHANGED <<scripts, boards>>
      BY <3>1 DEF StillCheck, StillStore, FilmCheck, FilmClaim, FilmFinish, FilmRecord, revisions
    <3>2. ASSUME NEW s \in Session,
                 \/ EditRead(s) \/ Edit(s) \/ Invalidate(s) \/ Reset(s)
                 \/ PreviewVoice(s) \/ UploadVoice(s) \/ VoiceRead(s) \/ VoiceApprove(s)
                 \/ ApproveScript(s) \/ BoardRead(s) \/ BoardBind(s) \/ BoardRecord(s)
          PROVE  UNCHANGED <<scripts, boards>>
      BY <3>2 DEF EditRead, Edit, Invalidate, Reset, PreviewVoice, UploadVoice, VoiceRead, VoiceApprove,
                  ApproveScript, BoardRead, BoardBind, BoardRecord, revisions
    <3>3. ASSUME NEW s \in Session,
                 \/ LookRead(s) \/ LookApprove(s) \/ LookBind(s) \/ LookRecord(s)
                 \/ PilotRead(s) \/ PilotRecord(s) \/ RejectPilot(s) \/ PilotSettle(s)
          PROVE  UNCHANGED <<scripts, boards>>
      BY <3>3 DEF LookRead, LookApprove, LookBind, LookRecord, PilotRead, PilotRecord, RejectPilot,
                  PilotSettle, revisions
    <3>4. ASSUME NEW s \in Session,
                 \/ PreflightRead(s) \/ Reselect(s) \/ PreflightBlocked(s) \/ PreflightSave(s)
                 \/ StartGate(s) \/ StartRead(s) \/ Claim(s) \/ Create(s)
                 \/ FinishSuccess(s) \/ FinishFailure(s) \/ Continue(s) \/ Crash(s)
          PROVE  UNCHANGED <<scripts, boards>>
      BY <3>4 DEF PreflightRead, Reselect, PreflightBlocked, PreflightSave, StartGate, StartRead, Claim,
                  Create, FinishSuccess, FinishFailure, Continue, Crash, revisions
    <3> QED
      BY <1>0, <1>1, <1>2, <2>1, <3>1, <3>2, <3>3, <3>4 DEF Next, Step
  <2> QED
    BY <1>0, <2>1 DEF vars, revisions

\* What happens to the workflows, the keyframes and the pilots.
LEMMA StageSteps ==
  ASSUME TypeInv, [Next]_vars
  PROVE  \/ UNCHANGED stages
         \/ \E f \in 1 .. Len(flows), l \in Locked :
              flows' = [flows EXCEPT ![f] = l] /\ UNCHANGED <<frames, pilots>>
         \/ \E s \in Session :
              StillCheck(s) \/ StillStore(s) \/ LookApprove(s) \/ FilmClaim(s) \/ FilmFinish(s)
<1> DEFINE Marks == \E f \in 1 .. Len(flows), l \in Locked :
                      flows' = [flows EXCEPT ![f] = l] /\ UNCHANGED <<frames, pilots>>
<1>1. ASSUME NEW s \in Session, PilotSettle(s)
      PROVE  UNCHANGED stages \/ Marks
  <2> DEFINE f == frames[pilots[mem[s].rev].keyframe].flow
  <2>1. at[s] \in {"pilotAccept", "rejectFlow"} /\ UNCHANGED <<frames, pilots>>
        /\ \/ flows' = flows
           \/ \E l \in {"FIRST_VIDEO_ACCEPTED", "FIRST_VIDEO_REJECTED"} : flows' = [flows EXCEPT ![f] = l]
    BY <1>1 DEF PilotSettle
  <2>2. f \in 1 .. Len(flows)
    BY <2>1, Held, FlowOf DEF HoldsPilot
  <2> HIDE DEF f
  <2> QED
    BY <2>1, <2>2 DEF Locked, stages
<1>2. ASSUME NEW s \in Session, FilmRecord(s)
      PROVE  UNCHANGED stages \/ Marks
  <2> DEFINE f == frames[pilots[mem[s].rev].keyframe].flow
  <2>1. at[s] = "filmed" /\ UNCHANGED <<frames, pilots>>
        /\ \/ flows' = flows
           \/ \E l \in {"FIRST_VIDEO_REVIEW", "FIRST_VIDEO_FAILED"} : flows' = [flows EXCEPT ![f] = l]
    BY <1>2 DEF FilmRecord
  <2>2. f \in 1 .. Len(flows)
    BY <2>1, Held, FlowOf DEF HoldsPilot
  <2> HIDE DEF f
  <2> QED
    BY <2>1, <2>2 DEF Locked, stages
<1>3. ASSUME NEW s \in Session, Continue(s)
      PROVE  UNCHANGED stages \/ Marks
  BY <1>3 DEF Continue, Locked, stages
<1>4. ASSUME NEW s \in Session,
             \/ EditRead(s) \/ Edit(s) \/ Invalidate(s) \/ Reset(s)
             \/ PreviewVoice(s) \/ UploadVoice(s) \/ VoiceRead(s) \/ VoiceApprove(s)
             \/ SaveScript(s) \/ ApproveScript(s) \/ SaveStoryboard(s)
             \/ BoardRead(s) \/ BoardBind(s) \/ BoardRecord(s)
      PROVE  UNCHANGED stages
  BY <1>4 DEF EditRead, Edit, Invalidate, Reset, PreviewVoice, UploadVoice, VoiceRead, VoiceApprove,
              SaveScript, ApproveScript, SaveStoryboard, BoardRead, BoardBind, BoardRecord
<1>5. ASSUME NEW s \in Session,
             \/ FilmCheck(s) \/ LookRead(s) \/ LookBind(s) \/ LookRecord(s)
             \/ PilotRead(s) \/ PilotRecord(s) \/ RejectPilot(s)
             \/ PreflightRead(s) \/ Reselect(s) \/ PreflightBlocked(s) \/ PreflightSave(s)
             \/ StartGate(s) \/ StartRead(s) \/ Claim(s) \/ Create(s)
             \/ FinishSuccess(s) \/ FinishFailure(s) \/ Crash(s)
      PROVE  UNCHANGED stages
  BY <1>5 DEF FilmCheck, LookRead, LookBind, LookRecord, PilotRead, PilotRecord, RejectPilot, PreflightRead,
              Reselect, PreflightBlocked, PreflightSave, StartGate, StartRead, Claim, Create, FinishSuccess,
              FinishFailure, Crash
<1>6. CASE UNCHANGED vars
  BY <1>6 DEF vars
<1> HIDE DEF Marks
<1>7. \/ UNCHANGED stages \/ Marks
      \/ \E s \in Session :
           StillCheck(s) \/ StillStore(s) \/ LookApprove(s) \/ FilmClaim(s) \/ FilmFinish(s)
  <2>1. CASE Next
    BY <1>1, <1>2, <1>3, <1>4, <1>5, <2>1 DEF Next, Step
  <2> QED
    BY <1>6, <2>1 DEF vars
<1> QED
  BY <1>7 DEF Marks

\* What was stored stays, and of a pilot its keyframe.
Grown ==
  /\ Len(flows') \in Nat /\ Len(flows) <= Len(flows')
  /\ Len(pilots') \in Nat /\ Len(pilots) <= Len(pilots')
  /\ Passed \subseteq Passed' /\ (Passed' = Passed \/ \E s \in Session : LookApprove(s))
  /\ \A i \in 1 .. Len(pilots) : pilots'[i].keyframe = pilots[i].keyframe

LEMMA NextStages ==
  ASSUME TypeInv, [Next]_vars
  PROVE  StageInv' /\ Grown
<1>a. /\ StageInv
      /\ Len(flows) \in Nat /\ Len(frames) \in Nat /\ Len(pilots) \in Nat
      /\ MaxKeyframes \in Nat /\ MaxPilots \in Nat
  BY Bounds, FlowOf DEF TypeInv
<1>b. UNCHANGED frames => Passed' = Passed
  BY DEF Passed
<1>0. CASE UNCHANGED stages
  BY <1>0, <1>a, <1>b DEF StageInv, Grown, stages
<1>c. ASSUME NEW q \in Seq(Locked), flows' = q, Len(flows) <= Len(q), UNCHANGED <<frames, pilots>>
      PROVE  StageInv' /\ Grown
  <2>1. Len(q) \in Nat
    BY <1>c
  <2>2. \A k \in 1 .. Len(frames) : frames[k].flow \in 1 .. Len(q)
    BY <1>a, <1>c, <2>1 DEF StageInv
  <2> QED
    BY <1>a, <1>b, <1>c, <2>1, <2>2 DEF StageInv, Grown
<1>1. ASSUME NEW f \in 1 .. Len(flows), NEW l \in Locked,
             flows' = [flows EXCEPT ![f] = l], UNCHANGED <<frames, pilots>>
      PROVE  StageInv' /\ Grown
  <2>1. /\ [flows EXCEPT ![f] = l] \in Seq(Locked)
        /\ Len([flows EXCEPT ![f] = l]) = Len(flows)
    BY <1>a, Replaced DEF StageInv
  <2>2. Len(flows) <= Len([flows EXCEPT ![f] = l])
    BY <1>a, <2>1
  <2> QED
    BY <1>1, <1>c, <2>1, <2>2
<1>2. ASSUME NEW s \in Session, StillCheck(s)
      PROVE  StageInv' /\ Grown
  <2>1. UNCHANGED <<frames, pilots>> /\ (flows' = flows \/ flows' = Append(flows, "PREPARED"))
    BY <1>2 DEF StillCheck
  <2>2. flows \in Seq(Locked) /\ "PREPARED" \in Locked
    BY <1>a DEF StageInv, Locked
  <2>3. /\ Append(flows, "PREPARED") \in Seq(Locked)
        /\ Len(flows) <= Len(Append(flows, "PREPARED"))
    BY <1>a, <2>2, Extended
  <2> QED
    BY <1>a, <1>c, <2>1, <2>2, <2>3
<1>3. ASSUME NEW s \in Session, StillStore(s)
      PROVE  StageInv' /\ Grown
  <2> DEFINE f == mem[s].rev
             new == [flow |-> f, approved |-> FALSE]
  <2>1. CASE UNCHANGED <<frames, flows>>
    BY <1>3, <1>0, <2>1 DEF StillStore, stages
  <2>2. CASE /\ Len(frames) < MaxKeyframes /\ frames' = Append(frames, new)
             /\ flows' = [flows EXCEPT ![f] = "AWAITING_HUMAN_APPROVAL"]
    <3>1. f \in 1 .. Len(flows) /\ f \in Nat
      BY <1>3, <1>a, Held DEF StillStore
    <3>2. new \in Frame /\ new.flow = f /\ ~new.approved
      BY <3>1 DEF Frame
    <3> HIDE DEF f, new
    <3>3. flows \in Seq(Locked) /\ "AWAITING_HUMAN_APPROVAL" \in Locked /\ frames \in Seq(Frame)
      BY <1>a DEF StageInv, Locked
    <3>4. flows' \in Seq(Locked) /\ Len(flows') = Len(flows)
      BY <2>2, <3>1, <3>3, Replaced
    <3>5. /\ frames' \in Seq(Frame) /\ Len(frames') = Len(frames) + 1
          /\ \A k \in 1 .. Len(frames) : frames'[k] = frames[k]
          /\ frames'[Len(frames) + 1] = new
      BY <2>2, <3>2, <3>3, Extended
    <3>6. \A k \in 1 .. Len(frames') : k \in 1 .. Len(frames) \/ k = Len(frames) + 1
      BY <1>a, <3>5
    <3>7. \A k \in 1 .. Len(frames) : k \in 1 .. Len(frames')
      BY <1>a, <3>5
    <3>8. Passed' = Passed
      BY <3>2, <3>5, <3>6, <3>7 DEF Passed
    <3>9. \A k \in 1 .. Len(frames') : frames'[k].flow \in 1 .. Len(flows')
      BY <1>a, <3>1, <3>2, <3>4, <3>5, <3>6 DEF StageInv
    <3>10. pilots' = pilots
      BY <1>3 DEF StillStore
    <3> QED
      BY <1>a, <2>2, <3>4, <3>5, <3>8, <3>9, <3>10 DEF StageInv, Grown
  <2> QED
    BY <1>3, <2>1, <2>2 DEF StillStore
<1>4. ASSUME NEW s \in Session, LookApprove(s)
      PROVE  StageInv' /\ Grown
  <2>1. CASE UNCHANGED <<flows, frames>>
    BY <1>4, <1>0, <2>1 DEF LookApprove, stages
  <2>2. ASSUME NEW k \in 1 .. Len(frames),
               flows' = [flows EXCEPT ![frames[k].flow] = "KEYFRAME_APPROVED"],
               frames' = [frames EXCEPT ![k].approved = TRUE]
        PROVE  StageInv' /\ Grown
    <3> DEFINE new == [frames[k] EXCEPT !.approved = TRUE]
    <3>1. frames[k].flow \in 1 .. Len(flows) /\ frames[k] \in Frame
      BY FlowOf
    <3>2. new \in Frame /\ new.flow = frames[k].flow /\ new.approved
      BY <3>1 DEF Frame
    <3>3. flows \in Seq(Locked) /\ "KEYFRAME_APPROVED" \in Locked /\ frames \in Seq(Frame)
      BY <1>a DEF StageInv, Locked
    <3>4. flows' \in Seq(Locked) /\ Len(flows') = Len(flows)
      BY <2>2, <3>1, <3>3, Replaced
    <3>5. frames' = [frames EXCEPT ![k] = new]
      BY <2>2
    <3> HIDE DEF new
    <3>6. /\ frames' \in Seq(Frame) /\ Len(frames') = Len(frames) /\ frames'[k] = new
          /\ \A j \in 1 .. Len(frames) : j # k => frames'[j] = frames[j]
      BY <3>2, <3>3, <3>5, Replaced
    <3>7. Passed \subseteq Passed'
      BY <3>2, <3>6 DEF Passed
    <3>8. \A j \in 1 .. Len(frames') : frames'[j].flow \in 1 .. Len(flows')
      BY <1>a, <3>1, <3>2, <3>4, <3>6 DEF StageInv
    <3>9. pilots' = pilots
      BY <1>4 DEF LookApprove
    <3> QED
      BY <1>a, <1>4, <3>4, <3>6, <3>7, <3>8, <3>9 DEF StageInv, Grown
  <2> QED
    BY <1>4, <2>1, <2>2 DEF LookApprove
<1>d. ASSUME NEW q \in Seq(Attempt), pilots' = q, Len(pilots) <= Len(q), Len(q) <= MaxPilots,
             UNCHANGED <<flows, frames>>,
             \A i \in 1 .. Len(q) : q[i].keyframe \in Passed,
             \A i \in 1 .. Len(pilots) : q[i].keyframe = pilots[i].keyframe
      PROVE  StageInv' /\ Grown
  BY <1>a, <1>b, <1>d DEF StageInv, Grown
<1>5. ASSUME NEW s \in Session, FilmClaim(s)
      PROVE  StageInv' /\ Grown
  <2> DEFINE new == [keyframe |-> mem[s].rev, status |-> "RUNNING"]
             q == Append(pilots, new)
  <2>1. UNCHANGED <<flows, frames>>
        /\ \/ pilots' = pilots
           \/ Len(pilots) < MaxPilots /\ pilots' = q
    BY <1>5 DEF FilmClaim
  <2>2. mem[s].rev \in Passed /\ mem[s].rev \in Nat
    BY <1>5, Held, FlowOf DEF FilmClaim, HoldsKeyframe
  <2>3. new \in Attempt /\ new.keyframe \in Passed /\ pilots \in Seq(Attempt)
    BY <1>a, <2>2 DEF Attempt, StageInv
  <2> HIDE DEF new
  <2>4. /\ q \in Seq(Attempt) /\ Len(q) = Len(pilots) + 1 /\ q[Len(pilots) + 1] = new
        /\ \A i \in 1 .. Len(pilots) : q[i] = pilots[i]
    BY <2>3, Extended
  <2> HIDE DEF q
  <2>5. \A i \in 1 .. Len(q) : i \in 1 .. Len(pilots) \/ i = Len(pilots) + 1
    BY <1>a, <2>4
  <2>6. \A i \in 1 .. Len(q) : q[i].keyframe \in Passed
    BY <1>a, <2>3, <2>4, <2>5 DEF StageInv
  <2> QED
    BY <1>a, <1>0, <1>d, <2>1, <2>4, <2>6 DEF stages
<1>6. ASSUME NEW s \in Session, FilmFinish(s)
      PROVE  StageInv' /\ Grown
  <2> DEFINE n == mem[s].rev
  <2>1. n \in 1 .. Len(pilots)
    BY <1>6, Held DEF FilmFinish, HoldsPilot
  <2>2. UNCHANGED <<flows, frames>>
        /\ \E result \in {"SUCCEEDED", "FAILED"} : pilots' = [pilots EXCEPT ![n].status = result]
    BY <1>6 DEF FilmFinish
  <2> HIDE DEF n
  <2>3. PICK result \in {"SUCCEEDED", "FAILED"} : pilots' = [pilots EXCEPT ![n].status = result]
    BY <2>2
  <2> DEFINE new == [pilots[n] EXCEPT !.status = result]
             q == [pilots EXCEPT ![n] = new]
  <2>4. pilots[n] \in Attempt /\ pilots[n].keyframe \in Passed /\ pilots \in Seq(Attempt)
    BY <1>a, <2>1, FlowOf DEF StageInv
  <2>5. new \in Attempt /\ new.keyframe = pilots[n].keyframe
    BY <2>4 DEF Attempt
  <2>6. pilots' = q
    BY <2>3
  <2> HIDE DEF new
  <2>7. /\ q \in Seq(Attempt) /\ Len(q) = Len(pilots) /\ q[n] = new
        /\ \A i \in 1 .. Len(pilots) : i # n => q[i] = pilots[i]
    BY <2>1, <2>4, <2>5, Replaced
  <2> HIDE DEF q
  <2>8. \A i \in 1 .. Len(pilots) : q[i].keyframe = pilots[i].keyframe
    BY <2>5, <2>7
  <2>9. \A i \in 1 .. Len(q) : q[i].keyframe \in Passed
    BY <1>a, <2>7, <2>8 DEF StageInv
  <2>10. Len(pilots) <= Len(q) /\ Len(q) <= MaxPilots
    BY <1>a, <2>7 DEF StageInv
  <2> QED
    BY <1>d, <2>2, <2>6, <2>7, <2>8, <2>9, <2>10
<1> QED
  BY <1>0, <1>1, <1>2, <1>3, <1>4, <1>5, <1>6, StageSteps

\* What is kept is kept.
LEMMA KeptGrows ==
  ASSUME TypeInv, [Next]_vars
  PROVE  /\ ToSet(boards) \subseteq ToSet(boards') /\ 1 .. Len(flows) \subseteq 1 .. Len(flows')
         /\ Passed \subseteq Passed' /\ 1 .. Len(pilots) \subseteq 1 .. Len(pilots')
         /\ Kept.board \subseteq Kept'.board /\ Kept.flow \subseteq Kept'.flow
         /\ Kept.passed \subseteq Kept'.passed /\ Kept.pilot \subseteq Kept'.pilot
<1>1. /\ Len(flows) \in Nat /\ Len(pilots) \in Nat /\ Grown /\ ToSet(boards) \subseteq ToSet(boards')
  BY FlowOf, NextStages, RevisionsStep
<1>2. /\ 1 .. Len(flows) \subseteq 1 .. Len(flows') /\ 1 .. Len(pilots) \subseteq 1 .. Len(pilots')
      /\ Passed \subseteq Passed'
  BY <1>1 DEF Grown
<1> QED
  BY <1>1, <1>2 DEF Kept

LEMMA Memories ==
  ASSUME NEW m \in Memory
  PROVE  /\ \A b \in Brief \cup {None} :
              /\ [m EXCEPT !.brief = b] \in Memory
              /\ [m EXCEPT !.brief = b].brief = b /\ [m EXCEPT !.brief = b].rev = m.rev
         /\ \A r \in Anything :
              /\ [m EXCEPT !.rev = r] \in Memory
              /\ [m EXCEPT !.rev = r].rev = r /\ [m EXCEPT !.rev = r].brief = m.brief
         /\ \A n \in 0 .. 5 : [m EXCEPT !.from = n] \in Memory /\ [m EXCEPT !.from = n].from = n
         /\ m.brief \in Brief \cup {None} /\ m.rev \in Anything /\ m.from \in 0 .. 5
BY DEF Memory

LEMMA IdleMemory == Idle \in Memory
BY DEF Idle, Memory, Anything

\* A session goes to l with m in memory; the others stay where they are.
Moves(s, l, m) ==
  /\ at' = [at EXCEPT ![s] = l] /\ mem' = [mem EXCEPT ![s] = m]
  /\ l \in Label /\ m \in Memory
  /\ Holds(l, m, Kept')

LEMMA Moved ==
  ASSUME TypeInv, [Next]_vars, NEW s \in Session, NEW l, NEW m, Moves(s, l, m)
  PROVE  LocalInv'
<1>1. /\ at \in [Session -> Label] /\ mem \in [Session -> Memory]
      /\ \A t \in Session : Holds(at[t], mem[t], Kept)
  BY DEF TypeInv, LocalInv
<1>2. /\ at' \in [Session -> Label] /\ mem' \in [Session -> Memory]
      /\ at'[s] = l /\ mem'[s] = m
      /\ \A t \in Session \ {s} : at'[t] = at[t] /\ mem'[t] = mem[t]
  BY <1>1 DEF Moves
<1>3. /\ Kept.board \subseteq Kept'.board /\ Kept.flow \subseteq Kept'.flow
      /\ Kept.passed \subseteq Kept'.passed /\ Kept.pilot \subseteq Kept'.pilot
  BY KeptGrows
<1>4. \A t \in Session : Holds(at'[t], mem'[t], Kept')
  <2>1. Holds(at'[s], mem'[s], Kept')
    BY <1>2 DEF Moves
  <2>2. ASSUME NEW t \in Session \ {s}
        PROVE  Holds(at'[t], mem'[t], Kept')
    BY <1>1, <1>2, <1>3 DEF Holds
  <2> QED
    BY <2>1, <2>2
<1> QED
  BY <1>2, <1>4 DEF LocalInv

\* Nobody moves.
LEMMA Stayed ==
  ASSUME TypeInv, [Next]_vars, UNCHANGED local
  PROVE  LocalInv'
<1>1. LocalInv
  BY DEF TypeInv
<1>2. /\ Kept.board \subseteq Kept'.board /\ Kept.flow \subseteq Kept'.flow
      /\ Kept.passed \subseteq Kept'.passed /\ Kept.pilot \subseteq Kept'.pilot
  BY KeptGrows
<1> QED
  BY <1>1, <1>2 DEF LocalInv, Holds, local

LEMMA GoesReady ==
  ASSUME NEW s \in Session, Done(s)
  PROVE  Moves(s, "ready", Idle)
BY IdleMemory DEF Done, Go, Moves, Holds, HoldsBrief, HoldsKeyframe, HoldsPilot, Label

LEMMA GoesDownstream ==
  ASSUME NEW s \in Session, NEW n \in 1 .. 5, Downstream(s, n)
  PROVE  Moves(s, "invalidate", [Idle EXCEPT !.from = n])
<1> DEFINE m == [Idle EXCEPT !.from = n]
<1>1. n \in 0 .. 5
  OBVIOUS
<1>2. m \in Memory /\ m.from = n
  BY <1>1, IdleMemory, Memories
<1> HIDE DEF m
<1>3. Go(s, "invalidate", m)
  BY DEF Downstream, m
<1>4. Moves(s, "invalidate", m)
  BY <1>2, <1>3 DEF Go, Moves, Holds, HoldsBrief, HoldsKeyframe, HoldsPilot, Label
<1> QED
  BY <1>4 DEF m

\* Where an action leads.
Goes(s) == \E l \in Label, m \in Memory : Moves(s, l, m)

LEMMA Ready == ASSUME NEW s \in Session, Done(s) PROVE Goes(s)
<1>1. Moves(s, "ready", Idle) /\ "ready" \in Label
  BY GoesReady DEF Label
<1> QED
  BY <1>1, IdleMemory DEF Goes

LEMMA Draining == ASSUME NEW s \in Session, NEW n \in 1 .. 5, Downstream(s, n) PROVE Goes(s)
<1>1. Moves(s, "invalidate", [Idle EXCEPT !.from = n]) /\ "invalidate" \in Label
  BY GoesDownstream DEF Label
<1>2. [Idle EXCEPT !.from = n] \in Memory
  BY <1>1 DEF Moves
<1> QED
  BY <1>1, <1>2 DEF Goes

LEMMA Going ==
  ASSUME NEW s \in Session, NEW l \in Label, NEW m \in Memory, Go(s, l, m),
         Holds(l, m, Kept')
  PROVE  Goes(s)
BY DEF Goes, Moves, Go

USE DEF HoldsBrief, HoldsKeyframe, HoldsPilot, Label

\* What is kept after a step.
LEMMA KeptNext ==
  /\ Kept'.board = ToSet(boards') /\ Kept'.flow = 1 .. Len(flows')
  /\ Kept'.passed = Passed' /\ Kept'.pilot = 1 .. Len(pilots')
BY DEF Kept

LEMMA NextLocal ==
  ASSUME TypeInv, [Next]_vars
  PROVE  LocalInv'
<1>a. /\ LocalInv
      /\ \A s \in Session : mem[s] \in Memory
  BY DEF TypeInv, LocalInv
<1>b. Idle \in Memory /\ Idle.rev = None
  BY IdleMemory DEF Idle
<1>c. /\ brief \in Brief /\ brief \in Brief \cup {None} /\ None \in Brief \cup {None}
      /\ Nat \subseteq Anything
  BY TypeFacts DEF Anything
<1>d. /\ ToSet(boards) \subseteq ToSet(boards') /\ 1 .. Len(flows) \subseteq 1 .. Len(flows')
      /\ Passed \subseteq Passed' /\ 1 .. Len(pilots) \subseteq 1 .. Len(pilots')
  BY KeptGrows
\* Where the memory of a session is one number that it has found.
<1>e. ASSUME NEW s \in Session, NEW l \in Label, NEW m \in Memory, NEW n \in Nat,
             Go(s, l, [m EXCEPT !.rev = n]), l \notin {"boardBind", "boardRecord", "invalidate", "fail"},
             l \in HoldsBrief => m.brief \in Brief,
             l = "still" => n \in 1 .. Len(flows'),
             l \in HoldsKeyframe => n \in Passed',
             l \in HoldsPilot => n \in 1 .. Len(pilots')
      PROVE  Goes(s)
  <2> DEFINE new == [m EXCEPT !.rev = n]
  <2>1. new \in Memory /\ new.rev = n /\ new.brief = m.brief
    BY <1>c, Memories
  <2> HIDE DEF new
  <2>2. Go(s, l, new)
    BY <1>e DEF new
  <2> QED
    BY <1>e, <2>1, <2>2, KeptNext, Going DEF Holds
<1>1. CASE UNCHANGED local
  BY <1>1, Stayed
<1>2. ASSUME NEW s \in Session, EditRead(s)
      PROVE  Goes(s)
  <2>1. PICK seen \in {brief, None} : Go(s, "edit", [Idle EXCEPT !.brief = seen])
    BY <1>2 DEF EditRead
  <2>2. [Idle EXCEPT !.brief = seen] \in Memory
    BY <1>b, <1>c, Memories
  <2> QED
    BY <2>1, <2>2, Going DEF Holds
<1>3. ASSUME NEW s \in Session, VoiceRead(s) \/ LookRead(s) \/ PreflightRead(s)
      PROVE  Goes(s)
  <2> DEFINE m == [Idle EXCEPT !.brief = brief]
  <2>1. m \in Memory /\ m.brief \in Brief
    BY <1>b, <1>c, Memories
  <2> HIDE DEF m
  <2>2. \E l \in {"voice", "look", "preflight"} : Go(s, l, m)
    BY <1>3 DEF VoiceRead, LookRead, PreflightRead, m
  <2> QED
    BY <2>1, <2>2, Going DEF Holds
<1>4. ASSUME NEW s \in Session, Edit(s)
      PROVE  Goes(s)
  <2>1. \/ Done(s)
        \/ \E b \in Brief : FirstStale(mem[s].brief, b) # 0 /\ Downstream(s, FirstStale(mem[s].brief, b))
    BY <1>4 DEF Edit
  <2>2. \A b \in Brief : FirstStale(mem[s].brief, b) \in {0, 1, 2}
    BY DEF FirstStale
  <2> QED
    BY <2>1, <2>2, Ready, Draining
<1>5. ASSUME NEW s \in Session, Invalidate(s)
      PROVE  Goes(s)
  <2> DEFINE m == [mem[s] EXCEPT !.from = mem[s].from + 1]
  <2>1. mem[s].from \in 1 .. 4
    BY <1>5, Held, Stages DEF Invalidate
  <2>2. m \in Memory /\ m.from \in 1 .. 5
    <3>1. mem[s].from + 1 \in 0 .. 5 /\ mem[s].from + 1 \in 1 .. 5
      BY <2>1
    <3> DEFINE n == mem[s].from + 1
    <3>2. n \in 0 .. 5 /\ n \in 1 .. 5 /\ mem[s] \in Memory
      BY <3>1, <1>a
    <3> HIDE DEF n
    <3>3. [mem[s] EXCEPT !.from = n] \in Memory /\ [mem[s] EXCEPT !.from = n].from = n
      BY <3>2, Memories
    <3> QED
      BY <3>2, <3>3 DEF n
  <2>3. Go(s, "invalidate", m)
    BY <1>5 DEF Invalidate
  <2> HIDE DEF m
  <2> QED
    BY <2>2, <2>3, Going DEF Holds
<1>6. ASSUME NEW s \in Session,
             \/ Reset(s) \/ VoiceApprove(s) \/ PilotSettle(s) \/ PreflightBlocked(s)
             \/ PreflightSave(s) \/ FinishFailure(s) \/ Continue(s) \/ Crash(s)
             \/ StillStore(s) \/ FilmRecord(s)
      PROVE  Goes(s)
  <2>1. Done(s)
    BY <1>6 DEF Reset, VoiceApprove, PilotSettle, PreflightBlocked, PreflightSave, FinishFailure, Continue,
                Crash, StillStore, FilmRecord
  <2> QED
    BY <2>1, Ready
<1>7. ASSUME NEW s \in Session, SaveScript(s) \/ ApproveScript(s) \/ SaveStoryboard(s) \/ BoardRecord(s)
                                \/ LookRecord(s)
      PROVE  Goes(s)
  <2>1. \E n \in {2, 3, 4} : Downstream(s, n)
    BY <1>7 DEF SaveScript, ApproveScript, SaveStoryboard, BoardRecord, LookRecord
  <2> QED
    BY <2>1, Draining
<1>8. ASSUME NEW s \in Session, BoardRead(s)
      PROVE  Goes(s)
  <2>1. PICK board \in ToSet(boards) :
          Go(s, "boardBind", [Idle EXCEPT !.brief = brief, !.rev = board]) /\ boards' = boards
    BY <1>8 DEF BoardRead, revisions
  <2> DEFINE m == [Idle EXCEPT !.brief = brief, !.rev = board]
  <2>2. board \in Anything
    BY TypeFacts DEF Anything
  <2>3. m \in Memory /\ m.brief = brief /\ m.rev = board
    <3> DEFINE read == [Idle EXCEPT !.brief = brief]
    <3>1. read \in Memory /\ read.brief = brief
      BY <1>b, <1>c, Memories
    <3>2. m = [read EXCEPT !.rev = board]
      OBVIOUS
    <3> HIDE DEF read, m
    <3> QED
      BY <2>2, <3>1, <3>2, Memories
  <2> HIDE DEF m
  <2>4. Go(s, "boardBind", m)
    BY <2>1 DEF m
  <2> QED
    BY <1>c, <2>1, <2>3, <2>4, KeptNext, Going DEF Holds
<1>9. ASSUME NEW s \in Session, BoardBind(s)
      PROVE  Goes(s)
  <2> DEFINE m == [mem[s] EXCEPT !.brief = None]
  <2>1. Done(s) \/ Go(s, "boardRecord", m)
    BY <1>9 DEF BoardBind
  <2>2. m \in Memory /\ m.rev = mem[s].rev
    BY <1>a, <1>c, Memories
  <2>3. mem[s].rev \in ToSet(boards) /\ boards' = boards
    BY <1>9, Held DEF BoardBind, revisions
  <2> HIDE DEF m
  <2> QED
    BY <2>1, <2>2, <2>3, KeptNext, Ready, Going DEF Holds
<1>10. ASSUME NEW s \in Session, LookApprove(s)
       PROVE  Goes(s)
  <2>1. CASE Done(s)
    BY <2>1, Ready
  <2>2. ASSUME NEW k \in 1 .. Len(frames), Go(s, "lookBind", [mem[s] EXCEPT !.rev = k]),
               frames' = [frames EXCEPT ![k].approved = TRUE]
        PROVE  Goes(s)
    <3>1. mem[s].brief \in Brief /\ k \in Nat /\ mem[s] \in Memory
      BY <1>10, Held, FlowOf DEF LookApprove
    <3>2. frames \in Seq(Frame) /\ frames[k] \in Frame
      BY FlowOf DEF TypeInv, StageInv
    <3>3. frames'[k].approved /\ Len(frames') = Len(frames)
      <4> DEFINE new == [frames[k] EXCEPT !.approved = TRUE]
      <4>1. new \in Frame /\ new.approved
        BY <3>2 DEF Frame
      <4>2. frames' = [frames EXCEPT ![k] = new]
        BY <2>2
      <4> HIDE DEF new
      <4> QED
        BY <3>2, <4>1, <4>2, Replaced
    <3>4. k \in Passed'
      BY <3>3 DEF Passed
    <3> QED
      BY <2>2, <3>1, <3>4, <1>e
  <2> QED
    BY <1>10, <2>1, <2>2 DEF LookApprove
<1>11. ASSUME NEW s \in Session, LookBind(s)
       PROVE  Goes(s)
  <2> DEFINE m == [mem[s] EXCEPT !.brief = None]
  <2>1. Done(s) \/ Go(s, "lookRecord", m)
    BY <1>11 DEF LookBind
  <2>2. m \in Memory /\ m.rev = mem[s].rev
    BY <1>a, <1>c, Memories
  <2>3. mem[s].rev \in Passed'
    BY <1>11, <1>d, Held DEF LookBind
  <2> HIDE DEF m
  <2> QED
    BY <2>1, <2>2, <2>3, KeptNext, Ready, Going DEF Holds
<1>12. ASSUME NEW s \in Session, PilotRead(s) \/ RejectPilot(s)
       PROVE  Goes(s)
  <2>1. PICK i \in 1 .. Len(pilots) : \E l \in {"pilotRecord", "rejectFlow"} : Go(s, l, [Idle EXCEPT !.rev = i])
    BY <1>12 DEF PilotRead, RejectPilot
  <2>2. i \in Nat /\ i \in 1 .. Len(pilots')
    BY <1>d, FlowOf
  <2> QED
    BY <2>1, <2>2, <1>b, <1>e
<1>13. ASSUME NEW s \in Session, PilotRecord(s) \/ FilmFinish(s)
       PROVE  Goes(s)
  <2>1. (\E l \in {"pilotAccept", "filmed"} : Go(s, l, mem[s])) \/ Done(s)
    BY <1>13 DEF PilotRecord, FilmFinish
  <2>2. mem[s].rev \in 1 .. Len(pilots')
    BY <1>13, <1>d, Held DEF PilotRecord, FilmFinish
  <2> QED
    BY <2>1, <2>2, <1>a, KeptNext, Ready, Going DEF Holds
<1>14. ASSUME NEW s \in Session, StartGate(s) \/ Claim(s)
       PROVE  Goes(s)
  <2>1. Done(s) \/ \E l \in {"start", "create"} : Go(s, l, Idle)
    BY <1>14 DEF StartGate, Claim
  <2> QED
    BY <2>1, <1>b, Ready, Going DEF Holds
<1>15. ASSUME NEW s \in Session, StartRead(s)
       PROVE  Goes(s)
  <2> DEFINE m == [Idle EXCEPT !.brief = brief]
  <2>1. m \in Memory /\ m.brief \in Brief
    BY <1>b, <1>c, Memories
  <2> HIDE DEF m
  <2>2. Done(s) \/ Go(s, "claim", m)
    BY <1>15 DEF StartRead, m
  <2> QED
    BY <2>1, <2>2, Ready, Going DEF Holds
<1>16. ASSUME NEW s \in Session, Create(s) \/ FinishSuccess(s)
       PROVE  Goes(s)
  <2>1. \/ Go(s, "finish", mem[s]) \/ Go(s, "continue", mem[s])
        \/ \E r \in Boundary : Go(s, "fail", [mem[s] EXCEPT !.rev = r])
    BY <1>16 DEF Create, FinishSuccess, Boundary
  <2>2. \A r \in Boundary : [mem[s] EXCEPT !.rev = r] \in Memory /\ [mem[s] EXCEPT !.rev = r].rev = r
    BY <1>a, Memories DEF Anything
  <2>3. ASSUME NEW r \in Boundary, Go(s, "fail", [mem[s] EXCEPT !.rev = r])
        PROVE  Goes(s)
    <3> DEFINE m == [mem[s] EXCEPT !.rev = r]
    <3>1. m \in Memory /\ m.rev = r /\ Go(s, "fail", m)
      BY <2>2, <2>3
    <3> HIDE DEF m
    <3> QED
      BY <3>1, Going DEF Holds
  <2> QED
    BY <2>1, <2>3, <1>a, Going DEF Holds
<1>17. ASSUME NEW s \in Session, PreviewVoice(s) \/ UploadVoice(s)
       PROVE  UNCHANGED local
  BY <1>17 DEF PreviewVoice, UploadVoice
<1>18. ASSUME NEW s \in Session, Reselect(s)
       PROVE  UNCHANGED local \/ Goes(s)
  BY <1>18, Ready DEF Reselect
<1>19. ASSUME NEW s \in Session, StillCheck(s)
       PROVE  Goes(s)
  <2>1. PICK n \in Nat : n \in 1 .. Len(flows') /\ Go(s, "still", [Idle EXCEPT !.rev = n])
    <3>1. Len(flows) \in Nat /\ flows \in Seq(Locked) /\ "PREPARED" \in Locked
      BY FlowOf DEF TypeInv, StageInv, Locked
    <3>2. Len(Append(flows, "PREPARED")) = Len(flows) + 1
      BY <3>1, Extended
    <3>3. flows # <<>> => Len(flows) \in 1 .. Len(flows)
      BY <3>1
    <3>4. CASE flows # <<>> /\ UNCHANGED flows /\ Go(s, "still", [Idle EXCEPT !.rev = Len(flows)])
      BY <3>1, <3>3, <3>4
    <3>5. CASE /\ flows' = Append(flows, "PREPARED")
               /\ Go(s, "still", [Idle EXCEPT !.rev = Len(flows) + 1])
      <4>1. Len(flows) + 1 \in Nat /\ Len(flows) + 1 \in 1 .. Len(flows')
        BY <3>1, <3>2, <3>5
      <4> QED
        BY <3>5, <4>1
    <3> QED
      BY <1>19, <3>4, <3>5 DEF StillCheck
  <2> QED
    BY <2>1, <1>b, <1>e
<1>20. ASSUME NEW s \in Session, FilmCheck(s)
       PROVE  Goes(s)
  <2>1. PICK k \in 1 .. Len(frames) : frames[k].approved /\ Go(s, "film", [Idle EXCEPT !.rev = k])
    BY <1>20 DEF FilmCheck
  <2>2. k \in Passed
    BY <2>1 DEF Passed
  <2> QED
    BY <2>1, <2>2, <1>b, <1>d, <1>e, FlowOf
<1>21. ASSUME NEW s \in Session, FilmClaim(s)
       PROVE  Goes(s)
  <2>1. CASE Done(s)
    BY <2>1, Ready
  <2>2. CASE /\ Go(s, "filming", [Idle EXCEPT !.rev = Len(pilots) + 1])
             /\ pilots' = Append(pilots, [keyframe |-> mem[s].rev, status |-> "RUNNING"])
    <3> DEFINE new == [keyframe |-> mem[s].rev, status |-> "RUNNING"]
    <3>1. mem[s].rev \in Nat
      BY <1>21, Held, FlowOf DEF FilmClaim
    <3>2. new \in Attempt /\ pilots \in Seq(Attempt)
      BY <3>1 DEF Attempt, TypeInv, StageInv
    <3>3. Len(pilots') = Len(pilots) + 1 /\ Len(pilots) \in Nat
      BY <2>2, <3>2, Extended
    <3>4. Len(pilots) + 1 \in Nat /\ Len(pilots) + 1 \in 1 .. Len(pilots')
      BY <3>3
    <3> QED
      BY <2>2, <3>4, <1>b, <1>e
  <2> QED
    BY <1>21, <2>1, <2>2 DEF FilmClaim
<1>22. ASSUME NEW s \in Session, Goes(s)
       PROVE  LocalInv'
  BY <1>22, Moved DEF Goes
<1>23. CASE Next
  BY <1>23, <1>1, <1>2, <1>3, <1>4, <1>5, <1>6, <1>7, <1>8, <1>9, <1>10, <1>11, <1>12, <1>13, <1>14,
     <1>15, <1>16, <1>17, <1>18, <1>19, <1>20, <1>21, <1>22 DEF Next, Step
<1> QED
  BY <1>1, <1>23 DEF vars

----------------------------------------------------------------------------
\* What the steps do to the events of the stages.
LEMMA RecordEffect ==
  ASSUME TypeInv, NEW stage \in Stage, NEW subject \in Anything,
         NEW decision \in {"APPROVED", "REJECTED", "INVALIDATED"}, Record(stage, decision, subject)
  PROVE  /\ events' \in [Stage -> [decision : Decision, subject : Anything]]
         /\ granted' \in [Stage -> SUBSET Anything]
         /\ \A st \in Stage \ {stage} : events'[st] = events[st] /\ granted'[st] = granted[st]
         /\ \/ decision = "APPROVED" /\ subject \in granted[stage] /\ UNCHANGED approvals
            \/ /\ events'[stage].decision = decision /\ events'[stage].subject = subject
               /\ granted'[stage] = IF decision = "APPROVED" THEN granted[stage] \cup {subject}
                                    ELSE granted[stage]
<1>1. /\ events \in [Stage -> [decision : Decision, subject : Anything]]
      /\ granted \in [Stage -> SUBSET Anything]
  BY DEF TypeInv, EventInv
<1>2. CASE decision = "APPROVED" /\ subject \in granted[stage]
  BY <1>1, <1>2 DEF Record, approvals
<1>3. CASE ~(decision = "APPROVED" /\ subject \in granted[stage])
  <2> DEFINE e == [decision |-> decision, subject |-> subject]
  <2>1. e \in [decision : Decision, subject : Anything] /\ e.decision = decision /\ e.subject = subject
    BY DEF Decision
  <2>2. /\ events' = [events EXCEPT ![stage] = e]
        /\ granted' = IF decision = "APPROVED"
                      THEN [granted EXCEPT ![stage] = @ \cup {subject}] ELSE granted
    BY <1>3 DEF Record
  <2> HIDE DEF e
  <2>3. granted[stage] \cup {subject} \in SUBSET Anything
    BY <1>1
  <2>4. /\ granted' \in [Stage -> SUBSET Anything]
        /\ granted'[stage] = IF decision = "APPROVED" THEN granted[stage] \cup {subject} ELSE granted[stage]
        /\ \A st \in Stage \ {stage} : granted'[st] = granted[st]
    BY <1>1, <2>2, <2>3
  <2> QED
    BY <1>1, <2>1, <2>2, <2>4
<1> QED
  BY <1>2, <1>3

\* An approval is of what the stage is about.
Approvable(stage, decision, subject) ==
  decision = "APPROVED" =>
    /\ subject \in Subject(stage)
    /\ stage = "SCRIPT" => subject \in ToSet(scripts)
    /\ stage = "STORYBOARD" => subject \in ToSet(boards)
    /\ stage = "PILOT" => subject \in 1 .. Len(pilots)

LEMMA Subjects ==
  /\ Subject("SCRIPT") = Text /\ Subject("STORYBOARD") = Storyboard
  /\ Subject("LOOK") = 1 .. MaxKeyframes /\ Subject("PILOT") = 1 .. MaxPilots
BY DEF Subject

LEMMA Written ==
  ASSUME TypeInv, Next
  PROVE  \/ UNCHANGED approvals
         \/ \E stage \in Stage, subject \in Anything, decision \in {"APPROVED", "REJECTED", "INVALIDATED"} :
              Record(stage, decision, subject) /\ Approvable(stage, decision, subject)
<1>a. Nat \subseteq Anything
  BY DEF Anything
<1> DEFINE Writes == \E stage \in Stage, subject \in Anything,
                        decision \in {"APPROVED", "REJECTED", "INVALIDATED"} :
                       Record(stage, decision, subject) /\ Approvable(stage, decision, subject)
<1>1. ASSUME NEW s \in Session, Invalidate(s)
      PROVE  UNCHANGED approvals \/ Writes
  <2>1. mem[s].from \in 1 .. 4
    BY <1>1, Held, Stages DEF Invalidate
  <2> DEFINE stage == STAGE_ORDER[mem[s].from]
  <2>2. stage \in Stage
    BY <2>1, Stages
  <2>3. events[stage].subject \in Anything
    BY <2>2 DEF TypeInv, EventInv
  <2>4. \/ UNCHANGED approvals
        \/ Record(stage, "INVALIDATED", events[stage].subject)
    BY <1>1 DEF Invalidate
  <2> HIDE DEF stage
  <2> QED
    BY <2>2, <2>3, <2>4 DEF Approvable
<1>2. ASSUME NEW s \in Session, ApproveScript(s)
      PROVE  Writes
  <2>1. PICK t \in ToSet(scripts) : Record("SCRIPT", "APPROVED", t)
    BY <1>2 DEF ApproveScript
  <2>2. t \in Text /\ t \in Anything
    BY TypeFacts DEF Anything
  <2> QED
    BY <2>1, <2>2, Stages, Subjects DEF Approvable
<1>3. ASSUME NEW s \in Session, BoardRecord(s)
      PROVE  Writes
  <2>1. mem[s].rev \in ToSet(boards) /\ mem[s].rev \in Storyboard /\ mem[s].rev \in Anything
    BY <1>3, Held, TypeFacts DEF BoardRecord, Anything
  <2>2. Record("STORYBOARD", "APPROVED", mem[s].rev)
    BY <1>3 DEF BoardRecord
  <2> QED
    BY <2>1, <2>2, Stages, Subjects DEF Approvable
<1>4. ASSUME NEW s \in Session, LookRecord(s)
      PROVE  Writes
  <2>1. mem[s].rev \in 1 .. MaxKeyframes /\ mem[s].rev \in Anything
    BY <1>4, <1>a, Held, FlowOf DEF LookRecord
  <2>2. Record("LOOK", "APPROVED", mem[s].rev)
    BY <1>4 DEF LookRecord
  <2> QED
    BY <2>1, <2>2, Stages, Subjects DEF Approvable
<1>5. ASSUME NEW s \in Session, PilotRecord(s)
      PROVE  Writes
  <2>1. mem[s].rev \in 1 .. Len(pilots) /\ mem[s].rev \in 1 .. MaxPilots /\ mem[s].rev \in Anything
    BY <1>5, <1>a, Held, FlowOf DEF PilotRecord
  <2>2. Record("PILOT", "APPROVED", mem[s].rev)
    BY <1>5 DEF PilotRecord
  <2> QED
    BY <2>1, <2>2, Stages, Subjects DEF Approvable
<1>6. ASSUME NEW s \in Session, RejectPilot(s)
      PROVE  Writes
  <2>1. PICK i \in 1 .. Len(pilots) : Record("PILOT", "REJECTED", i)
    BY <1>6 DEF RejectPilot
  <2>2. i \in Anything
    BY <1>a, FlowOf
  <2> QED
    BY <2>1, <2>2, Stages DEF Approvable
<1>7. ASSUME NEW s \in Session,
             \/ EditRead(s) \/ Edit(s) \/ Reset(s)
             \/ PreviewVoice(s) \/ UploadVoice(s) \/ VoiceRead(s) \/ VoiceApprove(s)
             \/ SaveScript(s) \/ SaveStoryboard(s) \/ BoardRead(s) \/ BoardBind(s)
             \/ LookRead(s) \/ LookApprove(s) \/ LookBind(s) \/ PilotRead(s) \/ PilotSettle(s)
      PROVE  UNCHANGED approvals
  BY <1>7 DEF EditRead, Edit, Reset, PreviewVoice, UploadVoice, VoiceRead, VoiceApprove, SaveScript,
              SaveStoryboard, BoardRead, BoardBind, LookRead, LookApprove, LookBind, PilotRead, PilotSettle
<1>8. ASSUME NEW s \in Session,
             \/ PreflightRead(s) \/ Reselect(s) \/ PreflightBlocked(s) \/ PreflightSave(s)
             \/ StartGate(s) \/ StartRead(s) \/ Claim(s) \/ Create(s)
             \/ FinishSuccess(s) \/ FinishFailure(s) \/ Continue(s) \/ Crash(s)
      PROVE  UNCHANGED approvals
  BY <1>8 DEF PreflightRead, Reselect, PreflightBlocked, PreflightSave, StartGate, StartRead, Claim,
              Create, FinishSuccess, FinishFailure, Continue, Crash
<1>9. ASSUME NEW s \in Session,
             StillCheck(s) \/ StillStore(s) \/ FilmCheck(s) \/ FilmClaim(s) \/ FilmFinish(s) \/ FilmRecord(s)
      PROVE  UNCHANGED approvals
  BY <1>9 DEF StillCheck, StillStore, FilmCheck, FilmClaim, FilmFinish, FilmRecord
<1> HIDE DEF Writes
<1>10. UNCHANGED approvals \/ Writes
  BY <1>1, <1>2, <1>3, <1>4, <1>5, <1>6, <1>7, <1>8, <1>9 DEF Next, Step
<1> QED
  BY <1>10 DEF Writes

LEMMA NextEventInv ==
  ASSUME TypeInv, [Next]_vars
  PROVE  EventInv' /\ \A st \in Stage : granted'[st] \subseteq Subject(st)
<1>1. /\ EventInv
      /\ \A st \in Stage : granted[st] \subseteq Subject(st)
  BY DEF TypeInv, TypeOK
<1>2. /\ ToSet(scripts) \subseteq ToSet(scripts') /\ ToSet(boards) \subseteq ToSet(boards')
      /\ 1 .. Len(pilots) \subseteq 1 .. Len(pilots')
  BY RevisionsStep, KeptGrows
<1>3. CASE UNCHANGED approvals
  BY <1>1, <1>2, <1>3 DEF EventInv, approvals
<1>4. ASSUME NEW stage \in Stage, NEW subject \in Anything,
             NEW decision \in {"APPROVED", "REJECTED", "INVALIDATED"},
             Record(stage, decision, subject), Approvable(stage, decision, subject)
      PROVE  EventInv' /\ \A st \in Stage : granted'[st] \subseteq Subject(st)
  <2>1. CASE UNCHANGED approvals
    BY <1>3, <2>1
  <2>2. CASE /\ events'[stage].decision = decision /\ events'[stage].subject = subject
             /\ granted'[stage] = IF decision = "APPROVED" THEN granted[stage] \cup {subject}
                                  ELSE granted[stage]
    <3>1. /\ events' \in [Stage -> [decision : Decision, subject : Anything]]
          /\ granted' \in [Stage -> SUBSET Anything]
          /\ \A st \in Stage \ {stage} : events'[st] = events[st] /\ granted'[st] = granted[st]
      BY <1>4, RecordEffect
    <3>2. EventInv'
      BY <1>1, <1>2, <1>4, <2>2, <3>1, Stages DEF EventInv, Approvable
    <3>3. \A st \in Stage : granted'[st] \subseteq Subject(st)
      BY <1>1, <1>4, <2>2, <3>1 DEF Approvable
    <3> QED
      BY <3>2, <3>3
  <2>3. \/ UNCHANGED approvals
        \/ /\ events'[stage].decision = decision /\ events'[stage].subject = subject
           /\ granted'[stage] = IF decision = "APPROVED" THEN granted[stage] \cup {subject}
                                ELSE granted[stage]
    BY <1>4, RecordEffect
  <2> QED
    BY <2>1, <2>2, <2>3
<1> QED
  BY <1>3, <1>4, Written DEF vars, approvals

----------------------------------------------------------------------------
\* What the steps do to the draft.
\* A step that claims no start and ends none.
Calm ==
  /\ start' = start \/ (Editable /\ start' = "IDLE")
  /\ scheduled' = scheduled
  /\ \A t \in Session : Starting(t)' => at'[t] = at[t] /\ mem'[t] = mem[t]

\* The checks of the table of drafts.
DraftOK ==
  /\ brief \in Brief /\ preflight \in Brief \cup {None}
  /\ status \in {"DRAFT", "PREFLIGHT_READY", "STARTED"}
  /\ start \in {"IDLE", "RUNNING", "FAILED_RETRYABLE", "NEEDS_RECONCILIATION", "SUCCEEDED"}
  /\ (status # "DRAFT") = (preflight # None)
  /\ (status = "STARTED") = (start = "SUCCEEDED")

LEMMA WriteEffect ==
  ASSUME TypeInv, NEW b \in Brief, NEW reset \in BOOLEAN, Write(b, reset), status # "STARTED"
  PROVE  DraftOK' /\ start' = start
<1>1. None \notin Brief
  BY Bounds
<1>2. CASE reset \/ b # brief
  BY <1>1, <1>2, TypeFacts DEF Write, DraftOK
<1>3. CASE ~reset /\ b = brief
  BY <1>1, <1>3, TypeFacts DEF Write, DraftOK
<1> QED
  BY <1>2, <1>3

\* A session that is not behind a claim does not get there.
LEMMA StaysOut ==
  ASSUME TypeInv, NEW s \in Session, NEW l, NEW m, Go(s, l, m), l \notin {"create", "finish", "fail"}
  PROVE  \A t \in Session : Starting(t)' => at'[t] = at[t] /\ mem'[t] = mem[t]
<1>1. at \in [Session -> Label] /\ mem \in [Session -> Memory]
  BY DEF TypeInv, LocalInv
<1> QED
  BY <1>1 DEF Go, Starting

LEMMA Edits ==
  ASSUME TypeInv, NEW s \in Session,
         Edit(s) \/ VoiceApprove(s) \/ BoardBind(s) \/ LookBind(s) \/ Reselect(s)
  PROVE  /\ \/ UNCHANGED draft
            \/ Editable /\ \E b \in Brief, reset \in BOOLEAN : Write(b, reset)
         /\ scheduled' = scheduled
<1>1. CASE Edit(s)
  BY <1>1 DEF Edit
<1>2. CASE VoiceApprove(s)
  BY <1>2, Held DEF VoiceApprove
<1>3. CASE BoardBind(s)
  <2>1. mem[s].brief \in Brief /\ mem[s].rev \in Storyboard
    BY <1>3, Held, TypeFacts DEF BoardBind
  <2>2. [mem[s].brief EXCEPT !.board = mem[s].rev.board] \in Brief
    BY <2>1 DEF Brief, Storyboard
  <2> QED
    BY <1>3, <2>2 DEF BoardBind
<1>4. CASE LookBind(s)
  <2>1. mem[s].brief \in Brief /\ mem[s].rev \in 0 .. MaxKeyframes
    BY <1>4, Held, FlowOf DEF LookBind
  <2>2. [mem[s].brief EXCEPT !.look = mem[s].rev] \in Brief
    BY <2>1 DEF Brief
  <2> QED
    BY <1>4, <2>2 DEF LookBind
<1>5. CASE Reselect(s)
  BY <1>5, Held DEF Reselect
<1> QED
  BY <1>1, <1>2, <1>3, <1>4, <1>5

LEMMA StepKinds ==
  ASSUME TypeInv, [Next]_vars
  PROVE  \/ Calm /\ DraftOK'
         \/ \E s \in Session : Claim(s) \/ Create(s) \/ FinishSuccess(s) \/ FinishFailure(s) \/ Crash(s)
<1>a. /\ DraftOK /\ None \notin Brief
      /\ Editable => status # "STARTED"
  BY TypeFacts, Bounds DEF DraftOK, Editable
<1> DEFINE Out == \A t \in Session : Starting(t)' => at'[t] = at[t] /\ mem'[t] = mem[t]
<1>b. UNCHANGED local => Out
  BY DEF local, Starting
<1>c. ASSUME NEW s \in Session, \E l \in Label \ {"create", "finish", "fail"} : \E m : Go(s, l, m)
      PROVE  Out
  BY <1>c, StaysOut
<1> HIDE DEF Out
<1>d. UNCHANGED <<draft, scheduled>> /\ Out => Calm /\ DraftOK'
  BY <1>a DEF draft, DraftOK, Calm, Out
<1>0. CASE UNCHANGED vars
  BY <1>0, <1>b, <1>d DEF vars, history, local, draft
<1>e. ASSUME Write(brief, TRUE), status # "STARTED", Out, scheduled' = scheduled
      PROVE  Calm /\ DraftOK'
  <2>1. DraftOK' /\ start' = start
    BY <1>a, <1>e, WriteEffect DEF DraftOK
  <2> QED
    BY <1>e, <2>1 DEF Calm, Out
<1>1. ASSUME NEW s \in Session, StillCheck(s) \/ StillStore(s) \/ FilmCheck(s) \/ FilmClaim(s) \/ FilmFinish(s)
      PROVE  Calm /\ DraftOK'
  <2>1. UNCHANGED <<draft, scheduled>>
    BY <1>1 DEF StillCheck, StillStore, FilmCheck, FilmClaim, FilmFinish, history
  <2>2. Out
    BY <1>1, <1>c DEF StillCheck, StillStore, FilmCheck, FilmClaim, FilmFinish, Done
  <2> QED
    BY <2>1, <2>2, <1>d
<1>2. ASSUME NEW s \in Session, FilmRecord(s)
      PROVE  Calm /\ DraftOK'
  <2>1. Out /\ scheduled' = scheduled
    BY <1>2, <1>c DEF FilmRecord, Done, history
  <2>2. UNCHANGED draft \/ (status = "PREFLIGHT_READY" /\ Write(brief, TRUE))
    BY <1>2 DEF FilmRecord
  <2> QED
    BY <2>1, <2>2, <1>d, <1>e
<1>3. ASSUME NEW s \in Session, Reset(s)
      PROVE  Calm /\ DraftOK'
  <2>1. Out /\ scheduled' = scheduled
    BY <1>3, <1>c DEF Reset, Done, history
  <2> QED
    BY <1>3, <2>1, <1>d, <1>e DEF Reset
<1>4. ASSUME NEW s \in Session, Edit(s) \/ VoiceApprove(s) \/ BoardBind(s) \/ LookBind(s) \/ Reselect(s)
      PROVE  Calm /\ DraftOK'
  <2>1. Out
    <3>1. CASE Edit(s)
      BY <3>1, <1>c DEF Edit, Done, Downstream
    <3>2. CASE VoiceApprove(s) \/ BoardBind(s) \/ LookBind(s)
      BY <3>2, <1>c DEF VoiceApprove, BoardBind, LookBind, Done
    <3>3. CASE Reselect(s)
      BY <3>3, <1>b, <1>c DEF Reselect, Done
    <3> QED
      BY <1>4, <3>1, <3>2, <3>3
  <2>2. /\ \/ UNCHANGED draft
           \/ Editable /\ \E b \in Brief, reset \in BOOLEAN : Write(b, reset)
        /\ scheduled' = scheduled
    BY <1>4, Edits
  <2>3. CASE UNCHANGED draft
    BY <2>1, <2>2, <2>3, <1>d
  <2>4. ASSUME Editable, NEW b \in Brief, NEW reset \in BOOLEAN, Write(b, reset)
        PROVE  Calm /\ DraftOK'
    <3>1. DraftOK' /\ start' = start /\ start # "RUNNING"
      BY <1>a, <2>4, WriteEffect DEF Editable
    <3> QED
      BY <2>1, <2>2, <3>1 DEF Calm, Out
  <2> QED
    BY <2>2, <2>3, <2>4
<1>5. ASSUME NEW s \in Session, PreflightSave(s)
      PROVE  Calm /\ DraftOK'
  <2>1. Out /\ scheduled' = scheduled
    BY <1>5, <1>c DEF PreflightSave, Done
  <2>2. CASE ~Editable
    BY <1>5, <2>1, <2>2, <1>d DEF PreflightSave
  <2>3. CASE Editable
    <3>1. mem[s].brief \in Brief
      BY <1>5, Held DEF PreflightSave
    <3>2. /\ preflight' = mem[s].brief /\ status' = "PREFLIGHT_READY" /\ start' = "IDLE" /\ brief' = brief
      BY <1>5, <2>3 DEF PreflightSave
    <3> QED
      BY <1>a, <2>1, <2>3, <3>1, <3>2 DEF Calm, DraftOK, Editable, Out
  <2> QED
    BY <2>2, <2>3
<1>6. ASSUME NEW s \in Session,
             \/ EditRead(s) \/ Invalidate(s) \/ PreviewVoice(s) \/ UploadVoice(s) \/ VoiceRead(s)
             \/ SaveScript(s) \/ ApproveScript(s) \/ SaveStoryboard(s) \/ BoardRead(s)
      PROVE  Calm /\ DraftOK'
  <2>1. UNCHANGED <<draft, scheduled>>
    BY <1>6 DEF EditRead, Invalidate, PreviewVoice, UploadVoice, VoiceRead, SaveScript, ApproveScript,
                SaveStoryboard, BoardRead, history
  <2>2. Out
    <3>1. CASE PreviewVoice(s) \/ UploadVoice(s)
      BY <3>1, <1>b DEF PreviewVoice, UploadVoice
    <3>2. CASE EditRead(s) \/ Invalidate(s) \/ VoiceRead(s) \/ BoardRead(s)
      BY <3>2, <1>c DEF EditRead, Invalidate, VoiceRead, BoardRead
    <3>3. CASE SaveScript(s) \/ ApproveScript(s) \/ SaveStoryboard(s)
      BY <3>3, <1>c DEF SaveScript, ApproveScript, SaveStoryboard, Downstream
    <3> QED
      BY <1>6, <3>1, <3>2, <3>3
  <2> QED
    BY <2>1, <2>2, <1>d
<1>7. ASSUME NEW s \in Session,
             \/ BoardRecord(s) \/ LookRead(s) \/ LookApprove(s) \/ LookRecord(s)
             \/ PilotRead(s) \/ PilotRecord(s) \/ RejectPilot(s) \/ PilotSettle(s)
      PROVE  Calm /\ DraftOK'
  <2>1. UNCHANGED <<draft, scheduled>>
    BY <1>7 DEF BoardRecord, LookRead, LookApprove, LookRecord, PilotRead, PilotRecord, RejectPilot,
                PilotSettle, history
  <2>2. Out
    <3>1. CASE BoardRecord(s) \/ LookRead(s) \/ LookApprove(s) \/ LookRecord(s)
      BY <3>1, <1>c DEF BoardRecord, LookRead, LookApprove, LookRecord, Downstream, Done
    <3>2. CASE PilotRead(s) \/ PilotRecord(s) \/ RejectPilot(s) \/ PilotSettle(s)
      BY <3>2, <1>c DEF PilotRead, PilotRecord, RejectPilot, PilotSettle, Done
    <3> QED
      BY <1>7, <3>1, <3>2
  <2> QED
    BY <2>1, <2>2, <1>d
<1>8. ASSUME NEW s \in Session,
             PreflightRead(s) \/ PreflightBlocked(s) \/ StartGate(s) \/ StartRead(s) \/ Continue(s)
      PROVE  Calm /\ DraftOK'
  <2>1. UNCHANGED <<draft, scheduled>>
    BY <1>8 DEF PreflightRead, PreflightBlocked, StartGate, StartRead, Continue, history
  <2>2. Out
    BY <1>8, <1>c DEF PreflightRead, PreflightBlocked, StartGate, StartRead, Continue, Done
  <2> QED
    BY <2>1, <2>2, <1>d
<1> QED
  BY <1>0, <1>1, <1>2, <1>3, <1>4, <1>5, <1>6, <1>7, <1>8 DEF Next, Step

----------------------------------------------------------------------------
\* One run for one draft.
LEMMA CalmStart ==
  ASSUME TypeInv, StartInv, ScheduledOnce, Calm
  PROVE  StartInv' /\ ScheduledOnce'
<1>1. /\ start \in {"IDLE", "RUNNING", "FAILED_RETRYABLE", "NEEDS_RECONCILIATION", "SUCCEEDED"}
      /\ (Editable => start \in {"IDLE", "FAILED_RETRYABLE"})
  BY TypeFacts DEF Editable
<1>2. ScheduledOnce'
  BY <1>1 DEF ScheduledOnce, Calm
<1>3. ASSUME NEW s \in Session, Starting(s)'
      PROVE  /\ at'[s] = at[s] /\ mem'[s] = mem[s] /\ Starting(s)
             /\ start' = start /\ scheduled' = scheduled
  <2>1. at'[s] = at[s] /\ mem'[s] = mem[s] /\ Starting(s)
    BY <1>3 DEF Calm, Starting
  <2>2. start \in {"RUNNING", "SUCCEEDED"}
    BY <2>1 DEF StartInv
  <2> QED
    BY <1>1, <2>1, <2>2 DEF Calm
<1>4. ASSUME NEW s \in Session
      PROVE  /\ Starting(s)' => start' = "RUNNING" \/ (start' = "SUCCEEDED" /\ Uncertain(s)')
             /\ at'[s] = "create" => scheduled' = 0
             /\ at'[s] = "finish" => scheduled' = 1
             /\ at'[s] = "fail" => scheduled' = IF Uncertain(s)' THEN 1 ELSE 0
  <2>1. CASE Starting(s)'
    BY <1>3, <2>1 DEF StartInv, Uncertain
  <2>2. CASE ~Starting(s)'
    BY <2>2 DEF Starting
  <2> QED
    BY <2>1, <2>2
<1>5. ASSUME NEW s \in Session, NEW t \in Session, Starting(s)', Starting(t)'
      PROVE  s = t
  BY <1>3, <1>5 DEF StartInv
<1> QED
  BY <1>2, <1>4, <1>5 DEF StartInv, Calm

LEMMA ClaimStarts ==
  ASSUME TypeInv, StartInv, ScheduledOnce, NEW s \in Session, Claim(s)
  PROVE  StartInv' /\ ScheduledOnce' /\ DraftOK'
<1>1. /\ at \in [Session -> Label] /\ at[s] = "claim"
      /\ UNCHANGED <<brief, status, preflight, scheduled>>
  BY DEF Claim, TypeInv, LocalInv, history
<1>2. CASE ~Claimable(mem[s].brief)
  <2>1. start' = start /\ Done(s)
    BY <1>2 DEF Claim
  <2>2. Calm
    BY <1>1, <2>1, StaysOut DEF Calm, Done
  <2> QED
    BY <1>1, <2>1, <2>2, CalmStart, TypeFacts DEF DraftOK
<1>3. CASE Claimable(mem[s].brief)
  <2>1. /\ start' = "RUNNING" /\ at' = [at EXCEPT ![s] = "create"]
        /\ Editable /\ status = "PREFLIGHT_READY"
    BY <1>3 DEF Claim, Claimable, Go
  <2>2. /\ start \in {"IDLE", "FAILED_RETRYABLE"} /\ scheduled = 0
        /\ \A t \in Session : ~Starting(t)
    BY <2>1, TypeFacts DEF Editable, StartInv, ScheduledOnce
  <2>3. at'[s] = "create" /\ \A t \in Session \ {s} : ~Starting(t)'
    BY <1>1, <2>1, <2>2 DEF Starting
  <2>4. \A t \in Session : Starting(t)' => t = s /\ at'[t] = "create"
    BY <2>3
  <2>5. StartInv'
    BY <1>1, <2>1, <2>2, <2>4 DEF StartInv, Starting
  <2>6. ScheduledOnce'
    BY <1>1, <2>1, <2>2 DEF ScheduledOnce
  <2> QED
    BY <1>1, <2>1, <2>5, <2>6, TypeFacts DEF DraftOK
<1> QED
  BY <1>2, <1>3

\* What a session behind a claim does.  It is the only one, so that what becomes
\* of it is all there is to say.
LEMMA StartEnds ==
  ASSUME TypeInv, StartInv, ScheduledOnce, NEW s \in Session,
         Create(s) \/ FinishSuccess(s) \/ FinishFailure(s)
  PROVE  StartInv' /\ ScheduledOnce' /\ DraftOK'
<1>a. /\ at \in [Session -> Label] /\ mem \in [Session -> Memory]
      /\ at[s] = "fail" => mem[s].rev \in Boundary
  BY Held DEF TypeInv, LocalInv
<1>b. Starting(s) /\ \A t \in Session \ {s} : ~Starting(t)
  BY DEF Create, FinishSuccess, FinishFailure, Starting, StartInv
<1>c. ASSUME NEW l, NEW m, Go(s, l, m)
      PROVE  /\ at'[s] = l /\ mem'[s] = m
             /\ \A t \in Session : Starting(t)' => t = s
  BY <1>a, <1>b, <1>c DEF Go, Starting
<1>d. /\ DraftOK /\ scheduled \in Nat
      /\ start = "RUNNING" \/ (start = "SUCCEEDED" /\ Uncertain(s))
      /\ at[s] = "create" => scheduled = 0
      /\ at[s] = "finish" => scheduled = 1
      /\ at[s] = "fail" => scheduled = IF Uncertain(s) THEN 1 ELSE 0
  BY <1>b, TypeFacts DEF DraftOK, StartInv
<1>e. ASSUME \A t \in Session : Starting(t)' => t = s, scheduled' \in {0, 1},
             scheduled' = 1 => start' \in {"RUNNING", "NEEDS_RECONCILIATION", "SUCCEEDED"},
             Starting(s)' => start' = "RUNNING" \/ (start' = "SUCCEEDED" /\ Uncertain(s)'),
             at'[s] = "create" => scheduled' = 0,
             at'[s] = "finish" => scheduled' = 1,
             at'[s] = "fail" => scheduled' = IF Uncertain(s)' THEN 1 ELSE 0
      PROVE  StartInv' /\ ScheduledOnce'
  <2>1. \A t \in Session : at'[t] \in {"create", "finish", "fail"} => t = s
    BY <1>e DEF Starting
  <2> QED
    BY <1>e, <2>1 DEF StartInv, ScheduledOnce
<1>f. \A r \in Boundary : [mem[s] EXCEPT !.rev = r].rev = r
  BY <1>a DEF Memory
<1>1. CASE Create(s)
  <2>1. at[s] = "create" /\ scheduled = 0 /\ start = "RUNNING" /\ UNCHANGED draft
    BY <1>1, <1>d DEF Create, Uncertain
  <2>2. ASSUME NEW r \in {"NOT_CROSSED", "CANONICAL_CREATED"},
               Go(s, "fail", [mem[s] EXCEPT !.rev = r]), scheduled' = 0
        PROVE  StartInv' /\ ScheduledOnce'
    <3>1. at'[s] = "fail" /\ mem'[s].rev = r /\ \A t \in Session : Starting(t)' => t = s
      BY <2>2, <1>c, <1>f DEF Boundary
    <3> QED
      BY <2>1, <2>2, <3>1, <1>e DEF Uncertain, draft
  <2>3. ASSUME Go(s, "finish", mem[s]), scheduled' = 1
        PROVE  StartInv' /\ ScheduledOnce'
    <3>1. at'[s] = "finish" /\ \A t \in Session : Starting(t)' => t = s
      BY <2>3, <1>c
    <3> QED
      BY <2>1, <2>3, <3>1, <1>e DEF draft
  <2>4. \/ \E r \in {"NOT_CROSSED", "CANONICAL_CREATED"} :
             Go(s, "fail", [mem[s] EXCEPT !.rev = r]) /\ scheduled' = 0
        \/ Go(s, "finish", mem[s]) /\ scheduled' = 1
    BY <1>1, <2>1 DEF Create
  <2> QED
    BY <1>d, <2>1, <2>2, <2>3, <2>4 DEF DraftOK, draft
<1>2. CASE FinishSuccess(s)
  <2>1. at[s] = "finish" /\ scheduled = 1 /\ start = "RUNNING" /\ UNCHANGED <<brief, preflight, scheduled>>
    BY <1>2, <1>d DEF FinishSuccess, history, Uncertain
  <2>2. /\ \/ Go(s, "continue", mem[s]) /\ start' = "SUCCEEDED"
           \/ /\ Go(s, "fail", [mem[s] EXCEPT !.rev = "MAY_HAVE_STARTED"])
              /\ start' \in {"RUNNING", "SUCCEEDED"}
        /\ \/ UNCHANGED <<status, start>>
           \/ status' = "STARTED" /\ start' = "SUCCEEDED" /\ preflight # None
    BY <1>2, <2>1 DEF FinishSuccess
  <2>3. DraftOK'
    BY <1>d, <2>1, <2>2 DEF DraftOK
  <2>4. CASE Go(s, "continue", mem[s]) /\ start' = "SUCCEEDED"
    <3>1. at'[s] = "continue" /\ \A t \in Session : Starting(t)' => t = s
      BY <2>4, <1>c
    <3> QED
      BY <2>1, <2>3, <2>4, <3>1, <1>e DEF Starting
  <2>5. CASE Go(s, "fail", [mem[s] EXCEPT !.rev = "MAY_HAVE_STARTED"]) /\ start' \in {"RUNNING", "SUCCEEDED"}
    <3>1. at'[s] = "fail" /\ mem'[s].rev = "MAY_HAVE_STARTED" /\ \A t \in Session : Starting(t)' => t = s
      BY <2>5, <1>c, <1>f DEF Boundary
    <3> QED
      BY <2>1, <2>3, <2>5, <3>1, <1>e DEF Uncertain
  <2> QED
    BY <2>2, <2>4, <2>5
<1>3. CASE FinishFailure(s)
  <2>1. /\ at[s] = "fail" /\ Done(s)
        /\ start' = IF start = "RUNNING" THEN FailureState(mem[s].rev) ELSE start
        /\ UNCHANGED <<brief, status, preflight, scheduled>>
    BY <1>3 DEF FinishFailure, history
  <2>2. at'[s] = "ready" /\ \A t \in Session : Starting(t)' => t = s
    BY <2>1, <1>c DEF Done
  <2>3. /\ start' \in {"FAILED_RETRYABLE", "NEEDS_RECONCILIATION", "SUCCEEDED"}
        /\ start' = "SUCCEEDED" => start = "SUCCEEDED"
        /\ start = "SUCCEEDED" => start' = "SUCCEEDED"
        /\ scheduled' = 1 => start' # "FAILED_RETRYABLE"
        /\ scheduled' \in {0, 1}
    BY <1>a, <1>d, <2>1 DEF FailureState, Boundary, Uncertain
  <2>4. DraftOK'
    BY <1>d, <2>1, <2>3 DEF DraftOK
  <2> QED
    BY <2>2, <2>3, <2>4, <1>e DEF Starting
<1> QED
  BY <1>1, <1>2, <1>3

LEMMA StartStep ==
  ASSUME TypeInv, StartInv, ScheduledOnce, [Next]_vars
  PROVE  StartInv' /\ ScheduledOnce' /\ DraftOK'
<1>1. ASSUME NEW s \in Session, Crash(s)
      PROVE  StartInv' /\ ScheduledOnce' /\ DraftOK'
  <2>1. UNCHANGED <<draft, scheduled>> /\ Go(s, "ready", Idle)
    BY <1>1 DEF Crash, Done
  <2>2. Calm
    BY <2>1, StaysOut DEF Calm, draft
  <2> QED
    BY <2>1, <2>2, CalmStart, TypeFacts DEF DraftOK, draft
<1>2. CASE Calm /\ DraftOK'
  BY <1>2, CalmStart
<1>3. ASSUME NEW s \in Session, Create(s) \/ FinishSuccess(s) \/ FinishFailure(s)
      PROVE  StartInv' /\ ScheduledOnce' /\ DraftOK'
  BY <1>3, StartEnds
<1>4. ASSUME NEW s \in Session, Claim(s)
      PROVE  StartInv' /\ ScheduledOnce' /\ DraftOK'
  BY <1>4, ClaimStarts
<1> QED
  BY <1>1, <1>2, <1>3, <1>4, StepKinds

\* Whether there is evidence of a voice.
LEMMA VoicedStep ==
  ASSUME [Next]_vars
  PROVE  voiced' = voiced \/ voiced' = TRUE
<1>1. ASSUME NEW s \in Session, PreviewVoice(s) \/ UploadVoice(s)
      PROVE  voiced' = TRUE
  BY <1>1 DEF PreviewVoice, UploadVoice
<1>2. ASSUME NEW s \in Session,
             \/ EditRead(s) \/ Edit(s) \/ Invalidate(s) \/ Reset(s) \/ VoiceRead(s) \/ VoiceApprove(s)
             \/ SaveScript(s) \/ ApproveScript(s) \/ SaveStoryboard(s)
             \/ BoardRead(s) \/ BoardBind(s) \/ BoardRecord(s)
      PROVE  voiced' = voiced
  BY <1>2 DEF EditRead, Edit, Invalidate, Reset, VoiceRead, VoiceApprove, SaveScript, ApproveScript,
              SaveStoryboard, BoardRead, BoardBind, BoardRecord, revisions
<1>3. ASSUME NEW s \in Session,
             \/ LookRead(s) \/ LookApprove(s) \/ LookBind(s) \/ LookRecord(s)
             \/ PilotRead(s) \/ PilotRecord(s) \/ RejectPilot(s) \/ PilotSettle(s)
      PROVE  voiced' = voiced
  BY <1>3 DEF LookRead, LookApprove, LookBind, LookRecord, PilotRead, PilotRecord, RejectPilot, PilotSettle,
              revisions
<1>4. ASSUME NEW s \in Session,
             \/ PreflightRead(s) \/ Reselect(s) \/ PreflightBlocked(s) \/ PreflightSave(s)
             \/ StartGate(s) \/ StartRead(s) \/ Claim(s) \/ Create(s)
             \/ FinishSuccess(s) \/ FinishFailure(s) \/ Continue(s) \/ Crash(s)
      PROVE  voiced' = voiced
  BY <1>4 DEF PreflightRead, Reselect, PreflightBlocked, PreflightSave, StartGate, StartRead, Claim, Create,
              FinishSuccess, FinishFailure, Continue, Crash, revisions
<1>5. ASSUME NEW s \in Session,
             StillCheck(s) \/ StillStore(s) \/ FilmCheck(s) \/ FilmClaim(s) \/ FilmFinish(s) \/ FilmRecord(s)
      PROVE  voiced' = voiced
  BY <1>5 DEF StillCheck, StillStore, FilmCheck, FilmClaim, FilmFinish, FilmRecord, revisions
<1> QED
  BY <1>1, <1>2, <1>3, <1>4, <1>5 DEF Next, Step, vars, revisions

LEMMA NextTypeInv ==
  ASSUME TypeInv, StartInv, ScheduledOnce, [Next]_vars
  PROVE  TypeInv'
<1>1. DraftOK'
  BY StartStep
<1>2. LocalInv' /\ StageInv' /\ EventInv' /\ \A st \in Stage : granted'[st] \subseteq Subject(st)
  BY NextLocal, NextStages, NextEventInv
<1>3. /\ ToSet(flows') \subseteq Locked
      /\ \A k \in 1 .. Len(frames') : frames'[k].flow \in 1 .. Len(flows')
      /\ \A i \in 1 .. Len(pilots') : pilots'[i].keyframe \in 1 .. Len(frames')
  BY <1>2 DEF StageInv, Passed, ToSet
<1>4. voiced' \in BOOLEAN
  BY VoicedStep DEF TypeInv, TypeOK
<1> QED
  BY <1>1, <1>2, <1>3, <1>4, RevisionsStep DEF TypeInv, TypeOK, DraftOK

----------------------------------------------------------------------------
\* The storyboard, the script and the brief.
LEMMA Others ==
  ASSUME TypeInv, NEW s \in Session, NEW l, NEW m, Go(s, l, m)
  PROVE  /\ at'[s] = l /\ mem'[s] = m
         /\ \A t \in Session \ {s} : at'[t] = at[t] /\ mem'[t] = mem[t]
BY DEF TypeInv, LocalInv, Go

LEMMA DisturbedStays ==
  ASSUME [Next]_vars, disturbed
  PROVE  disturbed'
<1>1. ASSUME NEW s \in Session, Edit(s) \/ VoiceApprove(s) \/ BoardBind(s) \/ LookBind(s) \/ Reselect(s)
                                \/ PreflightSave(s)
      PROVE  disturbed'
  BY <1>1 DEF Edit, VoiceApprove, BoardBind, LookBind, Reselect, PreflightSave, Blind
<1>2. ASSUME NEW s \in Session, BoardRecord(s) \/ PilotRecord(s) \/ Crash(s)
      PROVE  disturbed'
  BY <1>2 DEF BoardRecord, PilotRecord, Crash
<1>3. ASSUME NEW s \in Session,
             \/ EditRead(s) \/ Invalidate(s) \/ Reset(s) \/ PreviewVoice(s) \/ UploadVoice(s)
             \/ VoiceRead(s) \/ SaveScript(s) \/ ApproveScript(s) \/ SaveStoryboard(s) \/ BoardRead(s)
             \/ LookRead(s) \/ LookApprove(s) \/ LookRecord(s) \/ PilotRead(s) \/ RejectPilot(s)
             \/ PilotSettle(s)
      PROVE  disturbed'
  BY <1>3 DEF EditRead, Invalidate, Reset, PreviewVoice, UploadVoice, VoiceRead, SaveScript, ApproveScript,
              SaveStoryboard, BoardRead, LookRead, LookApprove, LookRecord, PilotRead, RejectPilot,
              PilotSettle, history
<1>4. ASSUME NEW s \in Session,
             \/ PreflightRead(s) \/ PreflightBlocked(s) \/ StartGate(s) \/ StartRead(s) \/ Claim(s)
             \/ Create(s) \/ FinishSuccess(s) \/ FinishFailure(s) \/ Continue(s)
      PROVE  disturbed'
  BY <1>4 DEF PreflightRead, PreflightBlocked, StartGate, StartRead, Claim, Create, FinishSuccess,
              FinishFailure, Continue, history
<1>5. ASSUME NEW s \in Session,
             StillCheck(s) \/ StillStore(s) \/ FilmCheck(s) \/ FilmClaim(s) \/ FilmFinish(s) \/ FilmRecord(s)
      PROVE  disturbed'
  BY <1>5 DEF StillCheck, StillStore, FilmCheck, FilmClaim, FilmFinish, FilmRecord, history
<1> QED
  BY <1>1, <1>2, <1>3, <1>4, <1>5 DEF Next, Step, vars, history

\* What a session that is not Midway through one of these leaves waiting.
LEMMA WaitsOn ==
  ASSUME TypeInv, NEW s \in Session, NEW l, NEW m, Go(s, l, m)
  PROVE  /\ at[s] # "boardRecord" /\ (at[s] = "invalidate" => ~(mem[s].from <= 2)) => (Binding => Binding')
         /\ at[s] = "invalidate" => (\A k : Looking(k) => Looking(k)')
         /\ at[s] \notin {"lookBind", "lookRecord"} => (\A k : Looking(k) => Looking(k)')
         /\ (at[s] = "invalidate" => ~(mem[s].from <= 4)) => (Withdrawing => Withdrawing')
BY Others DEF Binding, Looking, Withdrawing

LEMMA NobodyMoves ==
  ASSUME UNCHANGED local
  PROVE  Binding' = Binding /\ (\A k : Looking(k)' = Looking(k)) /\ Withdrawing' = Withdrawing
BY DEF Binding, Looking, Withdrawing, local

BoardKept ==
  /\ scripts' = scripts /\ boards' = boards
  /\ events'["SCRIPT"] = events["SCRIPT"] /\ events'["STORYBOARD"] = events["STORYBOARD"]
  /\ disturbed' \/ brief'.board = brief.board
  /\ Binding => Binding' \/ disturbed'

LEMMA StepBoard ==
  ASSUME TypeInv, [Next]_vars
  PROVE  \/ BoardKept \/ Binding'
         \/ \E s \in Session : Invalidate(s) \/ SaveStoryboard(s) \/ BoardRecord(s)
<1>a. UNCHANGED local => (Binding => Binding')
  BY NobodyMoves
<1>b. ASSUME NEW s \in Session, \E l : \E m : Go(s, l, m), at[s] # "boardRecord",
             at[s] = "invalidate" => ~(mem[s].from <= 2)
      PROVE  Binding => Binding'
  BY <1>b, WaitsOn
<1>c. ASSUME NEW s \in Session, NEW n \in 1 .. 2, Downstream(s, n)
      PROVE  Binding'
  <2> DEFINE m == [Idle EXCEPT !.from = n]
  <2>1. m.from = n
    BY DEF Idle
  <2> HIDE DEF m
  <2>2. Go(s, "invalidate", m)
    BY <1>c DEF Downstream, m
  <2> QED
    BY <2>1, <2>2, Others DEF Binding
<1>0. CASE UNCHANGED vars
  BY <1>0, <1>a DEF vars, draft, revisions, approvals, local, BoardKept
<1>1. ASSUME NEW s \in Session,
             StillCheck(s) \/ StillStore(s) \/ FilmCheck(s) \/ FilmClaim(s) \/ FilmFinish(s) \/ FilmRecord(s)
      PROVE  BoardKept
  <2>1. UNCHANGED <<brief, revisions, approvals>>
    BY <1>1 DEF StillCheck, StillStore, FilmCheck, FilmClaim, FilmFinish, FilmRecord, draft, Write
  <2>2. (\E l : \E m : Go(s, l, m)) /\ at[s] \notin {"boardRecord", "invalidate"}
    BY <1>1 DEF StillCheck, StillStore, FilmCheck, FilmClaim, FilmFinish, FilmRecord, Done
  <2> QED
    BY <2>1, <2>2, <1>b DEF revisions, approvals, BoardKept
<1>2. ASSUME NEW s \in Session,
             \/ EditRead(s) \/ VoiceRead(s) \/ BoardRead(s) \/ LookRead(s) \/ LookApprove(s) \/ PilotRead(s)
             \/ PilotSettle(s)
      PROVE  BoardKept
  <2>1. UNCHANGED <<draft, revisions, approvals>>
    BY <1>2 DEF EditRead, VoiceRead, BoardRead, LookRead, LookApprove, PilotRead, PilotSettle
  <2>2. (\E l : \E m : Go(s, l, m)) /\ at[s] \notin {"boardRecord", "invalidate"}
    BY <1>2 DEF EditRead, VoiceRead, BoardRead, LookRead, LookApprove, PilotRead, PilotSettle, Done
  <2> QED
    BY <2>1, <2>2, <1>b DEF draft, revisions, approvals, BoardKept
<1>3. ASSUME NEW s \in Session,
             \/ PreflightRead(s) \/ PreflightBlocked(s) \/ StartGate(s) \/ StartRead(s)
             \/ Claim(s) \/ Create(s) \/ FinishSuccess(s) \/ FinishFailure(s) \/ Continue(s)
      PROVE  BoardKept
  <2>1. UNCHANGED <<brief, revisions, approvals>>
    BY <1>3 DEF PreflightRead, PreflightBlocked, StartGate, StartRead, Claim, Create, FinishSuccess,
                FinishFailure, Continue, draft
  <2>2. (\E l : \E m : Go(s, l, m)) /\ at[s] \notin {"boardRecord", "invalidate"}
    BY <1>3 DEF PreflightRead, PreflightBlocked, StartGate, StartRead, Claim, Create, FinishSuccess,
                FinishFailure, Continue, Done
  <2> QED
    BY <2>1, <2>2, <1>b DEF revisions, approvals, BoardKept
<1>4. ASSUME NEW s \in Session, PreviewVoice(s) \/ UploadVoice(s)
      PROVE  BoardKept
  BY <1>4, <1>a DEF PreviewVoice, UploadVoice, draft, approvals, BoardKept
<1>5. ASSUME NEW s \in Session, VoiceApprove(s) \/ Reselect(s) \/ PreflightSave(s)
      PROVE  BoardKept
  <2>1. UNCHANGED <<revisions, approvals>> /\ (disturbed' \/ brief' = brief)
    BY <1>5 DEF VoiceApprove, Reselect, PreflightSave, Write, Blind, draft
  <2>2. (UNCHANGED local \/ \E l : \E m : Go(s, l, m)) /\ at[s] \notin {"boardRecord", "invalidate"}
    BY <1>5 DEF VoiceApprove, Reselect, PreflightSave, Done
  <2> QED
    BY <2>1, <2>2, <1>a, <1>b DEF revisions, approvals, BoardKept
<1>6. ASSUME NEW s \in Session, LookBind(s)
      PROVE  BoardKept
  <2>1. UNCHANGED <<revisions, approvals>> /\ at[s] = "lookBind" /\ \E l : \E m : Go(s, l, m)
    BY <1>6 DEF LookBind, Done
  <2>2. disturbed' \/ brief' = brief \/ brief' = [brief EXCEPT !.look = mem[s].rev]
    BY <1>6 DEF LookBind, Write, Blind, draft
  <2>3. [brief EXCEPT !.look = mem[s].rev].board = brief.board
    BY TypeFacts DEF Brief
  <2> QED
    BY <2>1, <2>2, <2>3, <1>b DEF revisions, approvals, BoardKept
<1>7. ASSUME NEW s \in Session, LookRecord(s) \/ PilotRecord(s) \/ RejectPilot(s)
      PROVE  BoardKept
  <2>1. /\ UNCHANGED <<draft, revisions>> /\ at[s] \notin {"boardRecord", "invalidate"}
        /\ \E l : \E m : Go(s, l, m)
    BY <1>7 DEF LookRecord, PilotRecord, RejectPilot, Downstream
  <2>2. \E stage \in {"LOOK", "PILOT"} : \E decision, subject : Record(stage, decision, subject)
    BY <1>7 DEF LookRecord, PilotRecord, RejectPilot
  <2>3. events'["SCRIPT"] = events["SCRIPT"] /\ events'["STORYBOARD"] = events["STORYBOARD"]
    BY <2>2, Stages DEF Record, TypeInv, EventInv, approvals
  <2> QED
    BY <2>1, <2>3, <1>b DEF draft, revisions, BoardKept
<1>8. ASSUME NEW s \in Session, Reset(s)
      PROVE  BoardKept
  <2>1. mem[s].from \in 1 .. 5 /\ mem[s].from > 4
    BY <1>8, Held, Stages DEF Reset
  <2>2. UNCHANGED <<brief, revisions, approvals>> /\ at[s] = "invalidate" /\ \E l : \E m : Go(s, l, m)
    BY <1>8 DEF Reset, Write, draft, Done
  <2>3. ~(mem[s].from <= 2)
    BY <2>1
  <2> QED
    BY <2>2, <2>3, <1>b DEF revisions, approvals, BoardKept
<1>9. ASSUME NEW s \in Session, Crash(s)
      PROVE  BoardKept
  <2>1. UNCHANGED <<draft, revisions, approvals>> /\ \E l : \E m : Go(s, l, m)
    BY <1>9 DEF Crash, Done
  <2>2. at[s] \in {"boardRecord", "invalidate"} => disturbed'
    BY <1>9 DEF Crash, Midway
  <2> QED
    BY <2>1, <2>2, <1>b DEF draft, revisions, approvals, BoardKept
<1>10. ASSUME NEW s \in Session, SaveScript(s) \/ ApproveScript(s)
       PROVE  Binding'
  BY <1>10, <1>c DEF SaveScript, ApproveScript
<1>11. ASSUME NEW s \in Session, BoardBind(s)
       PROVE  BoardKept \/ Binding'
  <2>1. CASE Editable
    <3>1. \E m : Go(s, "boardRecord", m)
      BY <1>11, <2>1 DEF BoardBind
    <3> QED
      BY <3>1, Others DEF Binding
  <2>2. CASE ~Editable
    <3>1. UNCHANGED <<draft, revisions, approvals>> /\ at[s] = "boardBind" /\ \E l : \E m : Go(s, l, m)
      BY <1>11, <2>2 DEF BoardBind, Done
    <3> QED
      BY <3>1, <1>b DEF draft, revisions, approvals, BoardKept
  <2> QED
    BY <2>1, <2>2
<1>12. ASSUME NEW s \in Session, Edit(s)
       PROVE  BoardKept \/ Binding'
  <2>1. UNCHANGED <<revisions, approvals>> /\ at[s] = "edit"
    BY <1>12 DEF Edit
  <2>2. CASE ~Editable
    <3>1. UNCHANGED draft /\ \E l : \E m : Go(s, l, m)
      BY <1>12, <2>2 DEF Edit, Done
    <3> QED
      BY <2>1, <3>1, <1>b DEF draft, revisions, approvals, BoardKept
  <2>3. CASE Editable
    <3>1. PICK b \in Brief :
            /\ brief' = b
            /\ Blind(IF mem[s].brief # None THEN mem[s].brief ELSE b)
            /\ LET first == FirstStale(mem[s].brief, b)
               IN IF first = 0 THEN Done(s) ELSE Downstream(s, first)
      BY <1>12, <2>3 DEF Edit, Write
    <3>2. FirstStale(mem[s].brief, b) \in {0, 1, 2}
      BY DEF FirstStale
    <3>3. CASE FirstStale(mem[s].brief, b) # 0
      BY <3>1, <3>2, <3>3, <1>c
    <3>4. CASE FirstStale(mem[s].brief, b) = 0
      <4>1. \E l : \E m : Go(s, l, m)
        BY <3>1, <3>4 DEF Done
      <4>2. CASE mem[s].brief = None
        <5>1. disturbed' \/ b = brief
          BY <3>1, <4>2 DEF Blind
        <5> QED
          BY <2>1, <3>1, <4>1, <5>1, <1>b DEF revisions, approvals, BoardKept
      <4>3. CASE mem[s].brief # None
        <5>1. disturbed' \/ mem[s].brief = brief
          BY <3>1, <4>3 DEF Blind
        <5>2. mem[s].brief.board = b.board
          BY <3>4, <4>3 DEF FirstStale
        <5> QED
          BY <2>1, <3>1, <4>1, <5>1, <5>2, <1>b DEF revisions, approvals, BoardKept
      <4> QED
        BY <4>2, <4>3
    <3> QED
      BY <3>3, <3>4
  <2> QED
    BY <2>2, <2>3
<1> QED
  BY <1>0, <1>1, <1>2, <1>3, <1>4, <1>5, <1>6, <1>7, <1>8, <1>9, <1>10, <1>11, <1>12 DEF Next, Step

LEMMA NextBoardInv ==
  ASSUME TypeInv, BoardInv, [Next]_vars
  PROVE  BoardInv'
<1>a. disturbed => disturbed'
  BY DisturbedStays
<1>b. /\ "SCRIPT" \in Stage /\ "STORYBOARD" \in Stage
      /\ EventInv
      /\ \A s \in Session : mem[s] \in Memory
  BY Stages DEF TypeInv, LocalInv
<1>1. CASE BoardKept
  BY <1>1, <1>a DEF BoardKept, BoardInv, Approved
<1>2. CASE Binding'
  BY <1>2 DEF BoardInv
<1>3. ASSUME NEW s \in Session, Invalidate(s)
      PROVE  BoardInv'
  <2>1. mem[s].from \in 1 .. 4
    BY <1>3, Held, Stages DEF Invalidate
  <2> DEFINE stage == STAGE_ORDER[mem[s].from]
             m == [mem[s] EXCEPT !.from = mem[s].from + 1]
  <2>2. /\ UNCHANGED <<draft, revisions, disturbed>> /\ at[s] = "invalidate"
        /\ Go(s, "invalidate", m)
        /\ IF events[stage].decision = "APPROVED"
           THEN Record(stage, "INVALIDATED", events[stage].subject) ELSE UNCHANGED approvals
    BY <1>3 DEF Invalidate, history
  <2>3. stage \in Stage
    BY <2>1, Stages
  <2>4. events[stage].subject \in Anything
    BY <1>b, <2>3 DEF EventInv
  <2>5. /\ events'[stage].decision # "APPROVED"
        /\ \A st \in Stage \ {stage} : events'[st] = events[st]
    <3> HIDE DEF stage
    <3>1. CASE events[stage].decision = "APPROVED"
      BY <2>2, <2>3, <2>4, <3>1, RecordEffect
    <3>2. CASE events[stage].decision # "APPROVED"
      BY <2>2, <2>3, <3>2 DEF approvals
    <3> QED
      BY <3>1, <3>2
  <2>6. CASE mem[s].from = 1
    <3>1. m.from = 2
      BY <1>b, <2>6 DEF Memory
    <3> HIDE DEF m
    <3>2. Binding'
      BY <2>2, <3>1, Others DEF Binding
    <3> QED
      BY <3>2 DEF BoardInv
  <2>7. CASE mem[s].from = 2
    <3>1. stage = "STORYBOARD"
      BY <2>7, Stages
    <3> QED
      BY <2>5, <3>1 DEF BoardInv, Approved
  <2>8. CASE mem[s].from \in {3, 4}
    <3>1. stage \in {"LOOK", "PILOT"} /\ ~(mem[s].from <= 2)
      BY <2>8, Stages
    <3>2. Binding => Binding'
      BY <2>2, <3>1, WaitsOn
    <3>3. events'["SCRIPT"] = events["SCRIPT"] /\ events'["STORYBOARD"] = events["STORYBOARD"]
      BY <1>b, <2>5, <3>1
    <3> QED
      BY <2>2, <3>2, <3>3, <1>1 DEF BoardKept, draft, revisions
  <2> QED
    BY <2>1, <2>6, <2>7, <2>8
<1>4. ASSUME NEW s \in Session, SaveStoryboard(s)
      PROVE  BoardInv'
  <2>1. /\ UNCHANGED <<draft, scripts, approvals, disturbed>> /\ at[s] = "ready"
        /\ \E l : \E m : Go(s, l, m)
    BY <1>4 DEF SaveStoryboard, Downstream, history
  <2>2. Binding => Binding'
    BY <2>1, WaitsOn
  <2>3. Approved("SCRIPT")
    BY <1>4, Gates DEF SaveStoryboard
  <2>4. \/ boards' = boards
        \/ \E b \in Storyboard : b \notin ToSet(boards) /\ boards' = Append(boards, b)
    BY <1>4, <2>3, Drafted DEF SaveStoryboard
  <2>5. CASE boards' = boards
    BY <2>1, <2>2, <2>5, <1>1 DEF BoardKept, draft, approvals
  <2>6. ASSUME NEW b \in Storyboard, b \notin ToSet(boards), boards' = Append(boards, b)
        PROVE  BoardInv'
    <3>1. Last(boards') = b
      BY <2>6, TypeFacts, Appended
    <3>2. events["STORYBOARD"].decision = "APPROVED" => events["STORYBOARD"].subject # b
      BY <1>b, <2>6 DEF EventInv
    <3> QED
      BY <2>1, <3>1, <3>2 DEF BoardInv, Approved, approvals
  <2> QED
    BY <2>4, <2>5, <2>6
<1>5. ASSUME NEW s \in Session, BoardRecord(s)
      PROVE  BoardInv'
  <2>1. /\ at[s] = "boardRecord" /\ Record("STORYBOARD", "APPROVED", mem[s].rev)
        /\ UNCHANGED <<draft, revisions>>
        /\ disturbed' = (disturbed \/ events["SCRIPT"].subject # mem[s].rev.script
                                   \/ brief.board # mem[s].rev.board
                                   \/ Reused("STORYBOARD", mem[s].rev))
    BY <1>5 DEF BoardRecord
  <2>2. mem[s].rev \in ToSet(boards) /\ mem[s].rev \in Anything
    BY <2>1, Held, TypeFacts DEF Anything
  <2>3. /\ events'["SCRIPT"] = events["SCRIPT"]
        /\ \/ mem[s].rev \in granted["STORYBOARD"] /\ UNCHANGED approvals
           \/ events'["STORYBOARD"].subject = mem[s].rev
    BY <1>b, <2>1, <2>2, RecordEffect
  <2>4. disturbed' \/ events'["STORYBOARD"].subject = mem[s].rev
    BY <2>1, <2>3 DEF Reused, approvals
  <2> QED
    BY <2>1, <2>3, <2>4 DEF BoardInv, draft
<1> QED
  BY <1>1, <1>2, <1>3, <1>4, <1>5, StepBoard

LEMMA BoardCoherent ==
  ASSUME BoardInv
  PROVE  GateIsCoherentUnlessDisturbed
BY Gates DEF BoardInv, GateIsCoherentUnlessDisturbed, Binding, Midway

----------------------------------------------------------------------------
\* The preflight is the one of the brief.
LEMMA NextCertifiedInv ==
  ASSUME TypeInv, CertifiedInv, [Next]_vars
  PROVE  CertifiedInv'
<1>a. disturbed => disturbed'
  BY DisturbedStays
<1>0. ASSUME UNCHANGED <<brief, preflight>>
      PROVE  CertifiedInv'
  BY <1>0, <1>a DEF CertifiedInv
<1>1. ASSUME NEW b \in Brief, NEW reset \in BOOLEAN, Write(b, reset)
      PROVE  CertifiedInv'
  BY <1>1, <1>a DEF CertifiedInv, Write
<1>2. CASE UNCHANGED vars
  BY <1>0, <1>2 DEF vars, draft
<1>3. ASSUME NEW s \in Session, FilmRecord(s)
      PROVE  CertifiedInv'
  BY <1>0, <1>1, <1>3, TypeFacts DEF FilmRecord, draft
<1>4. ASSUME NEW s \in Session, Edit(s) \/ VoiceApprove(s) \/ BoardBind(s) \/ LookBind(s) \/ Reselect(s)
      PROVE  CertifiedInv'
  BY <1>0, <1>1, <1>4, Edits DEF draft
<1>5. ASSUME NEW s \in Session, Reset(s)
      PROVE  CertifiedInv'
  BY <1>0, <1>1, <1>5, TypeFacts DEF Reset, draft
<1>6. ASSUME NEW s \in Session, PreflightSave(s)
      PROVE  CertifiedInv'
  BY <1>0, <1>6 DEF PreflightSave, CertifiedInv, Blind, draft
<1>7. ASSUME NEW s \in Session,
             \/ EditRead(s) \/ Invalidate(s) \/ PreviewVoice(s) \/ UploadVoice(s) \/ VoiceRead(s)
             \/ SaveScript(s) \/ ApproveScript(s) \/ SaveStoryboard(s) \/ BoardRead(s) \/ BoardRecord(s)
             \/ LookRead(s) \/ LookApprove(s) \/ LookRecord(s)
             \/ PilotRead(s) \/ PilotRecord(s) \/ RejectPilot(s) \/ PilotSettle(s)
      PROVE  UNCHANGED <<brief, preflight>>
  BY <1>7 DEF EditRead, Invalidate, PreviewVoice, UploadVoice, VoiceRead, SaveScript, ApproveScript,
              SaveStoryboard, BoardRead, BoardRecord, LookRead, LookApprove, LookRecord, PilotRead,
              PilotRecord, RejectPilot, PilotSettle, draft
<1>8. ASSUME NEW s \in Session,
             \/ PreflightRead(s) \/ PreflightBlocked(s) \/ StartGate(s) \/ StartRead(s) \/ Claim(s)
             \/ Create(s) \/ FinishSuccess(s) \/ FinishFailure(s) \/ Continue(s) \/ Crash(s)
      PROVE  UNCHANGED <<brief, preflight>>
  BY <1>8 DEF PreflightRead, PreflightBlocked, StartGate, StartRead, Claim, Create, FinishSuccess,
              FinishFailure, Continue, Crash, draft
<1>9. ASSUME NEW s \in Session, StillCheck(s) \/ StillStore(s) \/ FilmCheck(s) \/ FilmClaim(s) \/ FilmFinish(s)
      PROVE  UNCHANGED <<brief, preflight>>
  BY <1>9 DEF StillCheck, StillStore, FilmCheck, FilmClaim, FilmFinish, draft
<1> QED
  BY <1>0, <1>2, <1>3, <1>4, <1>5, <1>6, <1>7, <1>8, <1>9 DEF Next, Step

----------------------------------------------------------------------------
\* The look and the pilot.
LEMMA GrantedGrows ==
  ASSUME TypeInv, [Next]_vars
  PROVE  granted["LOOK"] \subseteq granted'["LOOK"]
<1>1. CASE UNCHANGED approvals
  BY <1>1 DEF approvals
<1>2. ASSUME NEW stage \in Stage, NEW subject \in Anything,
             NEW decision \in {"APPROVED", "REJECTED", "INVALIDATED"}, Record(stage, decision, subject)
      PROVE  granted["LOOK"] \subseteq granted'["LOOK"]
  <2>1. CASE stage = "LOOK"
    BY <1>2, <2>1, RecordEffect DEF approvals
  <2>2. CASE stage # "LOOK"
    BY <1>2, <2>2, RecordEffect, Stages
  <2> QED
    BY <2>1, <2>2
<1> QED
  BY <1>1, <1>2, Written DEF vars, approvals

EventsKept == /\ events'["LOOK"] = events["LOOK"] /\ events'["PILOT"] = events["PILOT"]
              /\ strayed' = strayed
LooksWait == \A k : Looking(k) => Looking(k)' \/ disturbed'
WaitersKept == /\ LooksWait
               /\ Withdrawing => Withdrawing' \/ disturbed'

LEMMA StepLook ==
  ASSUME TypeInv, [Next]_vars
  PROVE  \/ EventsKept /\ WaitersKept
         \/ \E s \in Session : Invalidate(s) \/ LookApprove(s) \/ LookBind(s) \/ LookRecord(s)
                               \/ PilotRecord(s) \/ RejectPilot(s)
<1>a. UNCHANGED local => WaitersKept
  BY NobodyMoves DEF WaitersKept, LooksWait
<1>b. ASSUME NEW s \in Session, \E l : \E m : Go(s, l, m),
             at[s] \notin {"lookBind", "lookRecord", "invalidate"}
      PROVE  WaitersKept
  BY <1>b, WaitsOn DEF WaitersKept, LooksWait
<1>c. UNCHANGED <<approvals, strayed>> => EventsKept
  BY DEF approvals, EventsKept
<1>0. CASE UNCHANGED vars
  BY <1>0, <1>a, <1>c DEF vars, history
<1>1. ASSUME NEW s \in Session,
             StillCheck(s) \/ StillStore(s) \/ FilmCheck(s) \/ FilmClaim(s) \/ FilmFinish(s) \/ FilmRecord(s)
      PROVE  EventsKept /\ WaitersKept
  <2>1. UNCHANGED <<approvals, strayed>>
    BY <1>1 DEF StillCheck, StillStore, FilmCheck, FilmClaim, FilmFinish, FilmRecord, history
  <2>2. (\E l : \E m : Go(s, l, m)) /\ at[s] \notin {"lookBind", "lookRecord", "invalidate"}
    BY <1>1 DEF StillCheck, StillStore, FilmCheck, FilmClaim, FilmFinish, FilmRecord, Done
  <2> QED
    BY <2>1, <2>2, <1>b, <1>c
<1>2. ASSUME NEW s \in Session, PilotSettle(s) \/ Continue(s)
      PROVE  EventsKept /\ WaitersKept
  <2>1. /\ UNCHANGED <<approvals, strayed>> /\ at[s] \in {"pilotAccept", "rejectFlow", "continue"}
        /\ Go(s, "ready", Idle)
    BY <1>2 DEF PilotSettle, Continue, Done, history
  <2> QED
    BY <2>1, <1>b, <1>c
<1>3. ASSUME NEW s \in Session,
             \/ EditRead(s) \/ Edit(s) \/ PreviewVoice(s) \/ UploadVoice(s) \/ VoiceRead(s) \/ VoiceApprove(s)
             \/ SaveScript(s) \/ SaveStoryboard(s) \/ BoardRead(s) \/ BoardBind(s)
             \/ LookRead(s) \/ PilotRead(s)
      PROVE  EventsKept /\ WaitersKept
  <2>1. UNCHANGED <<approvals, strayed>>
    BY <1>3 DEF history, EditRead, Edit, PreviewVoice, UploadVoice, VoiceRead, VoiceApprove, SaveScript,
                SaveStoryboard, BoardRead, BoardBind, LookRead, PilotRead
  <2>2. /\ at[s] \notin {"lookBind", "lookRecord", "invalidate"}
        /\ UNCHANGED local \/ \E l : \E m : Go(s, l, m)
    <3>1. CASE EditRead(s) \/ Edit(s) \/ PreviewVoice(s) \/ UploadVoice(s) \/ VoiceRead(s) \/ VoiceApprove(s)
      BY <3>1 DEF EditRead, Edit, PreviewVoice, UploadVoice, VoiceRead, VoiceApprove, Done, Downstream
    <3>2. CASE SaveScript(s) \/ SaveStoryboard(s) \/ BoardRead(s) \/ BoardBind(s) \/ LookRead(s) \/ PilotRead(s)
      BY <3>2 DEF SaveScript, SaveStoryboard, BoardRead, BoardBind, LookRead, PilotRead, Done, Downstream
    <3> QED
      BY <1>3, <3>1, <3>2
  <2> QED
    BY <2>1, <2>2, <1>a, <1>b, <1>c
<1>4. ASSUME NEW s \in Session,
             \/ PreflightRead(s) \/ Reselect(s) \/ PreflightBlocked(s) \/ PreflightSave(s)
             \/ StartGate(s) \/ StartRead(s) \/ Claim(s) \/ Create(s) \/ FinishSuccess(s) \/ FinishFailure(s)
      PROVE  EventsKept /\ WaitersKept
  <2>1. UNCHANGED <<approvals, strayed>>
    BY <1>4 DEF history, PreflightRead, Reselect, PreflightBlocked, PreflightSave, StartGate, StartRead, Claim,
                Create, FinishSuccess, FinishFailure
  <2>2. /\ at[s] \notin {"lookBind", "lookRecord", "invalidate"}
        /\ UNCHANGED local \/ \E l : \E m : Go(s, l, m)
    BY <1>4 DEF PreflightRead, Reselect, PreflightBlocked, PreflightSave, StartGate, StartRead, Claim,
                Create, FinishSuccess, FinishFailure, Done
  <2> QED
    BY <2>1, <2>2, <1>a, <1>b, <1>c
<1>5. ASSUME NEW s \in Session, ApproveScript(s) \/ BoardRecord(s)
      PROVE  EventsKept /\ WaitersKept
  <2>1. /\ UNCHANGED strayed /\ at[s] \in {"ready", "boardRecord"} /\ \E l : \E m : Go(s, l, m)
        /\ \E stage \in {"SCRIPT", "STORYBOARD"} : \E decision, subject : Record(stage, decision, subject)
    BY <1>5 DEF ApproveScript, BoardRecord, Downstream, history
  <2>2. EventsKept
    BY <2>1, Stages DEF Record, TypeInv, EventInv, approvals, EventsKept
  <2> QED
    BY <2>1, <2>2, <1>b, <1>c
<1>6. ASSUME NEW s \in Session, Reset(s)
      PROVE  EventsKept /\ WaitersKept
  <2>1. UNCHANGED <<approvals, strayed>> /\ at[s] = "invalidate" /\ Go(s, "ready", Idle)
    BY <1>6 DEF Reset, Done, history
  <2>2. ~(mem[s].from <= 4)
    BY <1>6, Held, Stages DEF Reset
  <2>3. WaitersKept
    BY <2>1, <2>2, WaitsOn DEF WaitersKept, LooksWait
  <2> QED
    BY <2>1, <2>3, <1>c
<1>7. ASSUME NEW s \in Session, Crash(s)
      PROVE  EventsKept /\ WaitersKept
  <2>1. UNCHANGED <<approvals, strayed>> /\ Go(s, "ready", Idle) /\ (Midway(s) => disturbed')
    BY <1>7 DEF Crash, Done
  <2>2. WaitersKept
    BY <2>1, <1>b DEF WaitersKept, LooksWait, Midway
  <2> QED
    BY <2>1, <2>2, <1>c
<1> QED
  BY <1>0, <1>1, <1>2, <1>3, <1>4, <1>5, <1>6, <1>7 DEF Next, Step

LEMMA NextLookInv ==
  ASSUME TypeInv, LookInv, PilotInv, [Next]_vars
  PROVE  LookInv' /\ PilotInv'
<1>a. /\ disturbed => disturbed'
      /\ granted["LOOK"] \subseteq granted'["LOOK"]
      /\ \A i \in 1 .. Len(pilots) : pilots'[i].keyframe = pilots[i].keyframe
      /\ Passed' = Passed \/ \E s \in Session : LookApprove(s)
  BY DisturbedStays, GrantedGrows, NextStages DEF Grown
<1>b. /\ "LOOK" \in Stage /\ "PILOT" \in Stage
      /\ events["PILOT"].decision = "APPROVED" => events["PILOT"].subject \in 1 .. Len(pilots)
      /\ \A s \in Session : mem[s] \in Memory
      /\ Nat \subseteq Anything
  BY Stages DEF TypeInv, LocalInv, EventInv, Anything
<1>1. ASSUME EventsKept, Withdrawing => Withdrawing' \/ disturbed'
      PROVE  PilotInv'
  <2>1. Approved("PILOT")' => Approved("PILOT") /\ Shown' = Shown
    BY <1>1, <1>a, <1>b DEF Approved, EventsKept, Shown
  <2>2. Approved("LOOK")' => Approved("LOOK")
    BY <1>1 DEF Approved, EventsKept
  <2> QED
    BY <1>1, <1>a, <2>1, <2>2 DEF PilotInv, EventsKept
<1>2. ASSUME LooksWait, Passed' = Passed
      PROVE  LookInv'
  BY <1>2, <1>a DEF LookInv, LooksWait
<1>3. ASSUME NEW s \in Session, LookApprove(s)
      PROVE  LookInv' /\ PilotInv'
  <2>1. UNCHANGED <<approvals, strayed>> /\ at[s] = "look" /\ \E l : \E m : Go(s, l, m)
    BY <1>3 DEF LookApprove, Done, history
  <2>2. EventsKept /\ WaitersKept
    BY <2>1, WaitsOn DEF EventsKept, WaitersKept, LooksWait, approvals
  <2>3. CASE UNCHANGED frames
    <3>1. Passed' = Passed
      BY <2>3 DEF Passed
    <3> QED
      BY <2>2, <3>1, <1>1, <1>2 DEF WaitersKept
  <2>4. ASSUME NEW k \in 1 .. Len(frames), frames' = [frames EXCEPT ![k].approved = TRUE],
               Go(s, "lookBind", [mem[s] EXCEPT !.rev = k])
        PROVE  LookInv'
    <3>1. Looking(k)'
      <4> DEFINE m == [mem[s] EXCEPT !.rev = k]
      <4>1. m.rev = k
        BY <1>b DEF Memory
      <4> HIDE DEF m
      <4>2. Go(s, "lookBind", m)
        BY <2>4 DEF m
      <4> QED
        BY <4>1, <4>2, Others DEF Looking
    <3>2. Passed' \subseteq Passed \cup {k}
      <4> DEFINE new == [frames[k] EXCEPT !.approved = TRUE]
      <4>1. frames \in Seq(Frame) /\ new \in Frame
        BY FlowOf DEF TypeInv, StageInv, Frame
      <4>2. frames' = [frames EXCEPT ![k] = new]
        BY <2>4
      <4> HIDE DEF new
      <4>3. Len(frames') = Len(frames) /\ \A j \in 1 .. Len(frames) : j # k => frames'[j] = frames[j]
        BY <4>1, <4>2, Replaced
      <4> QED
        BY <4>3 DEF Passed
    <3> QED
      BY <2>2, <3>1, <3>2, <1>a DEF LookInv, WaitersKept, LooksWait
  <2>5. UNCHANGED frames \/ \E k \in 1 .. Len(frames) : /\ frames' = [frames EXCEPT ![k].approved = TRUE]
                                                       /\ Go(s, "lookBind", [mem[s] EXCEPT !.rev = k])
    BY <1>3 DEF LookApprove
  <2> QED
    BY <2>2, <2>3, <2>4, <2>5, <1>1 DEF WaitersKept
<1>c. ASSUME NEW s \in Session, \/ LookBind(s) \/ LookRecord(s) \/ PilotRecord(s)
                                \/ RejectPilot(s) \/ Invalidate(s)
      PROVE  Passed' = Passed
  <2>1. UNCHANGED frames
    BY <1>c DEF LookBind, LookRecord, PilotRecord, RejectPilot, Invalidate, stages
  <2> QED
    BY <2>1 DEF Passed
<1>4. ASSUME NEW s \in Session, LookBind(s)
      PROVE  LookInv' /\ PilotInv'
  <2>1. UNCHANGED <<approvals, strayed>> /\ at[s] = "lookBind" /\ \E l : \E m : Go(s, l, m)
    BY <1>4 DEF LookBind, Done
  <2>2. Withdrawing => Withdrawing'
    BY <2>1, WaitsOn
  <2>3. ASSUME NEW k, Looking(k)
        PROVE  Looking(k)' \/ disturbed'
    <3> DEFINE m == [mem[s] EXCEPT !.brief = None]
    <3>1. disturbed' \/ Go(s, "lookRecord", m)
      BY <1>4 DEF LookBind
    <3>2. m.rev = mem[s].rev
      BY <1>b DEF Memory
    <3> HIDE DEF m
    <3> QED
      BY <2>3, <3>1, <3>2, Others DEF Looking
  <2>4. LooksWait
    BY <2>3 DEF LooksWait
  <2> QED
    BY <2>1, <2>2, <2>4, <1>4, <1>c, <1>1, <1>2 DEF EventsKept, approvals
<1>5. ASSUME NEW s \in Session, LookRecord(s)
      PROVE  LookInv' /\ PilotInv'
  <2>1. at[s] = "lookRecord" /\ Record("LOOK", "APPROVED", mem[s].rev) /\ Downstream(s, 4)
    BY <1>5 DEF LookRecord
  <2>2. mem[s].rev \in Anything
    BY <1>b, <2>1, Held, FlowOf
  <2>3. mem[s].rev \in granted'["LOOK"]
    BY <1>b, <2>1, <2>2, RecordEffect DEF approvals
  <2>4. \A k : Looking(k) => Looking(k)' \/ k = mem[s].rev
    BY <2>1, Others DEF Looking, Downstream
  <2>5. LookInv'
    BY <1>5, <1>a, <1>c, <2>3, <2>4 DEF LookInv
  <2>6. Withdrawing'
    <3> DEFINE m == [Idle EXCEPT !.from = 4]
    <3>1. m.from = 4
      BY DEF Idle
    <3> HIDE DEF m
    <3>2. Go(s, "invalidate", m)
      BY <2>1 DEF Downstream, m
    <3> QED
      BY <3>1, <3>2, Others DEF Withdrawing
  <2> QED
    BY <2>5, <2>6 DEF PilotInv
<1>6. ASSUME NEW s \in Session, PilotRecord(s)
      PROVE  LookInv' /\ PilotInv'
  <2> DEFINE n == mem[s].rev
  <2>1. /\ at[s] = "pilotRecord" /\ Record("PILOT", "APPROVED", n) /\ UNCHANGED pilots
        /\ strayed' = IF n \in granted["PILOT"] THEN strayed
                      ELSE pilots[n].keyframe # events["LOOK"].subject
        /\ \E l : \E m : Go(s, l, m)
    BY <1>6 DEF PilotRecord, stages
  <2>2. n \in Anything
    BY <1>b, <2>1, Held, FlowOf
  <2> HIDE DEF n
  <2>3. WaitersKept
    BY <2>1, WaitsOn DEF WaitersKept, LooksWait
  <2>4. LookInv'
    BY <1>2, <1>6, <1>c, <2>3 DEF WaitersKept
  <2>5. CASE n \in granted["PILOT"]
    <3>1. UNCHANGED approvals /\ strayed' = strayed
      BY <2>1, <2>5 DEF Record
    <3> QED
      BY <1>1, <2>3, <2>4, <3>1 DEF EventsKept, WaitersKept, approvals
  <2>6. CASE n \notin granted["PILOT"]
    <3>1. events'["LOOK"] = events["LOOK"] /\ events'["PILOT"].subject = n
      BY <1>b, <2>1, <2>2, <2>6, RecordEffect
    <3>2. Shown' = pilots[n].keyframe
      BY <2>1, <3>1 DEF Shown
    <3>3. Shown' = events'["LOOK"].subject \/ strayed'
      BY <2>1, <2>6, <3>1, <3>2
    <3> QED
      BY <2>4, <3>3 DEF PilotInv
  <2> QED
    BY <2>5, <2>6
<1>7. ASSUME NEW s \in Session, RejectPilot(s)
      PROVE  LookInv' /\ PilotInv'
  <2>1. PICK i \in 1 .. Len(pilots) :
          Record("PILOT", "REJECTED", i) /\ at[s] = "ready" /\ \E l : \E m : Go(s, l, m)
    BY <1>7 DEF RejectPilot
  <2>2. i \in Anything
    BY <1>b, FlowOf
  <2>3. events'["PILOT"].decision # "APPROVED"
    BY <1>b, <2>1, <2>2, RecordEffect
  <2>4. LooksWait
    BY <2>1, WaitsOn DEF LooksWait
  <2> QED
    BY <1>2, <1>7, <1>c, <2>3, <2>4 DEF PilotInv, Approved
<1>8. ASSUME NEW s \in Session, Invalidate(s)
      PROVE  LookInv' /\ PilotInv'
  <2>1. mem[s].from \in 1 .. 4
    BY <1>8, Held, Stages DEF Invalidate
  <2> DEFINE stage == STAGE_ORDER[mem[s].from]
             m == [mem[s] EXCEPT !.from = mem[s].from + 1]
  <2>2. /\ at[s] = "invalidate" /\ Go(s, "invalidate", m)
        /\ IF events[stage].decision = "APPROVED"
           THEN Record(stage, "INVALIDATED", events[stage].subject) ELSE UNCHANGED approvals
    BY <1>8 DEF Invalidate
  <2>3. LooksWait
    BY <2>2, WaitsOn DEF LooksWait
  <2>4. LookInv'
    BY <1>2, <1>8, <1>c, <2>3
  <2>5. CASE mem[s].from = 4
    <3>1. stage = "PILOT"
      BY <2>5, Stages
    <3>2. events["PILOT"].subject \in Anything
      BY <1>b DEF TypeInv, EventInv
    <3>3. events'["PILOT"].decision # "APPROVED"
      <4> HIDE DEF stage
      <4>1. CASE events["PILOT"].decision = "APPROVED"
        BY <1>b, <2>2, <3>1, <3>2, <4>1, RecordEffect
      <4>2. CASE events["PILOT"].decision # "APPROVED"
        BY <2>2, <3>1, <4>2 DEF approvals
      <4> QED
        BY <4>1, <4>2
    <3> QED
      BY <2>4, <3>3 DEF PilotInv, Approved
  <2>6. CASE mem[s].from \in 1 .. 3
    <3>1. m.from = mem[s].from + 1 /\ mem[s].from + 1 <= 4
      BY <1>b, <2>6 DEF Memory
    <3> HIDE DEF m
    <3>2. Withdrawing'
      BY <2>2, <3>1, Others DEF Withdrawing
    <3> QED
      BY <2>4, <3>2 DEF PilotInv
  <2> QED
    BY <2>1, <2>5, <2>6
<1>9. ASSUME EventsKept, WaitersKept
      PROVE  LookInv' /\ PilotInv'
  BY <1>1, <1>2, <1>3, <1>9, <1>a DEF WaitersKept
<1> QED
  BY <1>3, <1>4, <1>5, <1>6, <1>7, <1>8, <1>9, StepLook

----------------------------------------------------------------------------
\* Only the gate of start() lets a session in.
LEMMA NextGates ==
  ASSUME TypeInv, Next, ~Gated, Gated'
  PROVE  \E s \in Session : StartGate(s)
<1>a. at \in [Session -> Label] /\ \A s \in Session : at[s] \notin {"start", "claim"}
  BY DEF TypeInv, LocalInv, Gated
<1>b. ASSUME NEW s \in Session, \E l \in Label \ {"start", "claim"} : \E m : Go(s, l, m)
      PROVE  FALSE
  BY <1>a, <1>b DEF Go, Gated
<1>c. ~UNCHANGED local
  BY <1>a DEF local, Gated
<1>1. ASSUME NEW s \in Session,
             \/ EditRead(s) \/ Edit(s) \/ Invalidate(s) \/ Reset(s) \/ VoiceRead(s) \/ VoiceApprove(s)
      PROVE  FALSE
  BY <1>1, <1>b DEF EditRead, Edit, Invalidate, Reset, VoiceRead, VoiceApprove, Done, Downstream
<1>2. ASSUME NEW s \in Session,
             \/ SaveScript(s) \/ ApproveScript(s) \/ SaveStoryboard(s) \/ BoardRead(s) \/ BoardBind(s)
             \/ BoardRecord(s) \/ LookRead(s) \/ LookApprove(s) \/ LookBind(s) \/ LookRecord(s)
      PROVE  FALSE
  <2>0. ASSUME NEW n, Downstream(s, n)
        PROVE  FALSE
    BY <2>0, <1>b DEF Downstream
  <2>1. CASE SaveScript(s) \/ ApproveScript(s) \/ SaveStoryboard(s) \/ BoardRecord(s) \/ LookRecord(s)
    BY <2>1, <2>0 DEF SaveScript, ApproveScript, SaveStoryboard, BoardRecord, LookRecord
  <2>2. CASE BoardRead(s) \/ BoardBind(s)
    BY <2>2, <1>b DEF BoardRead, BoardBind, Done
  <2>3. CASE LookRead(s) \/ LookApprove(s) \/ LookBind(s)
    BY <2>3, <1>b DEF LookRead, LookApprove, LookBind, Done
  <2> QED
    BY <1>2, <2>1, <2>2, <2>3
<1>3. ASSUME NEW s \in Session,
             \/ PilotRead(s) \/ PilotRecord(s) \/ RejectPilot(s) \/ PilotSettle(s)
             \/ PreflightRead(s) \/ PreflightBlocked(s) \/ PreflightSave(s)
             \/ FinishSuccess(s) \/ FinishFailure(s) \/ Continue(s) \/ Crash(s) \/ Create(s)
      PROVE  FALSE
  BY <1>3, <1>b DEF PilotRead, PilotRecord, RejectPilot, PilotSettle, PreflightRead, PreflightBlocked,
                    PreflightSave, FinishSuccess, FinishFailure, Continue, Crash, Create, Done
<1>4. ASSUME NEW s \in Session, PreviewVoice(s) \/ UploadVoice(s) \/ Reselect(s)
      PROVE  FALSE
  BY <1>4, <1>b, <1>c DEF PreviewVoice, UploadVoice, Reselect, Done
<1>5. ASSUME NEW s \in Session, StartRead(s) \/ Claim(s)
      PROVE  FALSE
  BY <1>5, <1>a DEF StartRead, Claim
<1>6. ASSUME NEW s \in Session,
             StillCheck(s) \/ StillStore(s) \/ FilmCheck(s) \/ FilmClaim(s) \/ FilmFinish(s) \/ FilmRecord(s)
      PROVE  FALSE
  BY <1>6, <1>b DEF StillCheck, StillStore, FilmCheck, FilmClaim, FilmFinish, FilmRecord, Done
<1> QED
  BY <1>1, <1>2, <1>3, <1>4, <1>5, <1>6 DEF Next, Step

LEMMA NextGatedInv ==
  ASSUME TypeInv, GatedInv, [Next]_vars
  PROVE  GatedInv'
<1>1. CASE UNCHANGED vars
  <2>1. Gated' = Gated /\ overtaken' = overtaken
    BY <1>1 DEF vars, local, Gated
  <2>2. Gate(4)' <=> Gate(4)
    BY <1>1, Gates DEF vars, approvals, revisions, Approved, Gate
  <2> QED
    BY <2>1, <2>2 DEF GatedInv
<1>2. CASE Next
  <2>1. overtaken' = (Gated' /\ (overtaken \/ (Gated /\ Gate(4) /\ ~Gate(4)')))
    BY <1>2 DEF Next
  <2>2. CASE Gated
    BY <2>1, <2>2 DEF GatedInv
  <2>3. CASE ~Gated
    <3>1. ASSUME Gated'
          PROVE  Gate(4)'
      <4>1. \E t \in Session : StartGate(t)
        BY <1>2, <2>3, <3>1, NextGates
      <4> QED
        BY <4>1 DEF StartGate, revisions, approvals, Gate, Approved
    <3> QED
      BY <3>1 DEF GatedInv
  <2> QED
    BY <2>2, <2>3
<1> QED
  BY <1>1, <1>2

----------------------------------------------------------------------------
(***************************************************************************)
(* The invariant is inductive, and the properties follow from it.          *)
(***************************************************************************)
IInv == /\ TypeInv /\ StartInv /\ ScheduledOnce
        /\ BoardInv /\ CertifiedInv /\ LookInv /\ PilotInv /\ GatedInv

LEMMA Inductive == Spec => []IInv
<1>1. Init => IInv
  BY InitInv DEF IInv
<1>2. IInv /\ [Next]_vars => IInv'
  <2> SUFFICES ASSUME IInv, [Next]_vars
               PROVE  IInv'
    OBVIOUS
  <2>1. TypeInv'
    BY NextTypeInv DEF IInv
  <2>2. StartInv' /\ ScheduledOnce'
    BY StartStep DEF IInv
  <2>3. BoardInv' /\ CertifiedInv'
    BY NextBoardInv, NextCertifiedInv DEF IInv
  <2>4. LookInv' /\ PilotInv' /\ GatedInv'
    BY NextLookInv, NextGatedInv DEF IInv
  <2> QED
    BY <2>1, <2>2, <2>3, <2>4 DEF IInv
<1> QED
  BY <1>1, <1>2, PTL DEF Spec

\* The draft obeys the checks of its table, whatever the sessions do: what is
\* certified or started has a preflight, and nothing else has.
THEOREM TypeCorrect == Spec => []TypeOK
  BY Inductive, PTL DEF IInv, TypeInv

\* claimStart() lets one session in, and nothing that finishStartSuccess() or
\* finishStartFailure() write opens a draft with a scheduled run again, also where
\* finishStartSuccess() was answered by an error: the draft is then started, or left
\* for reconciliation, or still RUNNING where the session died.
THEOREM RunScheduledOnce == Spec => []ScheduledOnce
  BY Inductive, PTL DEF IInv

\* Behind the gate of script and storyboard the storyboard was written for the
\* approved script and is the one in the brief, or somebody is still at it.
THEOREM GateCoherent == Spec => []GateIsCoherentUnlessDisturbed
<1>1. IInv => GateIsCoherentUnlessDisturbed
  BY BoardCoherent DEF IInv
<1> QED
  BY <1>1, Inductive, PTL

\* Only claimStart() makes the state of a start RUNNING.
LEMMA ClaimedBy ==
  ASSUME TypeInv, [Next]_vars, Claimed
  PROVE  \E s \in Session : Claim(s) /\ Claimable(mem[s].brief)
<1>1. ~Calm
  BY DEF Calm, Claimed
<1>2. ASSUME NEW s \in Session, Create(s) \/ FinishSuccess(s) \/ FinishFailure(s) \/ Crash(s)
      PROVE  FALSE
  BY <1>2 DEF Create, FinishSuccess, FinishFailure, FailureState, Crash, draft, Claimed
<1>3. ASSUME NEW s \in Session, Claim(s)
      PROVE  Claimable(mem[s].brief)
  BY <1>3 DEF Claim, Claimed
<1> QED
  BY <1>1, <1>2, <1>3, StepKinds

\* What claimStart() claims is the draft as it was approved, unless a session is
\* half done, or was disturbed, or withdrew an approval behind the gate: its pilot
\* shows the look, or an earlier one where it strayed when it was approved.
THEOREM StartedAsApproved == Spec => StartedAsApprovedUnlessDisturbed
<1>1. IInv /\ [Next]_vars
        => [Claimed => disturbed \/ overtaken \/ (\E s \in Session : Midway(s)) \/ AsApproved]_vars
  <2> SUFFICES ASSUME IInv, [Next]_vars, Claimed, ~disturbed, ~overtaken, \A s \in Session : ~Midway(s)
               PROVE  AsApproved
    OBVIOUS
  <2>1. PICK s \in Session : Claim(s) /\ Claimable(mem[s].brief)
    BY ClaimedBy DEF IInv
  <2>2. Gate(4)
    BY <2>1 DEF Claim, Gated, IInv, GatedInv
  <2>3. Approved("SCRIPT") /\ Approved("STORYBOARD") /\ Approved("LOOK") /\ Approved("PILOT")
    BY <2>2, Gates
  <2>4. ~Binding /\ ~Withdrawing /\ \A k : ~Looking(k)
    BY DEF Binding, Withdrawing, Looking, Midway
  <2>5. /\ events["STORYBOARD"].subject.script = events["SCRIPT"].subject
        /\ events["STORYBOARD"].subject.board = brief.board
    BY <2>3, <2>4 DEF IInv, BoardInv
  <2>6. Shown = events["LOOK"].subject \/ strayed
    BY <2>3, <2>4 DEF IInv, PilotInv
  <2>7. Shown \in granted["LOOK"]
    <3>1. Shown \in Passed
      BY <2>3, FlowOf DEF IInv, TypeInv, EventInv, Approved, Shown
    <3> QED
      BY <2>4, <3>1 DEF IInv, LookInv
  <2>8. preflight = brief
    BY <2>1, TypeFacts DEF Claimable, IInv, CertifiedInv
  <2> QED
    BY <2>2, <2>5, <2>6, <2>7, <2>8 DEF AsApproved
<1> QED
  BY <1>1, Inductive, PTL DEF Spec, StartedAsApprovedUnlessDisturbed
=============================================================================
