------------------------- MODULE ExternalEffectProofs -------------------------
(***************************************************************************)
(* Theorems about the two effects of the system that nothing can take      *)
(* back: the prediction a LiveProduction pays for, and the copy that a     *)
(* Publication leaves at its destination; for any number of runs, calls,   *)
(* reconcilers and attempts.                                               *)
(*                                                                         *)
(* A run is a buyer from the mark of the boundary, as long as no video is  *)
(* in the store, until it ends; who has paid remains one.  A run that      *)
(* holds the job at "claimed" finds the boundary unmarked, and then there  *)
(* is no buyer, or finds a video in the store, and then it will not become *)
(* one.  This needs every run to have a worker id of its own, since the    *)
(* mark of the boundary is fenced by nothing else.                         *)
(*                                                                         *)
(* As long as no call has written FAILED for a delivery made or in doubt,  *)
(* and no lease has run out under a SAFE_RETRY being written, the status   *)
(* of a publication tells who may act: PUBLISHING belongs to the one       *)
(* active call, UNKNOWN to the holder of the lease, a SAFE_RETRY that is   *)
(* still to land belongs to that holder, and a row that can be claimed     *)
(* again has no copy at the destination.                                   *)
(***************************************************************************)
EXTENDS LiveProduction, TLAPS

CONSTANTS Call, Reconciler  \* of the publication
VARIABLES status, tries, remote, place, answer, holder, rpc, found, budget, blind, late

\* A publication; its row counts its own attempts, and its calls stand elsewhere.
P == INSTANCE Publication WITH attempt <- tries, pc <- place

USE WorkerAssumption, AttemptsAssumption, NoneAssumption

OwnIds == \A c, d \in Run : WorkerOf[c] = WorkerOf[d] => c = d

MarkInv ==
  /\ \A c \in Run : pc[c] \in {"resolving", "paying"} => Marked
  /\ paid # {} => Marked
  /\ Marked => jobStatus \notin {"ABSENT", "QUEUED"}

Buyer(c) == \/ c \in paid
            \/ pc[c] = "paying"
            \/ pc[c] = "resolving" /\ video = None

BuyerInv ==
  /\ \A c \in Run : pc[c] \in {"idle", "deciding"} => c \notin allow
  /\ \A c \in Run : pc[c] = "claiming" /\ c \in allow \cap seenMarked => video # None
  /\ stale = {} =>
       /\ \A c \in Run : pc[c] = "claimed" /\ Mine(c) /\ Marked => video # None
       /\ \A c, d \in Run : Buyer(c) /\ Buyer(d) => c = d

DoneInv ==
  /\ \A c \in Run : pc[c] = "storing" => c \in paid
  /\ video # None => video \in paid
  /\ \A c \in Run : pc[c] \in {"mastering", "reviewing", "completing"} => video # None
  /\ \A c \in Run : pc[c] \in {"reviewing", "completing"} => review # "none"
  /\ jobStatus = "COMPLETED" => video # None /\ review # "none"
  /\ \A c \in Run : pc[c] = "closing" => jobStatus = "COMPLETED"
  /\ production = "COMPLETED" => jobStatus = "COMPLETED"
-----------------------------------------------------------------------------
(***************************************************************************)
(* Type correctness: the rows keep to the statuses of their tables and the *)
(* job's attempts to max_attempts.                                         *)
(***************************************************************************)
LEMMA InitTypeOK == Init => TypeOK
<1> SUFFICES ASSUME Init PROVE TypeOK
  OBVIOUS
<1>1. attempt \in 1..MaxAttempts
  BY DEF Init
<1>2. pc \in [Run -> Location] /\ seen \in [Run -> JobStatus]
  BY DEF Init, JobStatus, Location
<1> QED
  BY <1>1, <1>2, Zenon DEF Init, TypeOK, JobStatus

LEMMA NextTypeOK == TypeOK /\ [Next]_vars => TypeOK'
<1> SUFFICES ASSUME TypeOK, [Next]_vars PROVE TypeOK'
  OBVIOUS
<1> USE DEF TypeOK, JobStatus, Location, Goto, job, local
<1>1. CASE UNCHANGED vars
  BY <1>1 DEF vars
<1>2. ASSUME NEW c \in Run, Step(c) \/ Crash(c) PROVE TypeOK'
  <2>1. CASE Prepare(c) BY <2>1 DEF Prepare
  <2>2. CASE Decide(c) BY <2>2 DEF Decide
  <2>3. CASE CreateAndClaim(c)
    <3>1. stale' \subseteq Run
      BY <2>3 DEF CreateAndClaim
    <3>2. pc' \in [Run -> Location]
      BY <2>3 DEF CreateAndClaim
    <3>3. owner' \in Worker \cup {None}
      BY <2>3 DEF CreateAndClaim
    <3>4. live' \in BOOLEAN
      BY <2>3 DEF CreateAndClaim
    <3> QED
      BY <2>3, <3>1, <3>2, <3>3, <3>4, Zenon DEF CreateAndClaim
  <2>4. CASE MarkBoundary(c) BY <2>4 DEF MarkBoundary
  <2>5. CASE Resolve(c) BY <2>5 DEF Resolve
  <2>6. CASE Pay(c) BY <2>6 DEF Pay
  <2>7. CASE Store(c) BY <2>7 DEF Store
  <2>8. CASE Master(c) BY <2>8 DEF Master
  <2>9. CASE CheckReview(c) BY <2>9 DEF CheckReview
  <2>10. CASE CompleteJob(c) BY <2>10 DEF CompleteJob
  <2>11. CASE CompleteProduction(c) BY <2>11 DEF CompleteProduction
  <2>12. CASE FailJob(c) BY <2>12 DEF FailJob, Verdict
  <2>13. CASE FailProduction(c) BY <2>13 DEF FailProduction
  <2>14. CASE Crash(c) BY <2>14 DEF Crash
  <2> QED
    BY <1>2, <2>1, <2>2, <2>3, <2>4, <2>5, <2>6, <2>7, <2>8, <2>9, <2>10, <2>11,
       <2>12, <2>13, <2>14 DEF Step
<1>3. CASE Review BY <1>3 DEF Review
<1>4. CASE ExpireLease BY <1>4 DEF ExpireLease
<1>5. CASE Recover BY <1>5 DEF Recover
<1> QED
  BY <1>1, <1>2, <1>3, <1>4, <1>5 DEF Next

\* Type correctness of the rows and of every run.
THEOREM TypeCorrect == Spec => []TypeOK
  BY InitTypeOK, NextTypeOK, PTL DEF Spec
-----------------------------------------------------------------------------
LEMMA NextMarkInv == TypeOK /\ MarkInv /\ [Next]_vars => MarkInv'
<1> SUFFICES ASSUME TypeOK, MarkInv, [Next]_vars PROVE MarkInv'
  OBVIOUS
<1> USE DEF TypeOK, MarkInv, Marked, Goto, job, local
<1>1. CASE UNCHANGED vars
  BY <1>1 DEF vars
<1>2. ASSUME NEW c \in Run, Step(c) \/ Crash(c) PROVE MarkInv'
  <2>1. CASE Prepare(c) BY <2>1 DEF Prepare
  <2>2. CASE Decide(c) BY <2>2 DEF Decide
  <2>3. CASE CreateAndClaim(c) BY <2>3 DEF CreateAndClaim
  <2>4. CASE MarkBoundary(c) BY <2>4 DEF MarkBoundary, Mine
  <2>5. CASE Resolve(c) BY <2>5 DEF Resolve
  <2>6. CASE Pay(c) BY <2>6 DEF Pay
  <2>7. CASE Store(c) BY <2>7 DEF Store
  <2>8. CASE Master(c) BY <2>8 DEF Master
  <2>9. CASE CheckReview(c) BY <2>9 DEF CheckReview
  <2>10. CASE CompleteJob(c) BY <2>10 DEF CompleteJob
  <2>11. CASE CompleteProduction(c) BY <2>11 DEF CompleteProduction
  <2>12. CASE FailJob(c) BY <2>12 DEF FailJob, Verdict
  <2>13. CASE FailProduction(c) BY <2>13 DEF FailProduction
  <2>14. CASE Crash(c) BY <2>14 DEF Crash
  <2> QED
    BY <1>2, <2>1, <2>2, <2>3, <2>4, <2>5, <2>6, <2>7, <2>8, <2>9, <2>10, <2>11,
       <2>12, <2>13, <2>14 DEF Step
<1>3. CASE Review BY <1>3 DEF Review
<1>4. CASE ExpireLease BY <1>4 DEF ExpireLease
<1>5. CASE Recover BY <1>5 DEF Recover
<1> QED
  BY <1>1, <1>2, <1>3, <1>4, <1>5 DEF Next

LEMMA NextBuyerInv ==
  ASSUME OwnIds, TypeOK, MarkInv, BuyerInv, [Next]_vars
  PROVE  BuyerInv'
<1> USE DEF TypeOK, BuyerInv, Buyer, Mine, Marked, Goto, job, local
<1>1. CASE UNCHANGED vars
  BY <1>1 DEF vars
<1>2. ASSUME NEW c \in Run, Step(c) \/ Crash(c) PROVE BuyerInv'
  <2>1. CASE Prepare(c) BY <2>1 DEF Prepare
  <2>2. CASE Decide(c)
    <3>1. c \in allow' \cap seenMarked' => video # None
      BY <2>2 DEF Decide, MayRetry
    <3>2. \A d \in Run : pc'[d] = "claiming" /\ d \in allow' \cap seenMarked' => video' # None
      BY <2>2, <3>1 DEF Decide
    <3> QED
      BY <2>2, <3>2 DEF Decide
  <2>3. CASE CreateAndClaim(c)
    \* A claim over a marked boundary retries, and the video is in the store.
    <3>1. CASE Claims(c) /\ Marked /\ stale' = {}
      BY <2>3, <3>1 DEF CreateAndClaim, Claims, MarkInv, OwnIds
    <3>2. CASE ~(Claims(c) /\ Marked /\ stale' = {})
      BY <2>3, <3>2 DEF CreateAndClaim, OwnIds
    <3> QED
      BY <3>1, <3>2
  <2>4. CASE MarkBoundary(c)
    <3>1. CASE Marked
      BY <2>4, <3>1 DEF MarkBoundary
    <3>2. CASE ~Marked
      <4>1. \A d \in Run : ~Buyer(d)
        BY <3>2 DEF MarkInv
      <4> QED
        BY <2>4, <3>2, <4>1 DEF MarkBoundary, OwnIds
    <3> QED
      BY <3>1, <3>2
  <2>5. CASE Resolve(c) BY <2>5 DEF Resolve
  <2>6. CASE Pay(c) BY <2>6 DEF Pay
  <2>7. CASE Store(c) BY <2>7 DEF Store
  <2>8. CASE Master(c) BY <2>8 DEF Master
  <2>9. CASE CheckReview(c) BY <2>9 DEF CheckReview
  <2>10. CASE CompleteJob(c) BY <2>10 DEF CompleteJob
  <2>11. CASE CompleteProduction(c) BY <2>11 DEF CompleteProduction
  <2>12. CASE FailJob(c) BY <2>12 DEF FailJob, Verdict
  <2>13. CASE FailProduction(c) BY <2>13 DEF FailProduction
  <2>14. CASE Crash(c) BY <2>14 DEF Crash
  <2> QED
    BY <1>2, <2>1, <2>2, <2>3, <2>4, <2>5, <2>6, <2>7, <2>8, <2>9, <2>10, <2>11,
       <2>12, <2>13, <2>14 DEF Step
<1>3. CASE Review BY <1>3 DEF Review
<1>4. CASE ExpireLease BY <1>4 DEF ExpireLease
<1>5. CASE Recover BY <1>5 DEF Recover
<1> QED
  BY <1>1, <1>2, <1>3, <1>4, <1>5 DEF Next

(***************************************************************************)
(* Runs that race, expire and are recovered buy one video, if each has its *)
(* own worker id and no claim is granted over a boundary marked since its  *)
(* run read the job.                                                       *)
(***************************************************************************)
THEOREM OnePrediction ==
  ASSUME OwnIds
  PROVE  Spec => [](PaidIsMarked /\ OnePredictionUnlessStale)
<1>1. Init => MarkInv /\ BuyerInv
  BY DEF Init, MarkInv, Marked, BuyerInv, Buyer
<1>2. TypeOK /\ MarkInv /\ BuyerInv /\ [Next]_vars => BuyerInv'
  BY NextBuyerInv
<1>3. TypeOK /\ MarkInv /\ BuyerInv => PaidIsMarked /\ OnePredictionUnlessStale
  BY DEF TypeOK, MarkInv, Marked, BuyerInv, Buyer, PaidIsMarked, OnePredictionUnlessStale
<1> QED
  BY <1>1, <1>2, <1>3, InitTypeOK, NextTypeOK, NextMarkInv, PTL DEF Spec
-----------------------------------------------------------------------------
LEMMA NextDoneInv == TypeOK /\ DoneInv /\ [Next]_vars => DoneInv'
<1> SUFFICES ASSUME TypeOK, DoneInv, [Next]_vars PROVE DoneInv'
  OBVIOUS
<1> USE DEF TypeOK, DoneInv, Mine, Goto, job, local
<1>1. CASE UNCHANGED vars
  BY <1>1 DEF vars
<1>2. ASSUME NEW c \in Run, Step(c) \/ Crash(c) PROVE DoneInv'
  <2>1. CASE Prepare(c) BY <2>1 DEF Prepare
  <2>2. CASE Decide(c) BY <2>2 DEF Decide
  <2>3. CASE CreateAndClaim(c) BY <2>3 DEF CreateAndClaim, Claims
  <2>4. CASE MarkBoundary(c) BY <2>4 DEF MarkBoundary
  <2>5. CASE Resolve(c) BY <2>5 DEF Resolve
  <2>6. CASE Pay(c) BY <2>6 DEF Pay
  <2>7. CASE Store(c) BY <2>7 DEF Store
  <2>8. CASE Master(c) BY <2>8 DEF Master
  <2>9. CASE CheckReview(c) BY <2>9 DEF CheckReview
  <2>10. CASE CompleteJob(c) BY <2>10 DEF CompleteJob
  <2>11. CASE CompleteProduction(c) BY <2>11 DEF CompleteProduction
  <2>12. CASE FailJob(c) BY <2>12 DEF FailJob, Verdict
  <2>13. CASE FailProduction(c) BY <2>13 DEF FailProduction
  <2>14. CASE Crash(c) BY <2>14 DEF Crash
  <2> QED
    BY <1>2, <2>1, <2>2, <2>3, <2>4, <2>5, <2>6, <2>7, <2>8, <2>9, <2>10, <2>11,
       <2>12, <2>13, <2>14 DEF Step
<1>3. CASE Review BY <1>3 DEF Review
<1>4. CASE ExpireLease BY <1>4 DEF ExpireLease
<1>5. CASE Recover BY <1>5 DEF Recover
<1> QED
  BY <1>1, <1>2, <1>3, <1>4, <1>5 DEF Next

(***************************************************************************)
(* A completed job has its paid video and its review item, a completed     *)
(* production has its completed job, whatever ids the runs share.          *)
(***************************************************************************)
THEOREM CompletedIsWhole == Spec => [](CompletedIsReviewable /\ CompletedTogether)
<1>1. Init => DoneInv
  BY DEF Init, DoneInv
<1>2. DoneInv => CompletedIsReviewable /\ CompletedTogether
  BY DEF DoneInv, CompletedIsReviewable, CompletedTogether
<1> QED
  BY <1>1, <1>2, InitTypeOK, NextTypeOK, NextDoneInv, PTL DEF Spec
-----------------------------------------------------------------------------
(***************************************************************************)
(* The publication.                                                        *)
(***************************************************************************)
\* What answers and lookups say is true, and stays true.
TruthInv ==
  /\ \A c \in Call : place[c] = "failing" => answer[c] \in P!InDoubt
  /\ \A c \in Call : place[c] = "recording" /\ answer[c] = "confirmed" => c \in remote
  /\ \A r \in Reconciler : found[r] = "CONFIRMED" => remote # {}
  /\ status = "PUBLISHED" => remote # {}

FenceInv ==
  ~blind /\ ~late =>
    /\ \A c \in Call : P!InAttempt(c) => status = "PUBLISHING"
    /\ \A c, d \in Call : P!InAttempt(c) /\ P!InAttempt(d) => c = d
    /\ holder # None => status \in {"UNKNOWN", "PUBLISHED"}

RetryInv == ~late => \A r \in Reconciler : P!Retrying(r) => holder = r

CopyInv ==
  ~blind /\ ~late =>
    /\ status \in {"ABSENT", "FAILED"} => remote = {}
    /\ \A c \in Call : place[c] = "publishing" => remote = {}
    /\ \A c \in Call : place[c] = "recording" => remote \subseteq {c}
    /\ \A c, d \in remote : c = d
    /\ \A r \in Reconciler :
         rpc[r] \in {"deciding", "acting"} /\ holder = r /\ found[r] = "NOT_FOUND" => remote = {}

PublicationInv == P!TypeOK /\ TruthInv /\ RetryInv /\ FenceInv /\ CopyInv
-----------------------------------------------------------------------------
LEMMA Verdicts ==
  /\ \A a \in P!Answer : P!Verdict(a) \in {"PUBLISHED", "UNKNOWN", "FAILED"}
  /\ \A a \in P!Answer : P!Verdict(a) = "PUBLISHED" <=> a = "confirmed"
  /\ \A a \in P!Answer : P!Verdict(a) = "UNKNOWN" <=> a \in {"ambiguous", "tagged"}
<1>1. /\ P!Verdict("confirmed") = "PUBLISHED"
      /\ P!Verdict("ambiguous") = "UNKNOWN" /\ P!Verdict("tagged") = "UNKNOWN"
      /\ P!Verdict("none") = "FAILED" /\ P!Verdict("rejected") = "FAILED"
      /\ P!Verdict("thrown") = "FAILED"
  BY Zenon DEF P!Verdict
<1> QED
  BY <1>1 DEF P!Answer

LEMMA Truth == \A d \in BOOLEAN : P!Truthful("confirmed", d) => d
  BY Zenon DEF P!Truthful

LEMMA Decisions ==
  ASSUME P!TypeOK, NEW r \in Reconciler
  PROVE  /\ P!Decision(r) \in {"PUBLISHED", "FAILED", "UNKNOWN"}
         /\ P!Decision(r) = "PUBLISHED" => found[r] = "CONFIRMED"
         /\ P!Decision(r) = "FAILED" => found[r] = "NOT_FOUND"
<1>1. CASE found[r] = "CONFIRMED"
  <2>1. P!Decision(r) = "PUBLISHED"
    BY <1>1, Zenon DEF P!Decision
  <2> QED BY <1>1, <2>1
<1>2. CASE found[r] = "NOT_FOUND" /\ budget[r] < MaxAttempts
  <2>1. P!Decision(r) = "FAILED"
    BY <1>2, Zenon DEF P!Decision
  <2> QED BY <1>2, <2>1
<1>3. CASE found[r] # "CONFIRMED" /\ ~(found[r] = "NOT_FOUND" /\ budget[r] < MaxAttempts)
  <2>1. P!Decision(r) = "UNKNOWN"
    BY <1>3, Zenon DEF P!Decision
  <2> QED BY <2>1
<1> QED
  BY <1>1, <1>2, <1>3

LEMMA PublicationInit == P!Init => PublicationInv
<1> SUFFICES ASSUME P!Init PROVE PublicationInv
  OBVIOUS
<1>1. 1 \in P!Attempt
  BY DEF P!Attempt
<1>2. P!TypeOK
  BY <1>1, Zenon DEF P!Init, P!TypeOK, P!Status, P!Answer
<1>3. TruthInv /\ RetryInv /\ FenceInv /\ CopyInv
  BY DEF P!Init, TruthInv, RetryInv, P!Retrying, FenceInv, CopyInv, P!InAttempt
<1> QED
  BY <1>2, <1>3 DEF PublicationInv

(***************************************************************************)
(* One step of each action: the types, the truth of what is known, the     *)
(* fence, and the copies, in that order.                                   *)
(***************************************************************************)
LEMMA PublicationTypeStep == P!TypeOK /\ [P!Next]_(P!vars) => P!TypeOK'
<1> SUFFICES ASSUME P!TypeOK, [P!Next]_(P!vars) PROVE P!TypeOK'
  OBVIOUS
<1> USE DEF P!TypeOK, P!Status, P!Answer, P!Attempt, P!Goto, P!RGoto, P!REnd, P!row, P!recovery
<1>1. CASE UNCHANGED P!vars
  BY <1>1 DEF P!vars
<1>2. ASSUME NEW c \in Call, P!CallStep(c) \/ P!Crash(c) PROVE P!TypeOK'
  <2>1. CASE P!Claim(c) BY <2>1 DEF P!Claim, P!Reclaimable
  <2>2. CASE P!Publish(c) BY <2>2 DEF P!Publish
  <2>3. CASE P!Record(c)
    <3>1. status' \in P!Status
      BY <2>3, Verdicts DEF P!Record, P!Write
    <3>2. blind' \in BOOLEAN
      BY <2>3, Zenon DEF P!Record, P!Write
    <3> QED BY <2>3, <3>1, <3>2 DEF P!Record
  <2>4. CASE P!RecordFailure(c)
    <3>1. blind' \in BOOLEAN
      BY <2>4, Zenon DEF P!RecordFailure, P!Write
    <3> QED BY <2>4, <3>1 DEF P!RecordFailure, P!Write
  <2>5. CASE P!Crash(c) BY <2>5 DEF P!Crash
  <2> QED BY <1>2, <2>1, <2>2, <2>3, <2>4, <2>5 DEF P!CallStep
<1>3. ASSUME NEW r \in Reconciler, P!StartRecovery(r) \/ P!Ask(r) \/ P!GiveUp(r) \/ P!Act(r) \/ P!Settle(r)
      PROVE  P!TypeOK'
  <2>1. CASE P!StartRecovery(r) BY <2>1 DEF P!StartRecovery
  <2>2. CASE P!Ask(r) BY <2>2 DEF P!Ask
  <2>3. CASE P!GiveUp(r) BY <2>3 DEF P!GiveUp
  <2>4. CASE P!Act(r) BY <2>4 DEF P!Act
  <2>5. CASE P!Settle(r) BY <2>5, Decisions DEF P!Settle
  <2> QED BY <1>3, <2>1, <2>2, <2>3, <2>4, <2>5
<1>4. CASE P!ExpireLease BY <1>4 DEF P!ExpireLease
<1> QED
  BY <1>1, <1>2, <1>3, <1>4 DEF P!Next, P!Publishing, P!Asking

LEMMA NextTruthInv == P!TypeOK /\ TruthInv /\ [P!Next]_(P!vars) => TruthInv'
<1> SUFFICES ASSUME P!TypeOK, TruthInv, [P!Next]_(P!vars) PROVE TruthInv'
  OBVIOUS
<1> USE DEF P!TypeOK, TruthInv, P!InDoubt, P!Goto, P!RGoto, P!REnd, P!row, P!recovery
<1>1. CASE UNCHANGED P!vars
  BY <1>1 DEF P!vars
<1>2. ASSUME NEW c \in Call, P!CallStep(c) \/ P!Crash(c) PROVE TruthInv'
  <2>1. CASE P!Claim(c) BY <2>1 DEF P!Claim
  <2>2. CASE P!Publish(c)
    <3>1. PICK a \in P!Answer, d \in BOOLEAN :
            /\ P!Truthful(a, d)
            /\ answer' = [answer EXCEPT ![c] = a]
            /\ remote' = IF d THEN remote \cup {c} ELSE remote
      BY <2>2 DEF P!Publish
    <3>2. a = "confirmed" => c \in remote'
      BY <3>1, Truth
    <3> QED BY <2>2, <3>1, <3>2 DEF P!Publish
  <2>3. CASE P!Record(c) BY <2>3, Verdicts DEF P!Record, P!Write
  <2>4. CASE P!RecordFailure(c) BY <2>4 DEF P!RecordFailure, P!Write
  <2>5. CASE P!Crash(c) BY <2>5 DEF P!Crash
  <2> QED BY <1>2, <2>1, <2>2, <2>3, <2>4, <2>5 DEF P!CallStep
<1>3. ASSUME NEW r \in Reconciler, P!StartRecovery(r) \/ P!Ask(r) \/ P!GiveUp(r) \/ P!Act(r) \/ P!Settle(r)
      PROVE  TruthInv'
  <2>1. CASE P!StartRecovery(r) BY <2>1 DEF P!StartRecovery
  <2>2. CASE P!Ask(r) BY <2>2 DEF P!Ask
  <2>3. CASE P!GiveUp(r) BY <2>3 DEF P!GiveUp
  <2>4. CASE P!Act(r) BY <2>4 DEF P!Act
  <2>5. CASE P!Settle(r) BY <2>5, Decisions DEF P!Settle
  <2> QED BY <1>3, <2>1, <2>2, <2>3, <2>4, <2>5
<1>4. CASE P!ExpireLease BY <1>4 DEF P!ExpireLease
<1> QED
  BY <1>1, <1>2, <1>3, <1>4 DEF P!Next, P!Publishing, P!Asking

LEMMA BlindForEver == P!TypeOK /\ [P!Next]_(P!vars) => (blind => blind')
<1> SUFFICES ASSUME P!TypeOK, [P!Next]_(P!vars), blind PROVE blind'
  OBVIOUS
<1> QED
  BY Zenon DEF P!Next, P!Publishing, P!Asking, P!CallStep, P!vars, P!Claim, P!Publish, P!Record, P!RecordFailure,
     P!Write, P!Crash, P!StartRecovery, P!Ask, P!GiveUp, P!Act, P!Settle, P!ExpireLease

LEMMA LateForEver == P!TypeOK /\ [P!Next]_(P!vars) => (late => late')
<1> SUFFICES ASSUME P!TypeOK, [P!Next]_(P!vars), late PROVE late'
  OBVIOUS
<1> QED
  BY Zenon DEF P!Next, P!Publishing, P!Asking, P!CallStep, P!vars, P!Claim, P!Publish, P!Record,
     P!RecordFailure, P!Crash, P!StartRecovery, P!Ask, P!GiveUp, P!Act, P!Settle, P!ExpireLease

LEMMA RetryingTogether ==
  ASSUME P!TypeOK, NEW r \in Reconciler, UNCHANGED <<rpc[r], found[r], budget[r]>>
  PROVE  P!Retrying(r)' <=> P!Retrying(r)
  BY Zenon DEF P!Retrying, P!Decision

LEMMA NextRetryInv ==
  ASSUME None \notin Reconciler, P!TypeOK, RetryInv, [P!Next]_(P!vars)
  PROVE  RetryInv'
<1> SUFFICES ASSUME ~late', NEW q \in Reconciler, P!Retrying(q)' PROVE holder' = q
  BY DEF RetryInv
<1>0. ~late
  BY LateForEver
<1>1. P!Retrying(q) => holder = q
  BY <1>0 DEF RetryInv
<1>2. rpc'[q] = "acting"
  BY DEF P!Retrying
<1> USE DEF P!TypeOK, P!RGoto, P!REnd, P!recovery, P!row
<1>3. CASE UNCHANGED <<holder, rpc, found, budget>>
  BY <1>1, <1>3, RetryingTogether
<1>4. ASSUME NEW r \in Reconciler, P!StartRecovery(r) \/ P!Ask(r) \/ P!GiveUp(r) \/ P!Act(r) \/ P!Settle(r)
      PROVE  holder' = q
  <2>1. CASE r = q
    BY <1>2, <1>4, <2>1 DEF P!StartRecovery, P!Ask, P!GiveUp, P!Act, P!Settle, P!Owns
  <2>2. CASE r # q
    <3>1. UNCHANGED <<rpc[q], found[q], budget[q]>>
      BY <1>4, <2>2 DEF P!StartRecovery, P!Ask, P!GiveUp, P!Act, P!Settle
    <3>2. holder = q
      BY <1>1, <3>1, RetryingTogether
    <3> QED
      BY <1>4, <2>2, <3>2 DEF P!StartRecovery, P!Ask, P!GiveUp, P!Act, P!Settle
  <2> QED BY <2>1, <2>2
<1>5. CASE P!ExpireLease
  <2>1. UNCHANGED <<rpc, found, budget>> /\ ~P!Retrying(holder)
    BY <1>5, Zenon DEF P!ExpireLease
  <2> QED
    BY <1>1, <2>1, RetryingTogether
<1>6. ASSUME NEW c \in Call, P!CallStep(c) \/ P!Crash(c)
      PROVE  UNCHANGED <<holder, rpc, found, budget>>
  BY <1>6, Zenon DEF P!CallStep, P!Claim, P!Publish, P!Record, P!RecordFailure, P!Crash, P!recovery
<1> QED
  BY <1>3, <1>4, <1>5, <1>6 DEF P!Next, P!Publishing, P!Asking, P!vars

LEMMA FailureIsBlind ==
  ASSUME P!TypeOK, TruthInv, NEW c \in Call, P!RecordFailure(c), ~blind'
  PROVE  UNCHANGED <<status, blind>>
<1>1. answer[c] \in P!InDoubt
  BY DEF TruthInv, P!RecordFailure
<1>2. ~P!Write(c, "FAILED")
  BY <1>1, Zenon DEF P!Write
<1> QED
  BY <1>2, Zenon DEF P!RecordFailure

LEMMA NextFenceInv ==
  ASSUME None \notin Reconciler, P!TypeOK, TruthInv, RetryInv, FenceInv, [P!Next]_(P!vars)
  PROVE  FenceInv'
<1> SUFFICES ASSUME ~blind', ~late'
             PROVE  FenceInv'
  BY DEF FenceInv
<1>0. ~blind /\ ~late
  BY BlindForEver, LateForEver
<1> USE <1>0 DEF P!TypeOK, FenceInv, P!InAttempt, P!Goto, P!RGoto, P!REnd, P!row, P!recovery
<1>1. CASE UNCHANGED P!vars
  BY <1>1 DEF P!vars
<1>2. ASSUME NEW c \in Call, P!CallStep(c) \/ P!Crash(c) PROVE FenceInv'
  <2>1. CASE P!Claim(c) BY <2>1 DEF P!Claim, P!Reclaimable
  <2>2. CASE P!Publish(c) BY <2>2 DEF P!Publish
  <2>3. CASE P!Record(c) BY <2>3, Verdicts DEF P!Record, P!Write
  <2>4. CASE P!RecordFailure(c) BY <2>4, FailureIsBlind DEF P!RecordFailure
  <2>5. CASE P!Crash(c) BY <2>5 DEF P!Crash
  <2> QED BY <1>2, <2>1, <2>2, <2>3, <2>4, <2>5 DEF P!CallStep
<1>3. ASSUME NEW r \in Reconciler, P!StartRecovery(r) \/ P!Ask(r) \/ P!GiveUp(r) \/ P!Act(r) \/ P!Settle(r)
      PROVE  FenceInv'
  <2>1. CASE P!StartRecovery(r) BY <2>1 DEF P!StartRecovery
  <2>2. CASE P!Ask(r) BY <2>2 DEF P!Ask
  <2>3. CASE P!GiveUp(r) BY <2>3 DEF P!GiveUp
  <2>4. CASE P!Act(r) BY <2>4 DEF P!Act
  <2>5. CASE P!Settle(r)
    <3>1. P!Decision(r) = "FAILED" => holder = r
      BY <1>0, <2>5 DEF RetryInv, P!Retrying, P!Settle
    <3> QED BY <2>5, <3>1, Decisions DEF P!Settle
  <2> QED BY <1>3, <2>1, <2>2, <2>3, <2>4, <2>5
<1>4. CASE P!ExpireLease BY <1>4 DEF P!ExpireLease
<1> QED
  BY <1>1, <1>2, <1>3, <1>4 DEF P!Next, P!Publishing, P!Asking

LEMMA NextCopyInv ==
  ASSUME None \notin Reconciler, P!TypeOK, TruthInv, RetryInv, FenceInv, CopyInv, [P!Next]_(P!vars)
  PROVE  CopyInv'
<1> SUFFICES ASSUME ~blind', ~late'
             PROVE  CopyInv'
  BY DEF CopyInv
<1>0. ~blind /\ ~late
  BY BlindForEver, LateForEver
<1> USE <1>0 DEF P!TypeOK, FenceInv, CopyInv, P!InAttempt, P!Goto, P!RGoto, P!REnd, P!row, P!recovery
<1>1. CASE UNCHANGED P!vars
  BY <1>1 DEF P!vars
<1>2. ASSUME NEW c \in Call, P!CallStep(c) \/ P!Crash(c) PROVE CopyInv'
  <2>1. CASE P!Claim(c) BY <2>1 DEF P!Claim, P!Reclaimable
  <2>2. CASE P!Publish(c) BY <2>2 DEF P!Publish
  <2>3. CASE P!Record(c)
    <3>1. CASE UNCHANGED status
      BY <2>3, <3>1, Verdicts DEF P!Record
    <3>2. CASE P!Write(c, P!Verdict(answer[c]))
      <4>1. P!Verdict(answer[c]) = "FAILED" => c \notin remote
        BY <3>2, Zenon DEF P!Write
      <4> QED
        BY <2>3, <3>2, <4>1, Verdicts DEF P!Record, P!Write
    <3> QED BY <2>3, <3>1, <3>2 DEF P!Record
  <2>4. CASE P!RecordFailure(c) BY <2>4, FailureIsBlind DEF P!RecordFailure
  <2>5. CASE P!Crash(c) BY <2>5 DEF P!Crash
  <2> QED BY <1>2, <2>1, <2>2, <2>3, <2>4, <2>5 DEF P!CallStep
<1>3. ASSUME NEW r \in Reconciler, P!StartRecovery(r) \/ P!Ask(r) \/ P!GiveUp(r) \/ P!Act(r) \/ P!Settle(r)
      PROVE  CopyInv'
  <2>1. CASE P!StartRecovery(r) BY <2>1 DEF P!StartRecovery
  <2>2. CASE P!Ask(r) BY <2>2 DEF P!Ask
  <2>3. CASE P!GiveUp(r) BY <2>3 DEF P!GiveUp
  <2>4. CASE P!Act(r) BY <2>4 DEF P!Act, P!Owns
  <2>5. CASE P!Settle(r)
    <3>1. P!Decision(r) = "FAILED" => holder = r
      BY <1>0, <2>5 DEF RetryInv, P!Retrying, P!Settle
    <3> QED BY <2>5, <3>1, Decisions DEF P!Settle
  <2> QED BY <1>3, <2>1, <2>2, <2>3, <2>4, <2>5
<1>4. CASE P!ExpireLease BY <1>4 DEF P!ExpireLease
<1> QED
  BY <1>1, <1>2, <1>3, <1>4 DEF P!Next, P!Publishing, P!Asking

LEMMA PublicationStep ==
  ASSUME None \notin Reconciler, PublicationInv, [P!Next]_(P!vars)
  PROVE  PublicationInv'
  BY PublicationTypeStep, NextTruthInv, NextRetryInv, NextFenceInv, NextCopyInv DEF PublicationInv
-----------------------------------------------------------------------------
(***************************************************************************)
(* The unique key fences executions, and claims, lookups and the lease     *)
(* deliver at most one copy, until a call writes FAILED for a delivery     *)
(* that was made or in doubt, or a lease runs out between its last check   *)
(* and the write of the SAFE_RETRY that was checked under it.              *)
(***************************************************************************)
THEOREM OneCopy ==
  ASSUME None \notin Reconciler
  PROVE  P!Spec => [](P!OneExecutionUnlessBlindOrLate /\ P!OneCopyUnlessBlindOrLate)
<1>1. PublicationInv => P!OneExecutionUnlessBlindOrLate /\ P!OneCopyUnlessBlindOrLate
  BY DEF PublicationInv, FenceInv, CopyInv, P!OneExecutionUnlessBlindOrLate, P!OneCopyUnlessBlindOrLate
<1> QED
  BY <1>1, PublicationInit, PublicationStep, PTL DEF P!Spec

(***************************************************************************)
(* What is recorded as PUBLISHED is at the destination, by the word of the *)
(* publisher or of a lookup.                                               *)
(***************************************************************************)
THEOREM PublishedThere ==
  ASSUME None \notin Reconciler
  PROVE  P!Spec => [](P!TypeOK /\ P!PublishedIsThere)
<1>1. PublicationInv => P!TypeOK /\ P!PublishedIsThere
  BY DEF PublicationInv, TruthInv, P!PublishedIsThere
<1> QED
  BY <1>1, PublicationInit, PublicationStep, PTL DEF P!Spec
===============================================================================
