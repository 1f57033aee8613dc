------------------------ MODULE DurableExecutionProofs ------------------------
(***************************************************************************)
(* Theorems about the two durable executors, MediaExecution and            *)
(* FastRender, for any set of calls and any assignment of worker ids to    *)
(* them.                                                                   *)
(*                                                                         *)
(* Of MediaExecution the inductive invariant has three parts: DataInv ties *)
(* what each call holds to the artifact file and to the provider;          *)
(* BoundaryInv says that who may pay has marked the boundary; PaymentInv   *)
(* says that, as long as nothing put the row back to RETRYABLE from beyond *)
(* the boundary, the row stays beyond it once a call may pay, so no other  *)
(* call comes to pay.                                                      *)
(***************************************************************************)
EXTENDS MediaExecution, TLAPS

VARIABLES owner, task, artifact, fate, at, using, crossed, answer, reviewed, holder, reset  \* of the renderer

\* The renderer of masters; its row has a status, and its calls see one, of their own.
R == INSTANCE FastRender

HoldsGeneration == {"recording", "polling", "inspecting", "storing", "filling",
                    "documenting", "adopting", "registering"}
HoldsOutput == {"inspecting", "storing", "filling", "documenting",
                "adopting", "registering"}
Unpaid == {"idle", "ensured", "claiming", "claimed", "submitting"}
HoldsStored == {"filling", "documenting", "adopting", "registering"}

\* What a call works on is a generation, from the request to the registration.
HeldOK == \A c \in Call : pc[c] \in HoldsGeneration => media[c] \in Call
TypeInv == TypeOK /\ HeldOK

\* What is held, stored and adopted came from the provider through the file.
DataInv ==
  /\ \A c \in Call : pc[c] \in Unpaid => ~Paid(c)
  /\ \A c \in Call : pc[c] = "recording" => media[c] = c
  /\ \A c \in Call : pc[c] \in HoldsOutput => provider[media[c]] = "succeeded"
  /\ \A c \in Call : pc[c] \in HoldsStored => file = media[c]
  /\ \A c \in Call : pc[c] \in {"cached", "done"} =>
                       file # None /\ media[c] \in {file, Torn}
  /\ adopted # None => file # None /\ adopted \in {file, Torn}
  /\ status = "SUCCEEDED" => adopted # None
  /\ file # None => provider[file] = "succeeded"
  /\ whole => file # None

BoundaryInv ==
  \A c \in Call : pc[c] = "submitting" \/ Paid(c) => boundary

Holder(c) == pc[c] = "submitting" \/ Paid(c)

PaymentInv ==
  ~resets =>
    /\ \A c \in Call : Holder(c) => status \in Crossed
    /\ \A c, d \in Call : Holder(c) /\ Holder(d) => c = d

IInv == TypeInv /\ DataInv /\ BoundaryInv /\ PaymentInv

USE WorkerAssumption, NoneAssumption, TornAssumption

(***************************************************************************)
(* Type correctness: the row, the file and every call stay within the      *)
(* statuses of the table's CHECK constraint and the program points.        *)
(***************************************************************************)
LEMMA InitTypeInv == Init => TypeInv
  BY DEF Init, TypeInv, TypeOK, HeldOK, Status, Outcome, Location, Failure, HoldsGeneration

LEMMA NextTypeInv == TypeInv /\ [Next]_vars => TypeInv'
<1> SUFFICES ASSUME TypeInv, [Next]_vars PROVE TypeInv'
  OBVIOUS
<1> USE DEF TypeInv, TypeOK, HeldOK, HoldsGeneration, Status, Outcome,
            Location, Failure, Goto, FailWith, Written, row, copy
<1>1. CASE UNCHANGED vars
  BY <1>1 DEF vars
<1>2. ASSUME NEW c \in Call, Step(c) \/ Crash(c) PROVE TypeInv'
  <2>1. CASE Ensure(c) BY <2>1 DEF Ensure
  <2>2. CASE FindCached(c) BY <2>2 DEF FindCached, Bytes
  <2>3. CASE Branch(c) BY <2>3 DEF Branch
  <2>4. CASE Claim(c) BY <2>4 DEF Claim
  <2>5. CASE MarkBoundary(c)
    <3>1. boundary' \in BOOLEAN
      BY <2>5, Zenon DEF MarkBoundary
    <3> QED
      BY <2>5, <3>1 DEF MarkBoundary
  <2>6. CASE Submit(c) BY <2>6 DEF Submit
  <2>7. CASE RecordRequest(c) BY <2>7 DEF RecordRequest
  <2>8. CASE Poll(c) BY <2>8 DEF Poll
  <2>9. CASE Inspect(c) BY <2>9 DEF Inspect
  <2>10. CASE StoreArtifact(c) BY <2>10 DEF StoreArtifact
  <2>11. CASE FillArtifact(c)
    <3>1. whole' \in BOOLEAN
      BY <2>11, Zenon DEF FillArtifact
    <3> QED
      BY <2>11, <3>1 DEF FillArtifact
  <2>12. CASE StoreProvenance(c) BY <2>12 DEF StoreProvenance
  <2>13. CASE Adopt(c) BY <2>13 DEF Adopt, Succeed
  <2>14. CASE AdoptCached(c) BY <2>14 DEF AdoptCached, Succeed, Recorded
  <2>15. CASE Register(c) BY <2>15 DEF Register
  <2>16. CASE MarkFailure(c)
    <3>1. resets' \in BOOLEAN
      BY <2>16, Zenon DEF MarkFailure
    <3>2. FailureStatus(failure[c]) \in Status
      BY Zenon DEF FailureStatus
    <3> QED
      BY <2>16, <3>1, <3>2 DEF MarkFailure
  <2>17. CASE Crash(c) BY <2>17 DEF Crash
  <2> QED
    BY <1>2, <2>1, <2>2, <2>3, <2>4, <2>5, <2>6, <2>7, <2>8, <2>9, <2>10, <2>11,
       <2>12, <2>13, <2>14, <2>15, <2>16, <2>17 DEF Step
<1> QED
  BY <1>1, <1>2 DEF Next

\* Type correctness of the row, the file, the provider and every call.
THEOREM TypeCorrect == Spec => []TypeOK
<1>1. TypeInv => TypeOK
  BY DEF TypeInv
<1> QED
  BY <1>1, InitTypeInv, NextTypeInv, PTL DEF Spec
-----------------------------------------------------------------------------
(***************************************************************************)
(* The mark of the boundary precedes every payment: a call reaches the     *)
(* paid request only through markBoundary(), and nothing clears the mark.  *)
(***************************************************************************)
LEMMA NextBoundaryInv == TypeInv /\ BoundaryInv /\ [Next]_vars => BoundaryInv'
<1> SUFFICES ASSUME TypeInv, BoundaryInv, [Next]_vars PROVE BoundaryInv'
  OBVIOUS
<1> USE DEF TypeInv, TypeOK, HeldOK, HoldsGeneration, BoundaryInv, Paid,
            Goto, FailWith, Written, row, copy
<1>1. CASE UNCHANGED vars
  BY <1>1 DEF vars
<1>2. ASSUME NEW c \in Call, Step(c) \/ Crash(c) PROVE BoundaryInv'
  <2>1. CASE Ensure(c) BY <2>1 DEF Ensure
  <2>2. CASE FindCached(c) BY <2>2 DEF FindCached
  <2>3. CASE Branch(c) BY <2>3 DEF Branch
  <2>4. CASE Claim(c) BY <2>4 DEF Claim
  <2>5. CASE MarkBoundary(c)
    <3>1. CASE boundary'
      BY <3>1
    <3>2. CASE FailWith(c, "before")
      BY <2>5, <3>2 DEF MarkBoundary
    <3> QED
      BY <2>5, <3>1, <3>2, Zenon DEF MarkBoundary
  <2>6. CASE Submit(c) BY <2>6 DEF Submit
  <2>7. CASE RecordRequest(c) BY <2>7 DEF RecordRequest
  <2>8. CASE Poll(c) BY <2>8 DEF Poll
  <2>9. CASE Inspect(c) BY <2>9 DEF Inspect
  <2>10. CASE StoreArtifact(c) BY <2>10 DEF StoreArtifact
  <2>11. CASE FillArtifact(c) BY <2>11 DEF FillArtifact
  <2>12. CASE StoreProvenance(c) BY <2>12 DEF StoreProvenance
  <2>13. CASE Adopt(c) BY <2>13 DEF Adopt, Succeed
  <2>14. CASE AdoptCached(c) BY <2>14 DEF AdoptCached, Succeed, Recorded
  <2>15. CASE Register(c) BY <2>15 DEF Register
  <2>16. CASE MarkFailure(c) BY <2>16 DEF MarkFailure
  <2>17. CASE Crash(c) BY <2>17 DEF Crash
  <2> QED
    BY <1>2, <2>1, <2>2, <2>3, <2>4, <2>5, <2>6, <2>7, <2>8, <2>9, <2>10, <2>11,
       <2>12, <2>13, <2>14, <2>15, <2>16, <2>17 DEF Step
<1> QED
  BY <1>1, <1>2 DEF Next

\* No generation is paid for before provider_boundary_at is set.
THEOREM NoPaymentBeforeBoundary == Spec => []BoundaryBeforePayment
<1>1. Init => BoundaryInv
  BY DEF Init, BoundaryInv, Paid
<1>2. BoundaryInv => BoundaryBeforePayment
  BY DEF BoundaryInv, BoundaryBeforePayment
<1> QED
  BY <1>1, <1>2, InitTypeInv, NextTypeInv, NextBoundaryInv, PTL DEF Spec
-----------------------------------------------------------------------------
(***************************************************************************)
(* The bytes: an output is generated before it is held, held before it is  *)
(* stored, stored before it is adopted, and the file is created once.      *)
(***************************************************************************)
LEMMA NextDataInv == TypeInv /\ DataInv /\ [Next]_vars => DataInv'
<1> SUFFICES ASSUME TypeInv, DataInv, [Next]_vars PROVE DataInv'
  OBVIOUS
<1> USE DEF TypeInv, TypeOK, HeldOK, HoldsGeneration, DataInv, HoldsOutput,
            HoldsStored, Unpaid, Paid, Goto, FailWith, Written, row, copy
<1>1. CASE UNCHANGED vars
  BY <1>1 DEF vars
<1>2. ASSUME NEW c \in Call, Step(c) \/ Crash(c) PROVE DataInv'
  <2>1. CASE Ensure(c) BY <2>1 DEF Ensure
  <2>2. CASE FindCached(c) BY <2>2 DEF FindCached, Bytes
  <2>3. CASE Branch(c) BY <2>3 DEF Branch
  <2>4. CASE Claim(c) BY <2>4 DEF Claim
  <2>5. CASE MarkBoundary(c) BY <2>5 DEF MarkBoundary
  <2>6. CASE Submit(c) BY <2>6 DEF Submit
  <2>7. CASE RecordRequest(c) BY <2>7 DEF RecordRequest
  <2>8. CASE Poll(c) BY <2>8 DEF Poll
  <2>9. CASE Inspect(c) BY <2>9 DEF Inspect
  <2>10. CASE StoreArtifact(c) BY <2>10 DEF StoreArtifact, Bytes
  <2>11. CASE FillArtifact(c)
    <3>1. file' = file /\ file # None
      BY <2>11 DEF FillArtifact
    <3> QED
      BY <2>11, <3>1 DEF FillArtifact
  <2>12. CASE StoreProvenance(c) BY <2>12 DEF StoreProvenance
  <2>13. CASE Adopt(c) BY <2>13 DEF Adopt, Succeed
  <2>14. CASE AdoptCached(c) BY <2>14 DEF AdoptCached, Succeed, Recorded
  <2>15. CASE Register(c) BY <2>15 DEF Register
  <2>16. CASE MarkFailure(c) BY <2>16 DEF MarkFailure, FailureStatus
  <2>17. CASE Crash(c) BY <2>17 DEF Crash
  <2> QED
    BY <1>2, <2>1, <2>2, <2>3, <2>4, <2>5, <2>6, <2>7, <2>8, <2>9, <2>10, <2>11,
       <2>12, <2>13, <2>14, <2>15, <2>16, <2>17 DEF Step
<1> QED
  BY <1>1, <1>2 DEF Next

-----------------------------------------------------------------------------
(***************************************************************************)
(* One payment: while no refusal overwrote the row, a status beyond the    *)
(* boundary is never left, a claim needs one before it, and the call that  *)
(* holds the claim is the only one that has paid or may still pay.         *)
(***************************************************************************)
LEMMA NextPaymentInv ==
  TypeInv /\ DataInv /\ PaymentInv /\ [Next]_vars => PaymentInv'
<1> SUFFICES ASSUME TypeInv, DataInv, PaymentInv, [Next]_vars, ~resets' PROVE PaymentInv'
  BY DEF PaymentInv
<1> USE DEF TypeInv, TypeOK, HeldOK, HoldsGeneration, DataInv, HoldsOutput,
            HoldsStored, Unpaid, Paid, PaymentInv, Crossed, Holder,
            Unresolved, Claimable, Mine, Goto, FailWith, Written, row, copy
<1>1. CASE UNCHANGED vars
  BY <1>1 DEF vars
<1>2. ASSUME NEW c \in Call, Step(c) \/ Crash(c) PROVE PaymentInv'
  <2>1. CASE Ensure(c) BY <2>1 DEF Ensure
  <2>2. CASE FindCached(c) BY <2>2 DEF FindCached, Bytes
  <2>3. CASE Branch(c) BY <2>3 DEF Branch
  <2>4. CASE Claim(c) BY <2>4 DEF Claim
  <2>5. CASE MarkBoundary(c) BY <2>5 DEF MarkBoundary
  <2>6. CASE Submit(c) BY <2>6 DEF Submit
  <2>7. CASE RecordRequest(c) BY <2>7 DEF RecordRequest
  <2>8. CASE Poll(c) BY <2>8 DEF Poll
  <2>9. CASE Inspect(c) BY <2>9 DEF Inspect
  <2>10. CASE StoreArtifact(c) BY <2>10 DEF StoreArtifact, Bytes
  <2>11. CASE FillArtifact(c) BY <2>11 DEF FillArtifact
  <2>12. CASE StoreProvenance(c) BY <2>12 DEF StoreProvenance
  <2>13. CASE Adopt(c) BY <2>13 DEF Adopt, Succeed
  <2>14. CASE AdoptCached(c) BY <2>14 DEF AdoptCached, Succeed, Recorded
  <2>15. CASE Register(c) BY <2>15 DEF Register
  <2>16. CASE MarkFailure(c)
    <3>1. ~resets
      BY <2>16, Zenon DEF MarkFailure
    <3>2. status \in Crossed => status' \in Crossed
      BY <2>16, Zenon DEF MarkFailure
    <3> QED
      BY <2>16, <3>1, <3>2 DEF MarkFailure
  <2>17. CASE Crash(c) BY <2>17 DEF Crash
  <2> QED
    BY <1>2, <2>1, <2>2, <2>3, <2>4, <2>5, <2>6, <2>7, <2>8, <2>9, <2>10, <2>11,
       <2>12, <2>13, <2>14, <2>15, <2>16, <2>17 DEF Step
<1> QED
  BY <1>1, <1>2 DEF Next

LEMMA InitIInv == Init => IInv
<1>1. Init => DataInv /\ BoundaryInv
  BY DEF Init, DataInv, BoundaryInv, Paid, HoldsOutput, HoldsStored
<1>2. Init => PaymentInv
  BY DEF Init, PaymentInv, Paid, Holder
<1> QED
  BY <1>1, <1>2, InitTypeInv DEF IInv

LEMMA NextIInv == IInv /\ [Next]_vars => IInv'
  BY NextTypeInv, NextDataInv, NextBoundaryInv, NextPaymentInv DEF IInv

(***************************************************************************)
(* Whatever the number of calls and however they share worker ids, the     *)
(* asset is bought once unless a refusal was written over its row.         *)
(***************************************************************************)
THEOREM OnePayment == Spec => []OnePaymentUntilReset
<1>1. IInv => OnePaymentUntilReset
  BY DEF IInv, PaymentInv, OnePaymentUntilReset, Holder
<1> QED
  BY <1>1, InitIInv, NextIInv, PTL DEF Spec

(***************************************************************************)
(* A row that says SUCCEEDED names content of the file that exists, and    *)
(* the file holds what the provider reported as generated.                 *)
(***************************************************************************)
THEOREM SucceededServable == Spec => [](SucceededIsServable /\ StoredBytesWereGenerated)
<1>1. IInv => SucceededIsServable /\ StoredBytesWereGenerated
  BY DEF IInv, DataInv, SucceededIsServable, StoredBytesWereGenerated
<1> QED
  BY <1>1, InitIInv, NextIInv, PTL DEF Spec
-----------------------------------------------------------------------------
(***************************************************************************)
(* Refinement.  A step that neither ends a call nor creates the file is    *)
(* invisible to those who were answered.                                   *)
(***************************************************************************)
LEMMA SilentStep ==
  ASSUME NEW c \in Call, pc[c] # "done", pc'[c] # "done",
         \A d \in Call \ {c} : pc'[d] = pc[d] /\ media'[d] = media[d]
  PROVE  Answered' = Answered
  BY DEF Answered

LEMMA EndingStep ==
  ASSUME TypeOK, NEW c \in Call, pc[c] # "done", Goto(c, "done"),
         UNCHANGED <<media, file>>, file # None, media[c] \in {file, Torn}
  PROVE  Artifact!Answer(c) \/ UNCHANGED <<file, Answered>>
<1>1. \A d \in Call \ {c} : Answered'[d] = Answered[d]
  BY DEF TypeOK, Goto, Answered
<1>2. Answered[c] = None
  BY DEF Answered
<1>3. Answered'[c] = IF media[c] # Torn THEN file ELSE None
  BY DEF TypeOK, Goto, Answered
<1>4. CASE media[c] = Torn
  BY <1>1, <1>2, <1>3, <1>4 DEF Answered
<1>5. CASE media[c] # Torn
  <2>1. Answered' = [Answered EXCEPT ![c] = file]
    BY <1>1, <1>3, <1>5 DEF Answered
  <2> QED
    BY <2>1, <1>2 DEF Artifact!Answer
<1> QED
  BY <1>4, <1>5

LEMMA NextRefines ==
  IInv /\ [Next]_vars => [Artifact!Next]_<<file, Answered>>
<1> SUFFICES ASSUME IInv, [Next]_vars
             PROVE  Artifact!Next \/ UNCHANGED <<file, Answered>>
  OBVIOUS
<1> USE DEF IInv, TypeInv, TypeOK, HeldOK, HoldsGeneration, Goto, FailWith, Written, row, copy
<1>1. CASE UNCHANGED vars
  BY <1>1 DEF vars, Answered
<1>2. ASSUME NEW c \in Call, Step(c) \/ Crash(c)
      PROVE  \/ \E v \in Call : Artifact!Fix(v)
             \/ Artifact!Answer(c)
             \/ UNCHANGED <<file, Answered>>
  <2>1. CASE Ensure(c) BY <2>1, SilentStep DEF Ensure
  <2>2. CASE FindCached(c) BY <2>2, SilentStep DEF FindCached
  <2>3. CASE Branch(c) BY <2>3, SilentStep DEF Branch
  <2>4. CASE Claim(c) BY <2>4, SilentStep DEF Claim
  <2>5. CASE MarkBoundary(c) BY <2>5, SilentStep DEF MarkBoundary
  <2>6. CASE Submit(c) BY <2>6, SilentStep DEF Submit
  <2>7. CASE RecordRequest(c) BY <2>7, SilentStep DEF RecordRequest
  <2>8. CASE Poll(c) BY <2>8, SilentStep DEF Poll
  <2>9. CASE Inspect(c) BY <2>9, SilentStep DEF Inspect
  <2>10. CASE StoreArtifact(c)
    <3>1. Answered' = Answered
      BY <2>10, SilentStep DEF StoreArtifact
    <3>2. UNCHANGED file \/ (file = None /\ file' = media[c] /\ media[c] \in Call)
      BY <2>10 DEF StoreArtifact
    <3> QED
      BY <3>1, <3>2 DEF Artifact!Fix
  <2>11. CASE FillArtifact(c) BY <2>11, SilentStep DEF FillArtifact
  <2>12. CASE StoreProvenance(c) BY <2>12, SilentStep DEF StoreProvenance
  <2>13. CASE Adopt(c) BY <2>13, SilentStep DEF Adopt
  <2>14. CASE AdoptCached(c)
    <3>1. CASE Goto(c, "done")
      BY <2>14, <3>1, EndingStep DEF AdoptCached, DataInv
    <3>2. CASE Goto(c, "failed")
      BY <2>14, <3>2, SilentStep DEF AdoptCached
    <3> QED
      BY <2>14, <3>1, <3>2 DEF AdoptCached
  <2>15. CASE Register(c)
    <3>1. CASE Goto(c, "done")
      <4>1. file = media[c] /\ media[c] \in Call
        BY <2>15 DEF Register, DataInv, HoldsStored
      <4>2. pc[c] # "done" /\ UNCHANGED <<media, file>>
        BY <2>15 DEF Register
      <4> QED
        BY <3>1, <4>1, <4>2, EndingStep
    <3>2. CASE Goto(c, "failing")
      BY <2>15, <3>2, SilentStep DEF Register
    <3> QED
      BY <2>15, <3>1, <3>2 DEF Register
  <2>16. CASE MarkFailure(c) BY <2>16, SilentStep DEF MarkFailure
  <2>17. CASE Crash(c) BY <2>17, SilentStep DEF Crash, Ended
  <2> QED
    BY <1>2, <2>1, <2>2, <2>3, <2>4, <2>5, <2>6, <2>7, <2>8, <2>9, <2>10, <2>11,
       <2>12, <2>13, <2>14, <2>15, <2>16, <2>17 DEF Step
<1> QED
  BY <1>1, <1>2 DEF Next, Artifact!Next

(***************************************************************************)
(* The artifact key implements the write-once register.                    *)
(***************************************************************************)
THEOREM Refinement == Spec => ImplementsImmutableArtifact
<1>1. Init => Artifact!Init
  BY DEF Init, Artifact!Init, Answered
<1> QED
  BY <1>1, InitIInv, NextIInv, NextRefines, PTL
     DEF Spec, ImplementsImmutableArtifact, Artifact!Spec, Artifact!artifactVars

-----------------------------------------------------------------------------
(***************************************************************************)
(* The renderer.  RenderDataInv ties what a call follows, stores and       *)
(* answers to the tasks and to the artifact.  CrossedInv says who has      *)
(* passed the boundary.  RenderClaimInv says that, as long as no claim was *)
(* reset by another call, the last to claim is the only one who marks or   *)
(* posts, and nobody is past the boundary while it is not.                 *)
(***************************************************************************)
Unposted == {"idle", "looking", "adopting_cached", "claiming", "marking", "posting"}
Follows == {"accepting", "polling", "storing", "documenting", "adopting", "registering"}
RenderHoldsStored == {"documenting", "adopting", "registering"}
Rendered == {"storing", "documenting", "adopting", "registering"}

\* A call that has accepted follows a task; the cached master is there.
RenderHeldOK ==
  \A c \in Call :
    /\ at[c] \in Follows => using[c] \in Call
    /\ at[c] = "adopting_cached" => artifact \in Call
RenderTypeInv == R!TypeOK /\ RenderHeldOK

\* What a call follows and what the row names is a task that was posted.
FollowInv ==
  /\ task # None => fate[task] # "none"
  /\ \A c \in Call : using[c] # None => fate[using[c]] # "none"
  /\ \A c \in Call : at[c] = "accepting" => using[c] = c
  /\ \A c \in Call : at[c] \in Unposted => fate[c] = "none"

\* What is stored is a valid output; who stores, adopts or answers has it.
RenderDataInv ==
  /\ \A c \in Call : at[c] \in Rendered => fate[using[c]] \in {"good", "bad"}
  /\ \A c \in Call : at[c] \in RenderHoldsStored => artifact = using[c]
  /\ \A c \in Call : at[c] # "ended" => answer[c] = None
  /\ \A c \in Call : answer[c] # None => answer[c] = artifact
  /\ R!ReviewedIsStored

CrossedInv ==
  \A c \in Call : at[c] \in Follows \cup {"posting", "failing_terminal", "failing_validation"} =>
    c \in crossed

Quiet == crossed = {} /\ \A c \in Call : fate[c] = "none"

RenderClaimInv ==
  ~reset =>
    /\ holder \notin crossed => Quiet
    /\ status \in {"NOT_STARTED", "RETRYABLE", "RUNNING"} => Quiet
    /\ \A c \in Call : at[c] = "marking" => holder = c /\ status = "RUNNING"
    /\ \A c \in Call : at[c] = "posting" => holder = c /\ \A d \in Call : fate[d] = "none"
    /\ \A c \in Call : fate[c] # "none" => holder = c

RenderIInv == RenderTypeInv /\ FollowInv /\ RenderDataInv /\ CrossedInv /\ RenderClaimInv

(***************************************************************************)
(* Type correctness: the row stays within the statuses of the table and    *)
(* every call within its program points.                                   *)
(***************************************************************************)
LEMMA InitRenderTypeInv == R!Init => RenderTypeInv
  BY DEF R!Init, RenderTypeInv, R!TypeOK, RenderHeldOK, Follows, R!Status, R!Fate, R!Location

LEMMA NextRenderTypeInv == RenderTypeInv /\ [R!Next]_(R!vars) => RenderTypeInv'
<1> SUFFICES ASSUME RenderTypeInv, [R!Next]_(R!vars) PROVE RenderTypeInv'
  OBVIOUS
<1> USE DEF RenderTypeInv, R!TypeOK, RenderHeldOK, Follows, R!Status, R!Fate, R!Location, R!Goto, R!row, R!local, R!history
<1>1. CASE UNCHANGED R!vars
  BY <1>1 DEF R!vars
<1>2. ASSUME NEW c \in Call, R!Step(c) \/ R!Crash(c) \/ R!Render(c) PROVE RenderTypeInv'
  <2>1. CASE R!Ensure(c) BY <2>1 DEF R!Ensure
  <2>2. CASE R!Look(c) BY <2>2 DEF R!Look, R!Branch
  <2>3. CASE R!AdoptCached(c) BY <2>3 DEF R!AdoptCached
  <2>4. CASE R!Claim(c) BY <2>4 DEF R!Claim
  <2>5. CASE R!ClaimFails(c) BY <2>5 DEF R!ClaimFails
  <2>6. CASE R!MarkBoundary(c) BY <2>6 DEF R!MarkBoundary
  <2>7. CASE R!Post(c) BY <2>7 DEF R!Post
  <2>8. CASE R!RecordAccepted(c) BY <2>8 DEF R!RecordAccepted
  <2>9. CASE R!Poll(c)
    <3>1. status' \in R!Status
      BY <2>9 DEF R!Poll, R!RecordStatus
    <3>2. PICK l \in {"polling", "storing", "failing", "failing_terminal"} : R!Goto(c, l)
      BY <2>9 DEF R!Poll, R!Polled
    <3> QED
      BY <2>9, <3>1, <3>2 DEF R!Poll
  <2>10. CASE R!Store(c) BY <2>10 DEF R!Store
  <2>11. CASE R!Document(c) BY <2>11 DEF R!Document
  <2>12. CASE R!Adopt(c) BY <2>12 DEF R!Adopt
  <2>13. CASE R!Register(c) BY <2>13 DEF R!Register
  <2>14. CASE R!MarkFailure(c)
    <3>1. reset' \in BOOLEAN
      BY <2>14, Zenon DEF R!MarkFailure
    <3>2. R!FailureStatus(c) \in R!Status
      BY Zenon DEF R!FailureStatus
    <3> QED
      BY <2>14, <3>1, <3>2 DEF R!MarkFailure
  <2>15. CASE R!Crash(c) BY <2>15 DEF R!Crash
  <2>16. CASE R!Render(c) BY <2>16 DEF R!Render
  <2> QED
    BY <1>2, <2>1, <2>2, <2>3, <2>4, <2>5, <2>6, <2>7, <2>8, <2>9, <2>10, <2>11,
       <2>12, <2>13, <2>14, <2>15, <2>16 DEF R!Step
<1> QED
  BY <1>1, <1>2 DEF R!Next

\* Type correctness of the row, the renderer's tasks and every call.
THEOREM RenderTypeCorrect == R!Spec => []R!TypeOK
<1>1. RenderTypeInv => R!TypeOK
  BY DEF RenderTypeInv
<1> QED
  BY <1>1, InitRenderTypeInv, NextRenderTypeInv, PTL DEF R!Spec
-----------------------------------------------------------------------------
(***************************************************************************)
(* The tasks: whoever follows a task, and the row that names one, has it   *)
(* from an answer of the renderer or from the row.                         *)
(***************************************************************************)
LEMMA NextFollowInv ==
  RenderTypeInv /\ FollowInv /\ [R!Next]_(R!vars) => FollowInv'
<1> SUFFICES ASSUME RenderTypeInv, FollowInv, [R!Next]_(R!vars) PROVE FollowInv'
  OBVIOUS
<1> USE DEF RenderTypeInv, R!TypeOK, RenderHeldOK, Follows, R!Goto, R!row, R!local, R!history,
            FollowInv, Unposted, R!Fate
<1>1. CASE UNCHANGED R!vars
  BY <1>1 DEF R!vars
<1>2. ASSUME NEW c \in Call, R!Step(c) \/ R!Crash(c) \/ R!Render(c) PROVE FollowInv'
  <2>1. CASE R!Ensure(c) BY <2>1 DEF R!Ensure
  <2>2. CASE R!Look(c) BY <2>2 DEF R!Look, R!Branch
  <2>3. CASE R!AdoptCached(c) BY <2>3 DEF R!AdoptCached
  <2>4. CASE R!Claim(c) BY <2>4 DEF R!Claim
  <2>5. CASE R!ClaimFails(c) BY <2>5 DEF R!ClaimFails
  <2>6. CASE R!MarkBoundary(c) BY <2>6 DEF R!MarkBoundary
  <2>7. CASE R!Post(c) BY <2>7 DEF R!Post
  <2>8. CASE R!RecordAccepted(c) BY <2>8 DEF R!RecordAccepted
  <2>9. CASE R!Poll(c)
    <3>1. PICK l \in {"polling", "storing", "failing", "failing_terminal"} : R!Goto(c, l)
      BY <2>9 DEF R!Poll, R!Polled
    <3> QED
      BY <2>9, <3>1 DEF R!Poll
  <2>10. CASE R!Store(c) BY <2>10 DEF R!Store
  <2>11. CASE R!Document(c) BY <2>11 DEF R!Document
  <2>12. CASE R!Adopt(c) BY <2>12 DEF R!Adopt
  <2>13. CASE R!Register(c) BY <2>13 DEF R!Register
  <2>14. CASE R!MarkFailure(c) BY <2>14 DEF R!MarkFailure
  <2>15. CASE R!Crash(c) BY <2>15 DEF R!Crash
  <2>16. CASE R!Render(c) BY <2>16 DEF R!Render
  <2> QED
    BY <1>2, <2>1, <2>2, <2>3, <2>4, <2>5, <2>6, <2>7, <2>8, <2>9, <2>10, <2>11,
       <2>12, <2>13, <2>14, <2>15, <2>16 DEF R!Step
<1> QED
  BY <1>1, <1>2 DEF R!Next

(***************************************************************************)
(* The master: an output is valid before it is stored, and it is stored    *)
(* before a row succeeds, a call answers or a reviewer sees it.            *)
(***************************************************************************)
LEMMA NextRenderDataInv ==
  RenderTypeInv /\ FollowInv /\ RenderDataInv /\ [R!Next]_(R!vars) => RenderDataInv'
<1> SUFFICES ASSUME RenderTypeInv, FollowInv, RenderDataInv, [R!Next]_(R!vars) PROVE RenderDataInv'
  OBVIOUS
<1> USE DEF RenderTypeInv, R!TypeOK, RenderHeldOK, Follows, R!Goto, R!row, R!local, R!history,
            FollowInv, RenderDataInv, R!ReviewedIsStored, RenderHoldsStored, Rendered, Unposted, R!Fate
<1>1. CASE UNCHANGED R!vars
  BY <1>1 DEF R!vars
<1>2. ASSUME NEW c \in Call, R!Step(c) \/ R!Crash(c) \/ R!Render(c) PROVE RenderDataInv'
  <2>1. CASE R!Ensure(c) BY <2>1 DEF R!Ensure
  <2>2. CASE R!Look(c) BY <2>2 DEF R!Look, R!Branch
  <2>3. CASE R!AdoptCached(c) BY <2>3 DEF R!AdoptCached
  <2>4. CASE R!Claim(c) BY <2>4 DEF R!Claim
  <2>5. CASE R!ClaimFails(c) BY <2>5 DEF R!ClaimFails
  <2>6. CASE R!MarkBoundary(c) BY <2>6 DEF R!MarkBoundary
  <2>7. CASE R!Post(c) BY <2>7 DEF R!Post
  <2>8. CASE R!RecordAccepted(c) BY <2>8 DEF R!RecordAccepted
  <2>9. CASE R!Poll(c)
    <3>1. PICK l \in {"polling", "storing", "failing", "failing_terminal"} :
            R!Goto(c, l) /\ (l = "storing" => fate[using[c]] \in {"good", "bad"})
      BY <2>9 DEF R!Poll, R!Polled, R!Fate
    <3>2. status' = "SUCCEEDED" => status = "SUCCEEDED"
      BY <2>9 DEF R!Poll, R!RecordStatus
    <3> QED
      BY <2>9, <3>1, <3>2 DEF R!Poll
  <2>10. CASE R!Store(c) BY <2>10 DEF R!Store
  <2>11. CASE R!Document(c) BY <2>11 DEF R!Document
  <2>12. CASE R!Adopt(c) BY <2>12 DEF R!Adopt
  <2>13. CASE R!Register(c) BY <2>13 DEF R!Register
  <2>14. CASE R!MarkFailure(c) BY <2>14 DEF R!MarkFailure, R!FailureStatus
  <2>15. CASE R!Crash(c) BY <2>15 DEF R!Crash
  <2>16. CASE R!Render(c) BY <2>16 DEF R!Render
  <2> QED
    BY <1>2, <2>1, <2>2, <2>3, <2>4, <2>5, <2>6, <2>7, <2>8, <2>9, <2>10, <2>11,
       <2>12, <2>13, <2>14, <2>15, <2>16 DEF R!Step
<1> QED
  BY <1>1, <1>2 DEF R!Next

\* Whoever is past the boundary knows it.
LEMMA NextCrossedInv ==
  RenderTypeInv /\ CrossedInv /\ [R!Next]_(R!vars) => CrossedInv'
<1> SUFFICES ASSUME RenderTypeInv, CrossedInv, [R!Next]_(R!vars) PROVE CrossedInv'
  OBVIOUS
<1> USE DEF RenderTypeInv, R!TypeOK, RenderHeldOK, Follows, R!Goto, R!row, R!local, R!history, CrossedInv
<1>1. CASE UNCHANGED R!vars
  BY <1>1 DEF R!vars
<1>2. ASSUME NEW c \in Call, R!Step(c) \/ R!Crash(c) \/ R!Render(c) PROVE CrossedInv'
  <2>1. CASE R!Ensure(c) BY <2>1 DEF R!Ensure
  <2>2. CASE R!Look(c) BY <2>2 DEF R!Look, R!Branch
  <2>3. CASE R!AdoptCached(c) BY <2>3 DEF R!AdoptCached
  <2>4. CASE R!Claim(c) BY <2>4 DEF R!Claim
  <2>5. CASE R!ClaimFails(c) BY <2>5 DEF R!ClaimFails
  <2>6. CASE R!MarkBoundary(c) BY <2>6 DEF R!MarkBoundary
  <2>7. CASE R!Post(c) BY <2>7 DEF R!Post
  <2>8. CASE R!RecordAccepted(c) BY <2>8 DEF R!RecordAccepted
  <2>9. CASE R!Poll(c)
    <3>1. PICK l \in {"polling", "storing", "failing", "failing_terminal"} : R!Goto(c, l)
      BY <2>9 DEF R!Poll, R!Polled
    <3> QED
      BY <2>9, <3>1 DEF R!Poll
  <2>10. CASE R!Store(c) BY <2>10 DEF R!Store
  <2>11. CASE R!Document(c) BY <2>11 DEF R!Document
  <2>12. CASE R!Adopt(c) BY <2>12 DEF R!Adopt
  <2>13. CASE R!Register(c) BY <2>13 DEF R!Register
  <2>14. CASE R!MarkFailure(c) BY <2>14 DEF R!MarkFailure
  <2>15. CASE R!Crash(c) BY <2>15 DEF R!Crash
  <2>16. CASE R!Render(c) BY <2>16 DEF R!Render
  <2> QED
    BY <1>2, <2>1, <2>2, <2>3, <2>4, <2>5, <2>6, <2>7, <2>8, <2>9, <2>10, <2>11,
       <2>12, <2>13, <2>14, <2>15, <2>16 DEF R!Step
<1> QED
  BY <1>1, <1>2 DEF R!Next
-----------------------------------------------------------------------------
(***************************************************************************)
(* One task: the last to claim is the only one who may post, and nobody is *)
(* past the boundary before it; what it leaves RETRYABLE has no task.      *)
(***************************************************************************)
LEMMA NextRenderClaimInv ==
  RenderTypeInv /\ FollowInv /\ RenderDataInv /\ CrossedInv /\ RenderClaimInv /\ [R!Next]_(R!vars) => RenderClaimInv'
<1> SUFFICES ASSUME RenderTypeInv, FollowInv, RenderDataInv, CrossedInv, RenderClaimInv, [R!Next]_(R!vars), ~reset'
             PROVE  RenderClaimInv'
  BY DEF RenderClaimInv
<1> USE DEF RenderTypeInv, R!TypeOK, RenderHeldOK, Follows, R!Goto, R!row, R!local, R!history, FollowInv, Unposted,
            RenderDataInv, R!ReviewedIsStored, RenderHoldsStored, Rendered, CrossedInv, RenderClaimInv, Quiet,
            R!Fate, R!Claimable, R!Mine, R!MineOrFree
<1>1. CASE UNCHANGED R!vars
  BY <1>1 DEF R!vars
<1>2. ASSUME NEW c \in Call, R!Step(c) \/ R!Crash(c) \/ R!Render(c) PROVE RenderClaimInv'
  <2>1. CASE R!Ensure(c) BY <2>1 DEF R!Ensure
  <2>2. CASE R!Look(c) BY <2>2 DEF R!Look, R!Branch
  <2>3. CASE R!AdoptCached(c) BY <2>3 DEF R!AdoptCached
  <2>4. CASE R!Claim(c) BY <2>4 DEF R!Claim
  <2>5. CASE R!ClaimFails(c) BY <2>5 DEF R!ClaimFails
  <2>6. CASE R!MarkBoundary(c) BY <2>6 DEF R!MarkBoundary
  <2>7. CASE R!Post(c) BY <2>7 DEF R!Post
  <2>8. CASE R!RecordAccepted(c) BY <2>8 DEF R!RecordAccepted
  <2>9. CASE R!Poll(c)
    <3>1. PICK l \in {"polling", "storing", "failing", "failing_terminal"} : R!Goto(c, l)
      BY <2>9 DEF R!Poll, R!Polled
    <3>2. status \in {"NOT_STARTED", "RETRYABLE", "RUNNING"} => status' = status
      BY <2>9 DEF R!Poll, R!RecordStatus
    <3>3. status' \in {"NOT_STARTED", "RETRYABLE", "RUNNING"} => status' = status
      BY <2>9 DEF R!Poll, R!RecordStatus
    <3> QED
      BY <2>9, <3>1, <3>2, <3>3 DEF R!Poll
  <2>10. CASE R!Store(c) BY <2>10 DEF R!Store
  <2>11. CASE R!Document(c) BY <2>11 DEF R!Document
  <2>12. CASE R!Adopt(c) BY <2>12 DEF R!Adopt
  <2>13. CASE R!Register(c) BY <2>13 DEF R!Register
  <2>14. CASE R!MarkFailure(c)
    <3>1. ~reset
      BY <2>14, Zenon DEF R!MarkFailure
    <3>2. \/ UNCHANGED status
          \/ status' = R!FailureStatus(c) /\ ~R!Overwrites(c)
      BY <2>14, Zenon DEF R!MarkFailure
    <3>3. c \in crossed => R!FailureStatus(c) # "RETRYABLE"
      BY DEF R!FailureStatus
    <3>4. c \notin crossed => R!FailureStatus(c) = "RETRYABLE"
      BY <2>14 DEF R!FailureStatus
    <3>5. R!FailureStatus(c) \notin {"NOT_STARTED", "RUNNING"}
      BY Zenon DEF R!FailureStatus
    <3>6. at[c] # "marking" /\ R!Goto(c, "ended")
          /\ UNCHANGED <<crossed, fate, holder>>
      BY <2>14 DEF R!MarkFailure, R!MarksFailure
    <3>7. status' \in {"NOT_STARTED", "RETRYABLE", "RUNNING"} => Quiet
      BY <3>1, <3>2, <3>3, <3>5 DEF R!Overwrites
    <3>8. ASSUME NEW d \in Call, at[d] = "marking" PROVE status' = "RUNNING"
      BY <3>1, <3>2, <3>4, <3>6, <3>8 DEF R!Overwrites
    <3> QED
      BY <3>1, <3>6, <3>7, <3>8
  <2>15. CASE R!Crash(c) BY <2>15 DEF R!Crash
  <2>16. CASE R!Render(c) BY <2>16 DEF R!Render
  <2> QED
    BY <1>2, <2>1, <2>2, <2>3, <2>4, <2>5, <2>6, <2>7, <2>8, <2>9, <2>10, <2>11,
       <2>12, <2>13, <2>14, <2>15, <2>16 DEF R!Step
<1> QED
  BY <1>1, <1>2 DEF R!Next

LEMMA InitRenderIInv == R!Init => RenderIInv
<1>1. R!Init => FollowInv /\ RenderDataInv /\ CrossedInv
  BY DEF R!Init, FollowInv, RenderDataInv, R!ReviewedIsStored, CrossedInv, Follows, Rendered, RenderHoldsStored
<1>2. R!Init => RenderClaimInv
  BY DEF R!Init, RenderClaimInv, Quiet
<1> QED
  BY <1>1, <1>2, InitRenderTypeInv DEF RenderIInv

LEMMA NextRenderIInv == RenderIInv /\ [R!Next]_(R!vars) => RenderIInv'
  BY NextRenderTypeInv, NextFollowInv, NextRenderDataInv, NextCrossedInv, NextRenderClaimInv DEF RenderIInv

(***************************************************************************)
(* However many calls there are and however they share worker ids, the     *)
(* renderer gets one task unless a refusal or a failure before the         *)
(* boundary made the claim of another call RETRYABLE.                      *)
(***************************************************************************)
THEOREM OneTask == R!Spec => []R!OneTaskUnlessReset
<1>1. RenderIInv => R!OneTaskUnlessReset
  BY DEF RenderIInv, RenderClaimInv, Quiet, R!OneTaskUnlessReset
<1> QED
  BY <1>1, InitRenderIInv, NextRenderIInv, PTL DEF R!Spec

\* A reviewer sees, and a row SUCCEEDED has, a stored and valid output.
THEOREM ReviewedStored == R!Spec => []R!ReviewedIsStored
<1>1. RenderIInv => R!ReviewedIsStored
  BY DEF RenderIInv, RenderDataInv
<1> QED
  BY <1>1, InitRenderIInv, NextRenderIInv, PTL DEF R!Spec
-----------------------------------------------------------------------------
(***************************************************************************)
(* Refinement: the store fixes the master, a call that ends with an answer *)
(* is told it, and every other step is invisible.                          *)
(***************************************************************************)
LEMMA NextRenderRefines == RenderIInv /\ [R!Next]_(R!vars) => [R!Promise!Next]_<<artifact, answer>>
<1> SUFFICES ASSUME RenderIInv, [R!Next]_(R!vars)
             PROVE  R!Promise!Next \/ UNCHANGED <<artifact, answer>>
  OBVIOUS
<1> USE DEF RenderIInv, RenderTypeInv, R!TypeOK, RenderHeldOK, Follows, R!Goto, R!row, R!local, R!history
<1>1. CASE UNCHANGED R!vars
  BY <1>1 DEF R!vars
<1>2. ASSUME NEW c \in Call, R!Step(c) \/ R!Crash(c) \/ R!Render(c)
      PROVE  \/ \E v \in Call : R!Promise!Fix(v)
             \/ R!Promise!Answer(c)
             \/ UNCHANGED <<artifact, answer>>
  <2>1. CASE R!Ensure(c) BY <2>1 DEF R!Ensure
  <2>2. CASE R!Look(c) BY <2>2 DEF R!Look
  <2>3. CASE R!AdoptCached(c) BY <2>3 DEF R!AdoptCached, RenderDataInv, R!Promise!Answer
  <2>4. CASE R!Claim(c) BY <2>4 DEF R!Claim
  <2>5. CASE R!ClaimFails(c) BY <2>5 DEF R!ClaimFails
  <2>6. CASE R!MarkBoundary(c) BY <2>6 DEF R!MarkBoundary
  <2>7. CASE R!Post(c) BY <2>7 DEF R!Post
  <2>8. CASE R!RecordAccepted(c) BY <2>8 DEF R!RecordAccepted
  <2>9. CASE R!Poll(c) BY <2>9 DEF R!Poll
  <2>10. CASE R!Store(c)
    <3>1. \/ UNCHANGED <<artifact, answer>>
          \/ artifact = None /\ artifact' = using[c] /\ using[c] \in Call /\ answer' = answer
      BY <2>10 DEF R!Store
    <3> QED
      BY <3>1 DEF R!Promise!Fix
  <2>11. CASE R!Document(c) BY <2>11 DEF R!Document
  <2>12. CASE R!Adopt(c) BY <2>12 DEF R!Adopt
  <2>13. CASE R!Register(c) BY <2>13 DEF R!Register, RenderDataInv, RenderHoldsStored, R!Promise!Answer
  <2>14. CASE R!MarkFailure(c) BY <2>14 DEF R!MarkFailure
  <2>15. CASE R!Crash(c) BY <2>15 DEF R!Crash
  <2>16. CASE R!Render(c) BY <2>16 DEF R!Render
  <2> QED
    BY <1>2, <2>1, <2>2, <2>3, <2>4, <2>5, <2>6, <2>7, <2>8, <2>9, <2>10, <2>11,
       <2>12, <2>13, <2>14, <2>15, <2>16 DEF R!Step
<1> QED
  BY <1>1, <1>2 DEF R!Next, R!Promise!Next

(***************************************************************************)
(* The FAST master is a write-once register to those who ask for it.       *)
(***************************************************************************)
THEOREM RenderRefinement == R!Spec => R!ImplementsPromise
<1>1. R!Init => R!Promise!Init
  BY DEF R!Init, R!Promise!Init
<1> QED
  BY <1>1, InitRenderIInv, NextRenderIInv, NextRenderRefines, PTL
     DEF R!Spec, R!ImplementsPromise, R!Promise!Spec, R!Promise!artifactVars
=============================================================================
