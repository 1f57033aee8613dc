------------------------ MODULE MasterProductionProofs ------------------------
(***************************************************************************)
(* Theorems about MasterProduction, for any inputs, any durations of the   *)
(* files and any number of runs: first about the control of the build,     *)
(* where the definitions of the timing stay closed, then about the timing. *)
(***************************************************************************)
EXTENDS MasterProduction, WellFoundedInduction, TLAPS

\* Everything a run does between its claim and its end.
Active(r) == pc[r] \notin {"idle", "ended"}

(***************************************************************************)
(* While no judged run ended without a conclusion:                         *)
(* a run that is under way has the job, or has just completed it.          *)
(***************************************************************************)
ActiveInv ==
  unconcluded \/ \A r \in Run : Active(r) => Mine(r) \/ (pc[r] = "failing" /\ job = "COMPLETED")

\* From the evaluation of the master on, a run has been judged.
JudgedInv ==
  \A r \in Run : pc[r] \in {"storing", "registering", "reviewing", "completing"} => r \in judged

\* A run on the way to its registration was not condemned.
PassedInv ==
  \A r \in Run : pc[r] \in {"registering", "reviewing", "completing"} => cause[r] # "quality"

\* A master before a reviewer is completed, or its run is about to complete it or to fail.
ReviewInv ==
  \/ review = "none"
  \/ unconcluded
  \/ job = "COMPLETED"
  \/ /\ job = "RUNNING"
     /\ owner \in judged
     /\ \/ pc[owner] \in {"reviewing", "completing"}
        \/ pc[owner] = "failing" /\ cause[owner] # "quality"

\* A verdict FAIL has failed the job, or its run is about to do so.
FailedInv ==
  \/ ~failed
  \/ unconcluded
  \/ job = "FAILED"
  \/ /\ job = "RUNNING"
     /\ owner \in judged
     /\ \/ pc[owner] = "storing" /\ cause[owner] = "quality"
        \/ pc[owner] = "failing"

IInv ==
  /\ TypeOK
  /\ ActiveInv
  /\ JudgedInv
  /\ PassedInv
  /\ ReviewInv
  /\ FailedInv
  /\ OneConclusionUnlessInterrupted

USE NoneAssumption

\* The first state is well typed.
LEMMA TypeInit == Init => TypeOK
<1> SUFFICES ASSUME Init
             PROVE  TypeOK
  OBVIOUS
<1>1. input \in Inputs
  BY Zenon DEF Init
<1>2. file \in [Assets(input) -> Durations \cup {None}]
  BY Zenon DEF Init
<1> QED
  BY <1>1, <1>2 DEF Init, TypeOK, Location

\* Every action keeps the types.
LEMMA TypeStep == TypeOK /\ [Next]_vars => TypeOK'
<1> SUFFICES ASSUME TypeOK, [Next]_vars
             PROVE  TypeOK'
  OBVIOUS
<1> USE DEF TypeOK, Location
<1>1. ASSUME NEW r \in Run, Start(r) PROVE TypeOK'
  BY <1>1 DEF Start, row, history, Goto
<1>2. ASSUME NEW r \in Run, Mark(r) PROVE TypeOK'
  BY <1>2 DEF Mark, Fail, row, history, Goto
<1>3. ASSUME NEW r \in Run, Obtain(r) PROVE TypeOK'
  <2>1. file' \in [Assets(input) -> Durations \cup {None}]
    <3>1. CASE UNCHANGED file
      BY <3>1
    <3>2. CASE \E ms \in Durations : file' = [file EXCEPT ![next[r]] = ms]
      BY <3>2
    <3> QED
      BY <1>3, <3>1, <3>2, Zenon DEF Obtain
  <2>2. /\ pc' \in [Run -> Location]
        /\ next' \in [Run -> Nat]
        /\ cause' \in [Run -> {"none", "plan", "quality", "error"}]
    BY <1>3 DEF Obtain, Obtained, Advance, Fail, Goto
  <2> QED
    BY <1>3, <2>1, <2>2 DEF Obtain, row, history
<1>4. ASSUME NEW r \in Run, Judge(r) PROVE TypeOK'
  <2>1. judged' = judged \cup {r} /\ failed' \in BOOLEAN
    BY <1>4 DEF Judge, Condemn
  <2>2. /\ pc' \in [Run -> Location]
        /\ next' \in [Run -> Nat]
        /\ cause' \in [Run -> {"none", "plan", "quality", "error"}]
    BY <1>4 DEF Judge, Condemn, Advance, Fail, Goto
  <2> QED
    BY <1>4, <2>1, <2>2 DEF Judge, row
<1>5. ASSUME NEW r \in Run, Compare(r) PROVE TypeOK'
  BY <1>5 DEF Compare, Condemn, Fail, row, Goto, history
<1>6. ASSUME NEW r \in Run, Assemble(r) PROVE TypeOK'
  BY <1>6 DEF Assemble, Condemn, Fail, row, Goto, history
<1>7. ASSUME NEW r \in Run, Render(r) PROVE TypeOK'
  BY <1>7 DEF Render, Fail, row, history, Goto
<1>8. ASSUME NEW r \in Run, Finish(r) PROVE TypeOK'
  BY <1>8 DEF Finish, row, Goto, history
<1>9. ASSUME NEW r \in Run, Store(r) PROVE TypeOK'
  BY <1>9 DEF Store, Fail, row, history, Goto
<1>10. ASSUME NEW r \in Run, Register(r) PROVE TypeOK'
  BY <1>10 DEF Register, Fail, row, history, Goto
<1>11. ASSUME NEW r \in Run, CheckReview(r) PROVE TypeOK'
  BY <1>11 DEF CheckReview, Fail, row, history, Goto
<1>12. ASSUME NEW r \in Run, Complete(r) PROVE TypeOK'
  BY <1>12 DEF Complete, Fail, row, history, Goto
<1>13. ASSUME NEW r \in Run, FailJob(r) PROVE TypeOK'
  BY <1>13 DEF FailJob, FailureStatus, row, Goto, history
<1>14. ASSUME NEW r \in Run, Crash(r) PROVE TypeOK'
  BY <1>14 DEF Crash, Goto, row, history
<1>15. CASE Recover
  BY <1>15 DEF Recover
<1>16. CASE Review
  BY <1>16 DEF Review, row, history
<1>17. CASE UNCHANGED vars
  BY <1>17 DEF vars, row, history
<1> QED
  BY <1>1, <1>2, <1>3, <1>4, <1>5, <1>6, <1>7, <1>8, <1>9,
     <1>10, <1>11, <1>12, <1>13, <1>14, <1>15, <1>16, <1>17 DEF Next, Step

(***************************************************************************)
(* Type correctness: the job stays within the statuses of its table, and   *)
(* every run within its locations, whatever is recovered and decided       *)
(* meanwhile.                                                              *)
(***************************************************************************)
THEOREM TypeCorrect == Spec => []TypeOK
<1> QED
  BY TypeInit, TypeStep, PTL DEF Spec


(***************************************************************************)
(* The invariant is preserved: what a run needs to go on is what the lease *)
(* gives it, unless a judged run was stopped on its way.                   *)
(***************************************************************************)
LEMMA ConclusionInductive == IInv /\ [Next]_vars => IInv'
<1> SUFFICES ASSUME IInv, [Next]_vars
             PROVE  IInv'
  OBVIOUS
<1>1. TypeOK /\ TypeOK'
  BY TypeStep DEF IInv
<1> DEFINE Rest == /\ ActiveInv /\ JudgedInv /\ PassedInv
                   /\ ReviewInv /\ FailedInv /\ OneConclusionUnlessInterrupted
<1> USE DEF IInv, TypeOK, Active, Mine, ActiveInv, JudgedInv, PassedInv, ReviewInv, FailedInv,
     OneConclusionUnlessInterrupted
<1>2. ASSUME NEW r \in Run, Start(r) PROVE Rest'
  BY <1>1, <1>2 DEF Start, row, history, Goto
<1>3. ASSUME NEW r \in Run, Mark(r) PROVE Rest'
  BY <1>1, <1>3 DEF Mark, Fail, row, history, Goto
<1>4. ASSUME NEW r \in Run, Obtain(r) PROVE Rest'
  BY <1>1, <1>4 DEF Obtain, Obtained, Advance, Fail, row, history, Goto
<1>5. ASSUME NEW r \in Run, Judge(r) PROVE Rest'
  BY <1>1, <1>5 DEF Judge, Advance, Condemn, Fail, row, Goto, history
<1>6. ASSUME NEW r \in Run, Compare(r) PROVE Rest'
  BY <1>1, <1>6 DEF Compare, Condemn, Fail, row, Goto, history
<1>7. ASSUME NEW r \in Run, Assemble(r) PROVE Rest'
  BY <1>1, <1>7 DEF Assemble, Condemn, Fail, row, Goto, history
<1>8. ASSUME NEW r \in Run, Render(r) PROVE Rest'
  BY <1>1, <1>8 DEF Render, Fail, row, history, Goto
<1>9. ASSUME NEW r \in Run, Finish(r) PROVE Rest'
  BY <1>1, <1>9 DEF Finish, row, Goto, history
<1>10. ASSUME NEW r \in Run, Store(r) PROVE Rest'
  BY <1>1, <1>10 DEF Store, Fail, row, history, Goto
<1>11. ASSUME NEW r \in Run, Register(r) PROVE Rest'
  BY <1>1, <1>11 DEF Register, Fail, row, history, Goto
<1>12. ASSUME NEW r \in Run, CheckReview(r) PROVE Rest'
  BY <1>1, <1>12 DEF CheckReview, Fail, row, history, Goto
<1>13. ASSUME NEW r \in Run, Complete(r) PROVE Rest'
  BY <1>1, <1>13 DEF Complete, Fail, row, history, Goto
<1>14. ASSUME NEW r \in Run, FailJob(r) PROVE Rest'
  BY <1>1, <1>14 DEF FailJob, FailureStatus, row, Goto, history
<1>15. ASSUME NEW r \in Run, Crash(r) PROVE Rest'
  BY <1>1, <1>15 DEF Crash, Goto, row, history
<1>16. ASSUME Recover PROVE Rest'
  BY <1>1, <1>16 DEF Recover
<1>17. ASSUME Review PROVE Rest'
  BY <1>1, <1>17 DEF Review, row, history
<1>18. ASSUME UNCHANGED vars PROVE Rest'
  BY <1>1, <1>18 DEF vars, row, history
<1> QED
  BY <1>1, <1>2, <1>3, <1>4, <1>5, <1>6, <1>7, <1>8, <1>9,
     <1>10, <1>11, <1>12, <1>13, <1>14, <1>15, <1>16, <1>17, <1>18 DEF Next, Step

(***************************************************************************)
(* However many runs a production takes: no verdict FAIL stands beside a   *)
(* master that a reviewer sees, unless a run that had been given a verdict *)
(* ended without a conclusion.                                             *)
(***************************************************************************)
THEOREM OneConclusion == Spec => []OneConclusionUnlessInterrupted
<1>1. Init => IInv
  <2> SUFFICES ASSUME Init
               PROVE  IInv
    OBVIOUS
  <2>1. ActiveInv /\ JudgedInv /\ PassedInv
    BY DEF Init, ActiveInv, Active, JudgedInv, PassedInv
  <2>2. ReviewInv /\ FailedInv /\ OneConclusionUnlessInterrupted
    BY DEF Init, ReviewInv, FailedInv, OneConclusionUnlessInterrupted
  <2> QED
    BY <2>1, <2>2, TypeInit DEF IInv
<1>2. IInv => OneConclusionUnlessInterrupted
  BY DEF IInv
<1> QED
  BY <1>1, <1>2, ConclusionInductive, PTL DEF Spec
-----------------------------------------------------------------------------
(***************************************************************************)
(* The timing.  Ends() is a recursive function; what is said of it for     *)
(* every number of clips is shown from the least number for which it would *)
(* not hold.                                                               *)
(***************************************************************************)
Prefix(clip, k, f) == f = [s \in 0..k |-> IF s = 0 THEN 0 ELSE f[s - 1] + clip[s]]

\* A set of numbers that is not empty has a least one.
LEMMA LeastExists ==
  ASSUME NEW S, S \subseteq Nat, S # {}
  PROVE  \E k \in S : \A m \in S : k <= m
<1> DEFINE Less == OpToRel(<, Nat)
<1>1. PICK k \in S : \A m \in S : <<m, k>> \notin Less
  BY NatLessThanWellFounded, WFMin, Zenon
<1>2. \A m \in S : ~(m < k)
  BY <1>1 DEF OpToRel
<1> QED
  BY <1>2

\* The ends are well defined: there is a function that fulfils their equation.
LEMMA EndsExist ==
  ASSUME NEW clip, NEW n \in Nat
  PROVE  \E f : Prefix(clip, n, f)
<1> DEFINE Bad == {k \in Nat : ~ \E f : Prefix(clip, k, f)}
<1>1. SUFFICES ASSUME Bad # {} PROVE FALSE
  BY DEF Bad
<1>2. PICK k \in Bad : \A m \in Bad : k <= m
  BY <1>1, LeastExists
<1>3. CASE k = 0
  <2>1. Prefix(clip, 0, [s \in 0..0 |-> 0])
    BY DEF Prefix
  <2> QED
    BY <1>2, <1>3, <2>1
<1>4. CASE k # 0
  <2>1. k \in Nat /\ k - 1 \in Nat
    BY <1>2, <1>4
  <2>2. PICK f : Prefix(clip, k - 1, f)
    BY <1>2, <2>1
  <2> DEFINE g == [s \in 0..k |-> IF s = k THEN f[k - 1] + clip[k] ELSE f[s]]
  <2>3. \A s \in 0..(k - 1) : f[s] = IF s = 0 THEN 0 ELSE f[s - 1] + clip[s]
    BY <2>2 DEF Prefix
  <2>4. \A s \in 0..k : g[s] = IF s = 0 THEN 0 ELSE g[s - 1] + clip[s]
    BY <1>4, <2>1, <2>3
  <2>5. Prefix(clip, k, g)
    BY <2>4, Zenon DEF Prefix
  <2> QED
    BY <1>2, <2>5
<1> QED
  BY <1>3, <1>4

LEMMA EndsDef ==
  ASSUME NEW clip, NEW n \in Nat
  PROVE  \A s \in 0..n : Ends(clip, n)[s] = IF s = 0 THEN 0 ELSE Ends(clip, n)[s - 1] + clip[s]
<1> DEFINE at == CHOOSE f : Prefix(clip, n, f)
<1>1. Ends(clip, n) = at
  BY DEF Ends, Prefix
<1>2. Prefix(clip, n, at)
  BY EndsExist
<1>3. \A s \in 0..n : at[s] = IF s = 0 THEN 0 ELSE at[s - 1] + clip[s]
  BY <1>2 DEF Prefix
<1> QED
  BY <1>1, <1>3

\* The end of a clip is a number of milliseconds.
LEMMA EndsNat ==
  ASSUME NEW n \in Nat, NEW clip, \A s \in 1..n : clip[s] \in Nat
  PROVE  \A s \in 0..n : Ends(clip, n)[s] \in Nat
<1> DEFINE at == Ends(clip, n)
           Bad == {s \in 0..n : at[s] \notin Nat}
<1>1. SUFFICES ASSUME Bad # {} PROVE FALSE
  OBVIOUS
<1>2. \A s \in 0..n : at[s] = IF s = 0 THEN 0 ELSE at[s - 1] + clip[s]
  BY EndsDef
<1> HIDE DEF at
<1>3. PICK k \in Bad : \A m \in Bad : k <= m
  <2>1. Bad \subseteq Nat
    OBVIOUS
  <2> HIDE DEF Bad
  <2> QED
    BY <1>1, <2>1, LeastExists
<1>4. k # 0
  BY <1>2, <1>3
<1>5. k - 1 \in 0..n /\ k - 1 \notin Bad
  BY <1>3, <1>4
<1> QED
  BY <1>2, <1>3, <1>4, <1>5

(***************************************************************************)
(* When no clip is shorter than another by more than the tolerance of      *)
(* validateMediaProbe(), their ends differ by no more than the tolerance   *)
(* for each.                                                               *)
(***************************************************************************)
LEMMA EndsWithin ==
  ASSUME NEW n \in Nat, NEW long, NEW short,
         \A s \in 1..n : long[s] \in Nat /\ short[s] \in Nat /\ long[s] <= short[s] + 1500
  PROVE  Ends(long, n)[n] <= Ends(short, n)[n] + 1500 * n
<1> DEFINE L == Ends(long, n)
           S == Ends(short, n)
           Bad == {s \in 0..n : ~(L[s] <= S[s] + 1500 * s)}
<1>1. SUFFICES ASSUME Bad # {} PROVE FALSE
  OBVIOUS
<1>2. /\ \A s \in 0..n : L[s] = IF s = 0 THEN 0 ELSE L[s - 1] + long[s]
      /\ \A s \in 0..n : S[s] = IF s = 0 THEN 0 ELSE S[s - 1] + short[s]
  BY EndsDef
<1>3. \A s \in 0..n : L[s] \in Nat /\ S[s] \in Nat
  BY EndsNat
<1> HIDE DEF L, S
<1>4. PICK k \in Bad : \A m \in Bad : k <= m
  <2>1. Bad \subseteq Nat
    OBVIOUS
  <2> HIDE DEF Bad
  <2> QED
    BY <1>1, <2>1, LeastExists
<1>5. k # 0
  BY <1>2, <1>4
<1>6. k - 1 \in 0..n /\ k \in 1..n /\ k - 1 \notin Bad
  BY <1>4, <1>5
<1>7. L[k - 1] <= S[k - 1] + 1500 * (k - 1)
  BY <1>6
<1>8. L[k] = L[k - 1] + long[k] /\ S[k] = S[k - 1] + short[k]
  BY <1>2, <1>5, <1>6
<1>9. L[k] <= S[k] + 1500 * k
  BY <1>3, <1>6, <1>7, <1>8
<1> QED
  BY <1>4, <1>9

\* The durations of an input are numbers.
LEMMA InputNumbers ==
  ASSUME NEW in \in InputType
  PROVE  /\ Len(in.shots) \in Nat /\ Shots(in) = 1..Len(in.shots)
         /\ \A s \in Shots(in) : ClipMs(in)[s] \in Nat
         /\ \A a \in Assets(in) : PlannedMs(in, a) \in Nat
         /\ TimelineMs(in) \in Nat
<1>1. Len(in.shots) \in Nat /\ Shots(in) = 1..Len(in.shots)
  BY DEF InputType, Shots
<1>2. \A t \in Nat : RoundedMs(t) \in Nat
  BY DEF RoundedMs
<1>3. \A s \in Shots(in) : /\ in.shots[s].length \in Nat
                           /\ in.shots[s].frames \in Nat
                           /\ in.shots[s].fps \in Nat \ {0}
  <2> DEFINE ShotType == [scene : Nat, length : Nat, frames : Nat, fps : Nat \ {0}]
  <2>1. in.shots \in Seq(ShotType)
    BY DEF InputType
  <2>2. \A shot \in ShotType : shot.length \in Nat /\ shot.frames \in Nat /\ shot.fps \in Nat \ {0}
    OBVIOUS
  <2> HIDE DEF ShotType
  <2>3. \A s \in Shots(in) : in.shots[s] \in ShotType
    BY <1>1, <2>1
  <2> QED
    BY <2>2, <2>3
<1>4. \A s \in Shots(in) : ClipMs(in)[s] \in Nat
  BY <1>2, <1>3 DEF ClipMs
<1>5. \A m \in Nat, d \in Nat \ {0} : m \div d \in Nat
  OBVIOUS
<1>6. \A a \in Assets(in) : PlannedMs(in, a) \in Nat
  <2> SUFFICES ASSUME NEW a \in Assets(in)
               PROVE  PlannedMs(in, a) \in Nat
    OBVIOUS
  <2>1. CASE a \in Shots(in)
    <3> DEFINE shot == in.shots[a]
               m == 2 * 1000 * shot.frames + shot.fps
               d == 2 * shot.fps
    <3>1. m \in Nat /\ d \in Nat \ {0}
      BY <1>3, <2>1
    <3>2. m \div d \in Nat
      BY <1>5, <3>1
    <3> QED
      BY <2>1, <3>2 DEF PlannedMs
  <2>2. CASE a \notin Shots(in)
    <3>1. in.target \in Nat
      BY DEF InputType
    <3> QED
      BY <1>2, <2>2, <3>1 DEF PlannedMs
  <2> QED
    BY <2>1, <2>2
<1>7. TimelineMs(in) \in Nat
  BY <1>1, <1>4, EndsNat DEF TimelineMs
<1> QED
  BY <1>1, <1>4, <1>6, <1>7

(***************************************************************************)
(* A plan that passes the preflight and that the assembly refuses has one  *)
(* of the two faults that the preflight does not look at.                  *)
(***************************************************************************)
LEMMA RefusedPlan ==
  ASSUME NEW in \in InputType, Preflight(in), ~Assembles(in)
  PROVE  Uncompared(in)
<1>1. PICK a \in Assets(in) : ~(PlannedMs(in, a) >= NeededMs(in, a))
  BY DEF Assembles
<1>2. CASE a \in Shots(in)
  <2>1. PlannedMs(in, a) < ClipMs(in)[a]
    BY <1>1, <1>2, InputNumbers DEF NeededMs
  <2> QED
    BY <1>2, <2>1 DEF Uncompared
<1>3. CASE a \notin Shots(in)
  <2>1. in.voice /\ a = Voice(in)
    BY <1>3 DEF Assets
  <2>2. PlannedMs(in, a) < TimelineMs(in)
    BY <1>1, <1>3, InputNumbers DEF NeededMs
  <2>3. Distance(PlannedMs(in, a), TimelineMs(in)) <= 250
    BY <2>1 DEF Preflight
  <2>4. PlannedMs(in, a) \in (TimelineMs(in) - 250)..(TimelineMs(in) - 1)
    BY <2>2, <2>3, InputNumbers DEF Distance
  <2> QED
    BY <2>1, <2>4 DEF Uncompared
<1> QED
  BY <1>2, <1>3

(***************************************************************************)
(* A master that passed the check of its length, of videos that each       *)
(* passed theirs: it is whole, or the longer stream hides what is missing. *)
(***************************************************************************)
LEMMA ValidMaster ==
  ASSUME NEW in \in InputType, NEW files, MasterValid(in, files),
         in.voice => files[Voice(in)] \in Nat,
         \A s \in Shots(in) : files[s] \in Nat /\ Inspected(in, s, files[s])
  PROVE  \/ TimelineMs(in) - VideoMs(in, files) <= 1000
         \/ /\ AudioMs(in, files) > VideoMs(in, files)
            /\ TimelineMs(in) - VideoMs(in, files) <= 1500 * Len(in.shots)
<1> DEFINE n == Len(in.shots)
           clip == ClipMs(in)
           cut == Trimmed(in, files)
<1>1. n \in Nat /\ Shots(in) = 1..n /\ TimelineMs(in) \in Nat
  BY InputNumbers
<1>2. \A s \in 1..n : clip[s] \in Nat /\ cut[s] \in Nat /\ clip[s] <= cut[s] + 1500
  <2> SUFFICES ASSUME NEW s \in 1..n
               PROVE  clip[s] \in Nat /\ cut[s] \in Nat /\ clip[s] <= cut[s] + 1500
    OBVIOUS
  <2>1. clip[s] \in Nat /\ files[s] \in Nat /\ files[s] + 1500 >= clip[s]
    BY <1>1, InputNumbers DEF Inspected
  <2>2. cut[s] = Shorter(files[s], clip[s])
    BY <1>1 DEF Trimmed
  <2> QED
    BY <2>1, <2>2 DEF Shorter
<1>3. VideoMs(in, files) \in Nat
  BY <1>1, <1>2, EndsNat DEF VideoMs
<1>4. TimelineMs(in) <= VideoMs(in, files) + 1500 * n
  BY <1>1, <1>2, EndsWithin DEF TimelineMs, VideoMs
<1>5. CASE AudioMs(in, files) > VideoMs(in, files)
  BY <1>1, <1>3, <1>4, <1>5
<1>6. CASE ~(AudioMs(in, files) > VideoMs(in, files))
  <2>1. MasterMs(in, files) = VideoMs(in, files)
    BY <1>6 DEF MasterMs
  <2> QED
    BY <1>1, <1>3, <2>1 DEF MasterValid, Distance
<1> QED
  BY <1>5, <1>6
-----------------------------------------------------------------------------
\* Whoever is under way passed the preflight; who failed for the plan, at the assembly.
PlanInv ==
  \A r \in Run :
    /\ Active(r) => Preflight(input)
    /\ cause[r] = "plan" => Preflight(input) /\ ~Assembles(input)

Have(files, S) == \A a \in S : files[a] # None
Before(in, a) == {b \in Assets(in) : b < a}
Whole(in, files) == Have(files, Assets(in)) /\ MasterValid(in, files)

\* A stored video passed its inspection.
ShotsInv == \A s \in Shots(input) : file[s] # None => Inspected(input, s, file[s])

\* The assets are obtained one after the other, and the master is made of all.
ProgressInv ==
  \A r \in Run :
    /\ pc[r] \in {"idle", "marking"} => next[r] = 1
    /\ pc[r] \in {"obtaining", "judging"} =>
         next[r] \in Assets(input) /\ Have(file, Before(input, next[r]))
    /\ pc[r] = "judging" => file[next[r]] # None
    /\ pc[r] \in {"comparing", "assembling", "rendering"} => Have(file, Assets(input))
    /\ pc[r] \in {"finishing", "storing", "registering", "reviewing", "completing"} => Whole(input, file)

TimingInv ==
  /\ Accepted(input)
  /\ PlanInv
  /\ ShotsInv
  /\ ProgressInv
  /\ review # "none" => Whole(input, file)

\* An accepted input has assets, numbered from one.
LEMMA AssetsRange ==
  ASSUME NEW in \in InputType, Accepted(in)
  PROVE  \E n \in Nat \ {0} : Assets(in) = 1..n
<1>1. Len(in.shots) \in Nat /\ Shots(in) = 1..Len(in.shots)
  BY InputNumbers
<1>2. 1 \in DOMAIN in.scenes
  BY DEF Accepted, InputType
<1>3. Shots(in) # {}
  <2>1. SceneAccepted(in, 1)
    <3>1. \A k \in DOMAIN in.scenes : SceneAccepted(in, k)
      BY DEF Accepted
    <3> QED
      BY <1>2, <3>1
  <2>2. ShotsOf(in, 1) # {}
    BY <2>1, Zenon DEF SceneAccepted
  <2> QED
    BY <2>2 DEF ShotsOf
<1>4. CASE in.voice
  <2>1. Assets(in) = 1..(Len(in.shots) + 1)
    BY <1>1, <1>4 DEF Assets, Voice
  <2> QED
    BY <1>1, <2>1
<1>5. CASE ~in.voice
  <2>1. Assets(in) = 1..Len(in.shots) /\ Len(in.shots) # 0
    BY <1>1, <1>3, <1>5 DEF Assets
  <2> QED
    BY <1>1, <2>1
<1> QED
  BY <1>4, <1>5

\* After an asset come the next and, after the last, all are there.
LEMMA NextAsset ==
  ASSUME NEW in \in InputType, Accepted(in), NEW files, NEW a \in Assets(in),
         Have(files, Before(in, a)), files[a] # None
  PROVE  IF a + 1 \in Assets(in) THEN Have(files, Before(in, a + 1)) ELSE Have(files, Assets(in))
<1>1. PICK n \in Nat \ {0} : Assets(in) = 1..n
  BY AssetsRange
<1> QED
  BY <1>1 DEF Have, Before

\* A file that is there stays, so that a master stays whole.
LEMMA KeptFiles ==
  ASSUME TypeOK, TimingInv, [Next]_vars
  PROVE  /\ input' = input
         /\ \A a \in Assets(input) : file[a] # None => file'[a] = file[a]
         /\ Have(file, Assets(input)) => file' = file
<1>1. input' = input
  BY DEF Next, Step, Start, Mark, Obtain, Judge, Compare, Assemble, Render, Finish, Store, Register,
     CheckReview, Complete, FailJob, Crash, Recover, Review, vars
<1>2. \/ UNCHANGED file
      \/ \E r \in Run : /\ pc[r] = "obtaining" /\ file[next[r]] = None
                        /\ \E ms \in Durations : file' = [file EXCEPT ![next[r]] = ms]
  BY DEF Next, Step, Start, Mark, Obtain, Judge, Compare, Assemble, Render, Finish, Store, Register,
     CheckReview, Complete, FailJob, Crash, Recover, Review, vars
<1>3. CASE UNCHANGED file
  BY <1>1, <1>3
<1>4. ASSUME NEW r \in Run, pc[r] = "obtaining", file[next[r]] = None,
             NEW ms \in Durations, file' = [file EXCEPT ![next[r]] = ms]
      PROVE  /\ \A a \in Assets(input) : file[a] # None => file'[a] = file[a]
             /\ ~Have(file, Assets(input))
  <2>1. next[r] \in Assets(input)
    BY <1>4 DEF TimingInv, ProgressInv
  <2> QED
    BY <1>4, <2>1 DEF TypeOK, Have
<1> QED
  BY <1>1, <1>2, <1>3, <1>4

(***************************************************************************)
(* A run that goes from one place to another keeps the invariant when what *)
(* holds at its new place is shown; the other runs keep what they have.    *)
(***************************************************************************)
LEMMA ProgressStep ==
  ASSUME TypeOK, TimingInv, [Next]_vars, NEW r \in Run,
         pc' = [pc EXCEPT ![r] = pc'[r]],
         \A q \in Run \ {r} : next'[q] = next[q],
         pc'[r] \in {"idle", "marking"} => next'[r] = 1,
         pc'[r] \in {"obtaining", "judging"} =>
           next'[r] \in Assets(input) /\ Have(file', Before(input, next'[r])),
         pc'[r] = "judging" => file'[next'[r]] # None,
         pc'[r] \in {"comparing", "assembling", "rendering"} => Have(file', Assets(input)),
         pc'[r] \in {"finishing", "storing", "registering", "reviewing", "completing"} => Whole(input, file')
  PROVE  ProgressInv'
<1>1. /\ input' = input
      /\ \A a \in Assets(input) : file[a] # None => file'[a] = file[a]
      /\ Have(file, Assets(input)) => file' = file
  BY KeptFiles
<1>2. SUFFICES ASSUME NEW q \in Run
               PROVE  /\ pc'[q] \in {"idle", "marking"} => next'[q] = 1
                      /\ pc'[q] \in {"obtaining", "judging"} =>
                           next'[q] \in Assets(input) /\ Have(file', Before(input, next'[q]))
                      /\ pc'[q] = "judging" => file'[next'[q]] # None
                      /\ pc'[q] \in {"comparing", "assembling", "rendering"} => Have(file', Assets(input))
                      /\ pc'[q] \in {"finishing", "storing", "registering", "reviewing", "completing"} =>
                           Whole(input, file')
  BY <1>1 DEF ProgressInv
<1>3. CASE q = r
  BY <1>3
<1>4. CASE q # r
  <2>1. pc'[q] = pc[q] /\ next'[q] = next[q]
    BY <1>4 DEF TypeOK
  <2>2. ASSUME NEW a \in Assets(input), Have(file, Before(input, a))
        PROVE  Have(file', Before(input, a))
    BY <1>1, <2>2 DEF Have, Before
  <2>3. Have(file, Assets(input)) => Have(file', Assets(input))
    BY <1>1
  <2>4. Whole(input, file) => Whole(input, file')
    BY <1>1 DEF Whole
  <2> QED
    BY <1>1, <2>1, <2>2, <2>3, <2>4 DEF TimingInv, ProgressInv
<1> QED
  BY <1>3, <1>4

\* After an asset that is there, the run obtains the next, or has them all.
LEMMA AdvanceStep ==
  ASSUME TypeOK, TimingInv, [Next]_vars, NEW r \in Run,
         next[r] \in Assets(input), Have(file', Before(input, next[r])), file'[next[r]] # None,
         Advance(r)
  PROVE  ProgressInv'
<1> DEFINE a == next[r]
<1>1. input \in InputType /\ Accepted(input)
  BY InputsAssumption DEF TypeOK, TimingInv
<1>2. /\ next' = [next EXCEPT ![r] = a + 1]
      /\ pc' = [pc EXCEPT ![r] = IF a + 1 \in Assets(input) THEN "obtaining"
                                 ELSE IF Len(input.shots) > 1 THEN "comparing" ELSE "assembling"]
  BY DEF Advance, Goto
<1>3. IF a + 1 \in Assets(input) THEN Have(file', Before(input, a + 1)) ELSE Have(file', Assets(input))
  BY <1>1, NextAsset
<1>4. /\ pc' = [pc EXCEPT ![r] = pc'[r]]
      /\ \A q \in Run \ {r} : next'[q] = next[q]
      /\ next'[r] = a + 1
      /\ pc'[r] = IF a + 1 \in Assets(input) THEN "obtaining"
                  ELSE IF Len(input.shots) > 1 THEN "comparing" ELSE "assembling"
  BY <1>2 DEF TypeOK
<1> QED
  BY <1>3, <1>4, ProgressStep

\* A run that got its asset: a video is judged, after a voice come all.
LEMMA ObtainedStep ==
  ASSUME TypeOK, TimingInv, [Next]_vars, NEW r \in Run,
         next[r] \in Assets(input), Have(file', Before(input, next[r])), file'[next[r]] # None,
         Obtained(r)
  PROVE  ProgressInv'
<1>1. CASE next[r] \in Shots(input)
  <2>1. pc' = [pc EXCEPT ![r] = "judging"] /\ next' = next
    BY <1>1 DEF Obtained, Goto
  <2>2. pc' = [pc EXCEPT ![r] = pc'[r]] /\ pc'[r] = "judging"
    BY <2>1 DEF TypeOK
  <2> QED
    BY <2>1, <2>2, ProgressStep
<1>2. CASE next[r] \notin Shots(input)
  BY <1>2, AdvanceStep DEF Obtained
<1> QED
  BY <1>1, <1>2

LEMMA ProgressInductive == TypeOK /\ TimingInv /\ [Next]_vars => ProgressInv'
<1> SUFFICES ASSUME TypeOK, TimingInv, [Next]_vars
             PROVE  ProgressInv'
  OBVIOUS
<1>1. /\ input' = input
      /\ \A a \in Assets(input) : file[a] # None => file'[a] = file[a]
      /\ Have(file, Assets(input)) => file' = file
  BY KeptFiles
<1>2. pc \in [Run -> Location] /\ next \in [Run -> Nat] /\ ProgressInv
  BY DEF TypeOK, TimingInv
\* Nobody is anywhere else than before.
<1>3. ASSUME UNCHANGED <<pc, next, file>> PROVE ProgressInv'
  BY <1>1, <1>2, <1>3 DEF ProgressInv
\* A run that stops being under way.
<1>4. ASSUME NEW r \in Run, NEW l \in {"failing", "ended"}, Goto(r, l), UNCHANGED next
      PROVE  ProgressInv'
  <2>1. pc' = [pc EXCEPT ![r] = pc'[r]] /\ pc'[r] = l
    BY <1>2, <1>4 DEF Goto
  <2> QED
    BY <1>4, <2>1, ProgressStep
<1>5. ASSUME NEW r \in Run, Start(r) PROVE ProgressInv'
  <2>1. CASE Goto(r, "ended")
    BY <1>4, <1>5, <2>1 DEF Start
  <2>2. CASE Goto(r, "marking")
    <3>1. pc' = [pc EXCEPT ![r] = pc'[r]] /\ pc'[r] = "marking" /\ next' = next /\ next[r] = 1
      BY <1>2, <1>5, <2>2 DEF Start, Goto, ProgressInv
    <3> QED
      BY <3>1, ProgressStep
  <2> QED
    BY <1>5, <2>1, <2>2 DEF Start
<1>6. ASSUME NEW r \in Run, Mark(r) PROVE ProgressInv'
  <2>1. CASE Fail(r, "error")
    BY <1>4, <1>6, <2>1 DEF Mark, Fail
  <2>2. CASE Goto(r, "obtaining")
    <3>1. /\ pc' = [pc EXCEPT ![r] = pc'[r]] /\ pc'[r] = "obtaining"
          /\ next' = next /\ next[r] = 1
      BY <1>2, <1>6, <2>2 DEF Mark, Goto, ProgressInv
    <3>2. PICK n \in Nat \ {0} : Assets(input) = 1..n
      BY AssetsRange, InputsAssumption DEF TypeOK, TimingInv
    <3>3. 1 \in Assets(input) /\ Before(input, 1) = {}
      BY <3>2 DEF Before
    <3>4. Have(file', Before(input, 1))
      BY <3>3 DEF Have
    <3> QED
      BY <3>1, <3>3, <3>4, ProgressStep
  <2> QED
    BY <1>6, <2>1, <2>2 DEF Mark
<1>7. ASSUME NEW r \in Run, Obtain(r) PROVE ProgressInv'
  <2>1. next[r] \in Assets(input) /\ Have(file, Before(input, next[r]))
    BY <1>2, <1>7 DEF Obtain, ProgressInv
  <2>2. Have(file', Before(input, next[r]))
    BY <1>1, <2>1 DEF Have, Before
  <2>3. CASE Fail(r, "error") /\ UNCHANGED next
    BY <1>4, <2>3 DEF Fail
  <2>4. CASE file[next[r]] # None /\ Obtained(r)
    BY <1>1, <2>1, <2>2, <2>4, ObtainedStep
  <2>5. ASSUME NEW ms \in Durations, file' = [file EXCEPT ![next[r]] = ms], Obtained(r)
        PROVE  ProgressInv'
    <3>1. file'[next[r]] # None
      BY <2>1, <2>5 DEF TypeOK
    <3> QED
      BY <2>1, <2>2, <2>5, <3>1, ObtainedStep
  <2> QED
    BY <1>7, <2>3, <2>4, <2>5 DEF Obtain
<1>8. ASSUME NEW r \in Run, Judge(r) PROVE ProgressInv'
  <2>1. /\ next[r] \in Assets(input) /\ Have(file, Before(input, next[r])) /\ file[next[r]] # None
        /\ file' = file
    BY <1>2, <1>8 DEF Judge, ProgressInv
  <2>2. CASE Advance(r)
    BY <2>1, <2>2, AdvanceStep
  <2>3. CASE ~Advance(r)
    BY <1>4, <1>8, <2>3 DEF Judge, Condemn, Fail
  <2> QED
    BY <2>2, <2>3
\* A run that has all assets, and goes on without the next being moved.
<1>9. ASSUME NEW r \in Run, Have(file, Assets(input)), UNCHANGED next,
             NEW l \in {"assembling", "rendering"}, Goto(r, l)
      PROVE  ProgressInv'
  <2>1. pc' = [pc EXCEPT ![r] = pc'[r]] /\ pc'[r] = l /\ file' = file
    BY <1>1, <1>2, <1>9 DEF Goto
  <2> QED
    BY <1>9, <2>1, ProgressStep
<1>10. ASSUME NEW r \in Run, Whole(input, file), UNCHANGED next,
              NEW l \in {"finishing", "storing", "registering", "reviewing", "completing"}, Goto(r, l)
       PROVE  ProgressInv'
  <2>1. pc' = [pc EXCEPT ![r] = pc'[r]] /\ pc'[r] = l /\ file' = file
    BY <1>1, <1>2, <1>10 DEF Goto, Whole
  <2> QED
    BY <1>10, <2>1, ProgressStep
<1>11. ASSUME NEW r \in Run, Compare(r) PROVE ProgressInv'
  BY <1>2, <1>4, <1>9, <1>11 DEF Compare, Condemn, Fail, ProgressInv
<1>12. ASSUME NEW r \in Run, Assemble(r) PROVE ProgressInv'
  BY <1>2, <1>4, <1>9, <1>12 DEF Assemble, Condemn, Fail, ProgressInv
<1>13. ASSUME NEW r \in Run, Render(r) PROVE ProgressInv'
  <2>1. Have(file, Assets(input))
    BY <1>2, <1>13 DEF Render, ProgressInv
  <2> QED
    BY <1>4, <1>10, <1>13, <2>1 DEF Render, Fail, Whole
<1>14. ASSUME NEW r \in Run, Finish(r) PROVE ProgressInv'
  BY <1>2, <1>10, <1>14 DEF Finish, ProgressInv
<1>15. ASSUME NEW r \in Run, Store(r) PROVE ProgressInv'
  BY <1>2, <1>4, <1>10, <1>15 DEF Store, Fail, ProgressInv
<1>16. ASSUME NEW r \in Run, Register(r) PROVE ProgressInv'
  BY <1>2, <1>4, <1>10, <1>16 DEF Register, Fail, ProgressInv
<1>17. ASSUME NEW r \in Run, CheckReview(r) PROVE ProgressInv'
  BY <1>2, <1>4, <1>10, <1>17 DEF CheckReview, Fail, ProgressInv
<1>18. ASSUME NEW r \in Run, Complete(r) PROVE ProgressInv'
  BY <1>4, <1>18 DEF Complete, Fail
<1>19. ASSUME NEW r \in Run, FailJob(r) PROVE ProgressInv'
  BY <1>4, <1>19 DEF FailJob
<1>20. ASSUME NEW r \in Run, Crash(r) PROVE ProgressInv'
  BY <1>4, <1>20 DEF Crash
<1>21. CASE Recover
  BY <1>3, <1>21 DEF Recover
<1>22. CASE Review
  BY <1>3, <1>22 DEF Review
<1>23. CASE UNCHANGED vars
  BY <1>3, <1>23 DEF vars
<1> QED
  BY <1>5, <1>6, <1>7, <1>8, <1>11, <1>12, <1>13, <1>14, <1>15, <1>16, <1>17, <1>18, <1>19,
     <1>20, <1>21, <1>22, <1>23 DEF Next, Step

\* The plan: what the preflight accepts before the first run, it accepts for each.
LEMMA PlanInductive == TypeOK /\ TimingInv /\ [Next]_vars => PlanInv'
<1> SUFFICES ASSUME TypeOK, TimingInv, [Next]_vars
             PROVE  PlanInv'
  OBVIOUS
<1>1. input' = input
  BY KeptFiles
<1>2. /\ pc \in [Run -> Location] /\ cause \in [Run -> {"none", "plan", "quality", "error"}]
      /\ PlanInv
  BY DEF TypeOK, TimingInv
\* No run starts, and none fails for the plan.
<1>3. ASSUME \A r \in Run : pc[r] = "idle" => pc'[r] \in {"idle", "ended"},
             \A r \in Run : pc[r] = "ended" => pc'[r] = "ended",
             \A r \in Run : cause'[r] = "plan" => cause[r] = "plan"
      PROVE  PlanInv'
  BY <1>1, <1>2, <1>3 DEF PlanInv, Active
<1>4. ASSUME NEW r \in Run, Start(r) PROVE PlanInv'
  BY <1>1, <1>2, <1>4 DEF Start, Goto, PlanInv, Active
<1>5. ASSUME NEW r \in Run, Assemble(r) PROVE PlanInv'
  BY <1>1, <1>2, <1>5 DEF Assemble, Condemn, Fail, Goto, PlanInv, Active
<1>6. ASSUME NEW r \in Run, Mark(r) \/ Render(r) \/ Finish(r) \/ Store(r) \/ Register(r)
                            \/ CheckReview(r) \/ Complete(r)
      PROVE  PlanInv'
  BY <1>2, <1>3, <1>6 DEF Mark, Render, Finish, Store, Register, CheckReview, Complete, Fail, Goto
<1>7. ASSUME NEW r \in Run, Obtain(r) \/ Judge(r) \/ Compare(r) \/ FailJob(r) \/ Crash(r)
      PROVE  PlanInv'
  BY <1>2, <1>3, <1>7 DEF Obtain, Obtained, Judge, Advance, Compare, Condemn, FailJob, Crash, Fail, Goto
<1>8. CASE Recover \/ Review \/ UNCHANGED vars
  BY <1>2, <1>3, <1>8 DEF Recover, Review, vars
<1> QED
  BY <1>4, <1>5, <1>6, <1>7, <1>8 DEF Next, Step

LEMMA TimingInductive == TypeOK /\ TimingInv /\ [Next]_vars => TimingInv'
<1> SUFFICES ASSUME TypeOK, TimingInv, [Next]_vars
             PROVE  TimingInv'
  OBVIOUS
<1>1. /\ input' = input
      /\ \A a \in Assets(input) : file[a] # None => file'[a] = file[a]
      /\ Have(file, Assets(input)) => file' = file
  BY KeptFiles
<1>2. Accepted(input)'
  BY <1>1 DEF TimingInv
<1>3. ShotsInv'
  <2>1. CASE UNCHANGED file
    BY <1>1, <2>1 DEF TimingInv, ShotsInv
  <2>2. ASSUME NEW r \in Run, Obtain(r) PROVE ShotsInv'
    <3>1. CASE UNCHANGED file
      BY <1>1, <3>1 DEF TimingInv, ShotsInv
    <3>2. ASSUME NEW ms \in Durations, Inspected(input, next[r], ms), file' = [file EXCEPT ![next[r]] = ms]
          PROVE  ShotsInv'
      BY <1>1, <3>2 DEF TimingInv, ShotsInv, TypeOK, Assets
    <3> QED
      BY <2>2, <3>1, <3>2 DEF Obtain
  <2> QED
    BY <2>1, <2>2 DEF Next, Step, Start, Mark, Judge, Compare, Assemble, Render, Finish, Store,
       Register, CheckReview, Complete, FailJob, Crash, Recover, Review, vars
<1>4. review' # "none" => Whole(input, file)'
  <2>1. Whole(input, file) => Whole(input, file)'
    BY <1>1 DEF Whole
  <2>2. \/ review # "none"
        \/ review' = "none"
        \/ \E r \in Run : pc[r] = "registering"
    BY DEF Next, Step, Start, Mark, Obtain, Judge, Compare, Assemble, Render, Finish, Store,
       Register, CheckReview, Complete, FailJob, Crash, Recover, Review, row, vars
  <2>3. review' # "none" => Whole(input, file)
    BY <2>2 DEF TimingInv, ProgressInv
  <2> QED
    BY <2>1, <2>3
<1> QED
  BY <1>2, <1>3, <1>4, PlanInductive, ProgressInductive DEF TimingInv

LEMMA TimingInit == Init => TimingInv
<1> SUFFICES ASSUME Init
             PROVE  TimingInv
  OBVIOUS
<1>1. Accepted(input) /\ PlanInv /\ ProgressInv /\ review = "none"
  BY DEF Init, PlanInv, Active, ProgressInv
<1>2. ShotsInv
  BY DEF Init, ShotsInv, Assets
<1> QED
  BY <1>1, <1>2 DEF TimingInv

(***************************************************************************)
(* Whatever an operator asks for: when the assembly refuses a plan that    *)
(* the preflight accepted, all its media being paid for, a video was       *)
(* planned shorter than its shot, or the voice shorter than the timeline   *)
(* within the tolerance of the preflight; nothing else can be refused.     *)
(***************************************************************************)
THEOREM RefusedUncompared == Spec => []RefusedOnlyUncompared
<1>1. TypeOK /\ TimingInv => RefusedOnlyUncompared
  BY RefusedPlan, InputsAssumption DEF TypeOK, TimingInv, PlanInv, RefusedOnlyUncompared
<1> QED
  BY <1>1, TypeInit, TypeStep, TimingInit, TimingInductive, PTL DEF Spec

(***************************************************************************)
(* For any number of shots of any lengths, and any files delivered: a      *)
(* master that a reviewer sees is whole within a second, or a longer       *)
(* audio stream hides no more than a second and a half for each video.     *)
(***************************************************************************)
THEOREM VideoWhole == Spec => []VideoIsWholeUnlessMasked
<1>1. TypeOK /\ TimingInv => VideoIsWholeUnlessMasked
  <2> SUFFICES ASSUME TypeOK, TimingInv, review # "none"
               PROVE  \/ MissingMs <= 1000
                      \/ AudioMs(input, file) > VideoMs(input, file) /\ MissingMs <= 1500 * Len(input.shots)
    BY DEF VideoIsWholeUnlessMasked
  <2>1. /\ MasterValid(input, file)
        /\ input \in InputType
        /\ \A a \in Assets(input) : file[a] \in Nat
    BY InputsAssumption, DurationsAssumption DEF TypeOK, TimingInv, Whole, Have
  <2>2. \A s \in Shots(input) : s \in Assets(input) /\ Inspected(input, s, file[s])
    BY DEF TimingInv, ShotsInv, Whole, Have, Assets
  <2>3. input.voice => file[Voice(input)] \in Nat
    BY <2>1 DEF Assets
  <2> QED
    BY <2>1, <2>2, <2>3, ValidMaster DEF MissingMs
<1> QED
  BY <1>1, TypeInit, TypeStep, TimingInit, TimingInductive, PTL DEF Spec
=============================================================================
