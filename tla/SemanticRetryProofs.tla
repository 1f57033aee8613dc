-------------------------- MODULE SemanticRetryProofs --------------------------
(***************************************************************************)
(* Theorems about SemanticRetry, for any number of commands and any limit  *)
(* of the history.  What they rest on: an attempt belongs to the one call  *)
(* that started it, a row that was finished stays as it is, and a voice is *)
(* bought by the one call that claimed it.                                 *)
(***************************************************************************)
EXTENDS SemanticRetry, SequenceTheorems, WellFoundedInduction, TLAPS

Row == [status : {"RUNNING", "SUCCEEDED", "FAILED"}, evidence : Evidence, reused : Nat]

Early == {"idle", "quoting", "planning", "starting"}
Passed == {"materializing", "loading", "asking", "resolving", "speaking", "building", "finishing"}

\* Who is past start() has an attempt, and it is nobody else's.
MineInv ==
  \A c \in Call :
    /\ at[c] \in Early => mine[c] = 0
    /\ at[c] \notin Early \cup {"ended"} => mine[c] # 0
    /\ \A d \in Call : mine[c] # 0 /\ mine[c] = mine[d] => c = d

\* The claim of the voice: one call at the provider, and none after it was asked.
VoiceInv ==
  \A c \in Call :
    /\ at[c] = "speaking" => voice = "RUNNING" /\ \A d \in Call : at[d] = "speaking" => c = d
    /\ c \in spoken => voice \in AMBIGUOUS \cup {"SUCCEEDED", "FAILED"}
    /\ \A d \in Call : c \in spoken /\ d \in spoken => c = d

\* What a call has in hand where it stands.
HeldInv ==
  \A c \in Call :
    /\ at[c] \in Passed => verdict[c] = "pass"
    /\ at[c] \in {"building", "finishing", "completing", "closing"} => voice = "SUCCEEDED"
    /\ at[c] \in {"finishing", "completing", "closing"} => built
    /\ at[c] \in {"completing", "closing"} =>
         attempts[mine[c]].status = "SUCCEEDED" /\ attempts[mine[c]].evidence = "pass"
    /\ at[c] = "closing" => job = "COMPLETED"

IInv ==
  /\ TypeOK
  /\ MineInv
  /\ VoiceInv
  /\ HeldInv
  /\ RunningIsAttended
  /\ CompletedIsWhole
-----------------------------------------------------------------------------
\* finish() leaves every other row, and a row that is not RUNNING, as it was.
LEMMA FinishedRows ==
  ASSUME TypeOK, NEW c \in Call, mine[c] # 0, NEW s \in {"SUCCEEDED", "FAILED"}
  PROVE  /\ Finished(c, s) \in Seq(Row)
         /\ DOMAIN Finished(c, s) = Number
         /\ \A i \in Number : i # mine[c] \/ attempts[i].status # "RUNNING" =>
              Finished(c, s)[i] = attempts[i]
         /\ attempts[mine[c]].status = "RUNNING" =>
              /\ Finished(c, s)[mine[c]].status = s
              /\ Finished(c, s)[mine[c]].evidence = verdict[c]
<1> DEFINE m == mine[c]
<1>1. attempts \in Seq(Row) /\ verdict[c] \in Evidence
  BY DEF TypeOK, Row
<1>2. Number = 1..Len(attempts) /\ m \in 1..Len(attempts)
  BY <1>1, LenProperties DEF TypeOK, Number
<1>3. attempts[m] \in Row
  BY <1>1, <1>2, ElementOfSeq
<1> DEFINE new == [attempts[m] EXCEPT !.status = s, !.evidence = verdict[c]]
<1>4. new \in Row /\ new.status = s /\ new.evidence = verdict[c]
  BY <1>1, <1>3 DEF Row
<1>5. CASE ~Open(c)
  BY <1>1, <1>5 DEF Finished, Open, Number
<1>6. CASE Open(c)
  <2>1. Finished(c, s) = [attempts EXCEPT ![m] = new]
    BY <1>1, <1>2, <1>6, LenProperties DEF Finished
  <2> HIDE DEF new, m
  <2>2. /\ [attempts EXCEPT ![m] = new] \in Seq(Row)
        /\ Len([attempts EXCEPT ![m] = new]) = Len(attempts)
        /\ \A i \in 1..Len(attempts) : [attempts EXCEPT ![m] = new][i] = IF i = m THEN new ELSE attempts[i]
    BY <1>1, <1>2, <1>4, ExceptSeq
  <2>3. DOMAIN Finished(c, s) = Number
    BY <1>2, <2>1, <2>2, LenProperties
  <2>4. \A i \in Number : i # m \/ attempts[i].status # "RUNNING" => Finished(c, s)[i] = attempts[i]
    BY <1>2, <1>6, <2>1, <2>2 DEF Open, m
  <2>5. Finished(c, s)[m] = new
    BY <1>2, <2>1, <2>2
  <2> QED
    BY <1>4, <2>1, <2>2, <2>3, <2>4, <2>5 DEF m
<1> QED
  BY <1>5, <1>6

\* start() appends a row that is RUNNING.
LEMMA StartedRows ==
  ASSUME TypeOK, NEW r \in Nat
  PROVE  LET new == Append(attempts, [status |-> "RUNNING", evidence |-> "none", reused |-> r])
         IN  /\ new \in Seq(Row)
             /\ DOMAIN new = Number \cup {Len(attempts) + 1}
             /\ Len(attempts) + 1 \in Nat \ Number
             /\ Len(attempts) + 1 # 0
             /\ \A i \in Number : new[i] = attempts[i]
             /\ new[Len(attempts) + 1].status = "RUNNING"
<1> DEFINE e == [status |-> "RUNNING", evidence |-> "none", reused |-> r]
           new == Append(attempts, e)
<1>1. e \in Row /\ e.status = "RUNNING"
  BY DEF Row, Evidence
<1>2. attempts \in Seq(Row)
  BY DEF TypeOK, Row
<1>3. Number = 1..Len(attempts) /\ Len(attempts) \in Nat
  BY <1>2, LenProperties DEF Number
<1> HIDE DEF e
<1>4. /\ new \in Seq(Row)
      /\ Len(new) = Len(attempts) + 1
      /\ \A i \in 1..Len(attempts) : new[i] = attempts[i]
      /\ new[Len(attempts) + 1] = e
  BY <1>1, <1>2, AppendProperties
<1>5. DOMAIN new = 1..(Len(attempts) + 1)
  BY <1>4, LenProperties
<1> QED
  BY <1>1, <1>3, <1>4, <1>5 DEF e

\* The numbers of the attempts are positive.
LEMMA NumberNat ==
  ASSUME TypeOK
  PROVE  Number \subseteq Nat \ {0}
<1>1. attempts \in Seq(Row)
  BY DEF TypeOK, Row
<1> QED
  BY <1>1, LenProperties DEF Number

\* A set of attempts that is not empty has a newest one.
LEMMA NewestExists ==
  ASSUME TypeOK, NEW S, S \subseteq Number, S # {}
  PROVE  Newest(S) \in S /\ \A j \in S : j <= Newest(S)
<1> DEFINE Bound == {n \in Nat : \A j \in S : j <= n}
           Less == OpToRel(<, Nat)
<1>1. Number = 1..Len(attempts) /\ Len(attempts) \in Nat
  BY LenProperties DEF TypeOK, Number
<1>2. Len(attempts) \in Bound /\ Bound \subseteq Nat /\ S \subseteq Nat \ {0}
  BY <1>1
<1>3. PICK n \in Bound : \A m \in Bound : <<m, n>> \notin Less
  BY <1>2, NatLessThanWellFounded, WFMin, Zenon
<1>4. n \in Nat /\ \A m \in Bound : ~(m < n)
  BY <1>3 DEF OpToRel
<1>5. PICK i \in S : n = i
  <2>1. n # 0
    <3>1. PICK j \in S : j <= n
      BY <1>3
    <3> QED
      BY <1>2, <3>1
  <2>2. n - 1 \in Nat /\ n - 1 \notin Bound
    BY <1>4, <2>1
  <2>3. PICK i \in S : ~(i <= n - 1)
    BY <2>2
  <2>4. i \in Nat /\ i <= n
    BY <1>2, <1>3, <2>3
  <2> QED
    BY <1>4, <2>3, <2>4
<1>6. \A j \in S : j <= i
  BY <1>3, <1>5
<1> QED
  BY <1>5, <1>6 DEF Newest

\* reusableSemanticPassFromHistory() answers an attempt, or none.
LEMMA ReusableRow ==
  ASSUME TypeOK
  PROVE  Reusable \in Number \cup {0}
<1>1. Telling \subseteq Number
  BY DEF Telling
<1> QED
  BY <1>1, NewestExists DEF Reusable

\* Every action keeps the types.
LEMMA TypeStep == TypeOK /\ MineInv /\ [Next]_vars => TypeOK'
<1> SUFFICES ASSUME TypeOK, MineInv, [Next]_vars
             PROVE  TypeOK'
  OBVIOUS
<1> DEFINE Rest == /\ job \in {"FAILED", "COMPLETED"} /\ production \in {"FAILED", "COMPLETED"}
                   /\ voice \in Voice
                   /\ built \in BOOLEAN
                   /\ at \in [Call -> Location]
                   /\ quoted \in [Call -> SUBSET PaidCall]
                   /\ verdict \in [Call -> Evidence]
                   /\ spoken \subseteq Call
                   /\ outdated \in BOOLEAN /\ lost \in BOOLEAN
<1>1. Rest /\ attempts \in Seq(Row)
  BY DEF TypeOK, Row
<1>2. ASSUME attempts' = attempts, Rest',
             reuse' \in [Call -> Number \cup {0}], mine' \in [Call -> Number \cup {0}]
      PROVE  TypeOK'
  BY <1>1, <1>2 DEF TypeOK, Number, Row
<1>3. reuse \in [Call -> Number \cup {0}] /\ mine \in [Call -> Number \cup {0}]
  BY DEF TypeOK
<1>4. ASSUME NEW c \in Call, QuoteMedia(c) PROVE TypeOK'
  BY <1>1, <1>2, <1>3, <1>4 DEF QuoteMedia, Goto, Is, rows, local, history, Location, Evidence,
       Voice, PaidCall
<1>5. ASSUME NEW c \in Call, Confirm(c) PROVE TypeOK'
  BY <1>1, <1>2, <1>3, <1>5 DEF Confirm, Goto, Is, rows, local, history, Location, Evidence, Voice,
       PaidCall
<1>6. ASSUME NEW c \in Call, Plan(c) PROVE TypeOK'
  <2>1. Reusable \in Number \cup {0}
    BY ReusableRow
  <2> QED
    BY <1>1, <1>2, <1>3, <1>6, <2>1 DEF Plan, Goto, rows, history, Location
<1>7. ASSUME NEW c \in Call, Evaluate(c) PROVE TypeOK'
  BY <1>1, <1>2, <1>3, <1>7 DEF Evaluate, Goto, Is, rows, local, history, Location, Evidence, Voice
<1>8. ASSUME NEW c \in Call, Materialize(c) PROVE TypeOK'
  BY <1>1, <1>2, <1>3, <1>8 DEF Materialize, Goto, Is, rows, local, history, Location, Evidence, Voice
<1>9. ASSUME NEW c \in Call, LoadExisting(c) PROVE TypeOK'
  BY <1>1, <1>2, <1>3, <1>9 DEF LoadExisting, Goto, Is, rows, local, history, Location, Evidence, Voice
<1>10. ASSUME NEW c \in Call, Load(c) PROVE TypeOK'
  BY <1>1, <1>2, <1>3, <1>10 DEF Load, Goto, Is, rows, local, history, Location, Evidence, Voice
<1>11. ASSUME NEW c \in Call, Resolve(c) PROVE TypeOK'
  BY <1>1, <1>2, <1>3, <1>11 DEF Resolve, Goto, Is, rows, local, history, Location, Evidence, Voice
<1>12. ASSUME NEW c \in Call, Speak(c) PROVE TypeOK'
  BY <1>1, <1>2, <1>3, <1>12 DEF Speak, Goto, Is, rows, local, history, Location, Evidence, Voice
<1>13. ASSUME NEW c \in Call, Build(c) PROVE TypeOK'
  BY <1>1, <1>2, <1>3, <1>13 DEF Build, Goto, Is, rows, local, history, Location, Evidence, Voice
<1>14. ASSUME NEW c \in Call, CompleteJob(c) PROVE TypeOK'
  BY <1>1, <1>2, <1>3, <1>14 DEF CompleteJob, Goto, Is, rows, local, history, Location, Evidence, Voice
<1>15. ASSUME NEW c \in Call, CompleteProduction(c) PROVE TypeOK'
  BY <1>1, <1>2, <1>3, <1>15 DEF CompleteProduction, Goto, Is, rows, local, history, Location,
       Evidence, Voice
<1>16. ASSUME NEW c \in Call, Crash(c) PROVE TypeOK'
  BY <1>1, <1>2, <1>3, <1>16 DEF Crash, Goto, Is, rows, local, history, Location, Evidence, Voice
<1>17. ASSUME NEW c \in Call, Judge(c) PROVE TypeOK'
  <2>1. mine[c] # 0
    BY <1>17 DEF Judge, Is, MineInv, Early
  <2>2. attempts' \in Seq(Row) /\ DOMAIN attempts' = Number
    BY <1>1, <1>17, <2>1, FinishedRows DEF Judge, Number
  <2>3. Rest'
    BY <1>1, <1>17 DEF Judge, Goto, local, history, Location
  <2> QED
    BY <1>3, <1>17, <2>2, <2>3 DEF Judge, local, TypeOK, Number, Row
<1>18. ASSUME NEW c \in Call, Succeed(c) PROVE TypeOK'
  <2>1. mine[c] # 0
    BY <1>18 DEF Succeed, Is, MineInv, Early
  <2>2. attempts' \in Seq(Row) /\ DOMAIN attempts' = Number
    BY <1>1, <1>18, <2>1, FinishedRows DEF Succeed, Number
  <2>3. Rest'
    BY <1>1, <1>18 DEF Succeed, Goto, local, history, Location
  <2> QED
    BY <1>3, <1>18, <2>2, <2>3 DEF Succeed, local, TypeOK, Number, Row
<1>19. ASSUME NEW c \in Call, Fail(c) PROVE TypeOK'
  <2>1. mine[c] # 0
    BY <1>19 DEF Fail, Is, MineInv, Early
  <2>2. attempts' \in Seq(Row) /\ DOMAIN attempts' = Number
    BY <1>1, <1>19, <2>1, FinishedRows DEF Fail, Number
  <2>3. Rest'
    BY <1>1, <1>19 DEF Fail, Goto, local, history, Location
  <2> QED
    BY <1>3, <1>19, <2>2, <2>3 DEF Fail, local, TypeOK, Number, Row
<1>20. ASSUME NEW c \in Call, Start(c) PROVE TypeOK'
  <2>1. reuse[c] \in Nat
    BY <1>3, NumberNat
  <2>2. Rest'
    BY <1>1, <1>20 DEF Start, Goto, history, Location, Evidence
  <2>3. /\ attempts' \in Seq(Row)
        /\ Number \subseteq DOMAIN attempts'
        /\ mine' \in [Call -> DOMAIN attempts' \cup {0}]
    BY <1>1, <1>3, <1>20, <2>1, StartedRows DEF Start, Number
  <2>4. reuse' \in [Call -> DOMAIN attempts' \cup {0}]
    BY <1>3, <1>20, <2>3 DEF Start
  <2> QED
    BY <2>2, <2>3, <2>4 DEF TypeOK, Number, Row
<1>21. CASE UNCHANGED vars
  BY <1>1, <1>2, <1>3, <1>21 DEF vars, rows, local, history
<1> QED
  BY <1>4, <1>5, <1>6, <1>7, <1>8, <1>9, <1>10, <1>11, <1>12, <1>13,
     <1>14, <1>15, <1>16, <1>17, <1>18, <1>19, <1>20, <1>21 DEF Next, Step

\* Calls and rows keep what IInv says of them.
LEMMA ControlStep == IInv /\ [Next]_vars => IInv'
<1> SUFFICES ASSUME IInv, [Next]_vars
             PROVE  IInv'
  OBVIOUS
<1> DEFINE Rest == MineInv /\ VoiceInv /\ HeldInv /\ RunningIsAttended /\ CompletedIsWhole
<1>1. Rest
  BY DEF IInv
<1>2. TypeOK /\ TypeOK'
  BY TypeStep DEF IInv
<1>3. /\ at \in [Call -> Location] /\ mine \in [Call -> Number \cup {0}]
      /\ verdict \in [Call -> Evidence] /\ voice \in Voice /\ built \in BOOLEAN /\ spoken \subseteq Call
      /\ lost \in BOOLEAN /\ lost' \in BOOLEAN /\ built' \in BOOLEAN
      /\ 0 \notin Number
  BY <1>2, NumberNat DEF TypeOK
<1>4. ASSUME NEW c \in Call, QuoteMedia(c) PROVE Rest'
  BY <1>1, <1>3, <1>4 DEF QuoteMedia, Goto, Is, rows, local, history,
     MineInv, VoiceInv, HeldInv, RunningIsAttended, CompletedIsWhole, Early, Passed, Number
<1>5. ASSUME NEW c \in Call, Confirm(c) PROVE Rest'
  BY <1>1, <1>3, <1>5 DEF Confirm, Goto, Is, rows, local, history,
     MineInv, VoiceInv, HeldInv, RunningIsAttended, CompletedIsWhole, Early, Passed, Number
<1>6. ASSUME NEW c \in Call, Plan(c) PROVE Rest'
  BY <1>1, <1>3, <1>6 DEF Plan, Goto, Is, rows, local, history,
     MineInv, VoiceInv, HeldInv, RunningIsAttended, CompletedIsWhole, Early, Passed, Number
<1>7. ASSUME NEW c \in Call, Evaluate(c) PROVE Rest'
  BY <1>1, <1>3, <1>7 DEF Evaluate, Goto, Is, rows, local, history,
     MineInv, VoiceInv, HeldInv, RunningIsAttended, CompletedIsWhole, Early, Passed, Number
<1>8. ASSUME NEW c \in Call, Materialize(c) PROVE Rest'
  BY <1>1, <1>3, <1>8 DEF Materialize, Goto, Is, rows, local, history,
     MineInv, VoiceInv, HeldInv, RunningIsAttended, CompletedIsWhole, Early, Passed, Number
<1>9. ASSUME NEW c \in Call, LoadExisting(c) PROVE Rest'
  BY <1>1, <1>3, <1>9 DEF LoadExisting, Goto, Is, rows, local, history,
     MineInv, VoiceInv, HeldInv, RunningIsAttended, CompletedIsWhole, Early, Passed, Number
<1>10. ASSUME NEW c \in Call, Load(c) PROVE Rest'
  BY <1>1, <1>3, <1>10 DEF Load, Goto, Is, rows, local, history,
     MineInv, VoiceInv, HeldInv, RunningIsAttended, CompletedIsWhole, Early, Passed, Number
<1>11. ASSUME NEW c \in Call, Resolve(c) PROVE Rest'
  BY <1>1, <1>3, <1>11 DEF Resolve, Goto, Is, rows, local, history, AMBIGUOUS, Voice,
     MineInv, VoiceInv, HeldInv, RunningIsAttended, CompletedIsWhole, Early, Passed, Number
<1>12. ASSUME NEW c \in Call, Speak(c) PROVE Rest'
  BY <1>1, <1>3, <1>12 DEF Speak, Goto, Is, rows, local, history, AMBIGUOUS, Voice,
     MineInv, VoiceInv, HeldInv, RunningIsAttended, CompletedIsWhole, Early, Passed, Number
<1>13. ASSUME NEW c \in Call, Build(c) PROVE Rest'
  BY <1>1, <1>3, <1>13 DEF Build, Goto, Is, rows, local, history,
     MineInv, VoiceInv, HeldInv, RunningIsAttended, CompletedIsWhole, Early, Passed, Number
<1>14. ASSUME NEW c \in Call, CompleteJob(c) PROVE Rest'
  BY <1>1, <1>3, <1>14 DEF CompleteJob, Goto, Is, rows, local, history,
     MineInv, VoiceInv, HeldInv, RunningIsAttended, CompletedIsWhole, Early, Passed, Number
<1>15. ASSUME NEW c \in Call, CompleteProduction(c) PROVE Rest'
  BY <1>1, <1>3, <1>15 DEF CompleteProduction, Goto, Is, rows, local, history,
     MineInv, VoiceInv, HeldInv, RunningIsAttended, CompletedIsWhole, Early, Passed, Number
<1>16. ASSUME NEW c \in Call, Crash(c) PROVE Rest'
  <2>1. MineInv' /\ VoiceInv'
    BY <1>1, <1>3, <1>16 DEF Crash, Goto, rows, local, MineInv, VoiceInv, Early
  <2>2. HeldInv' /\ CompletedIsWhole'
    BY <1>1, <1>3, <1>16 DEF Crash, Goto, rows, local, HeldInv, CompletedIsWhole, Passed, Number
  <2>3. RunningIsAttended'
    <3>1. CASE mine[c] = 0
      BY <1>1, <1>3, <1>16, <3>1 DEF Crash, Goto, rows, local, RunningIsAttended, Number
    <3>2. CASE mine[c] # 0
      BY <1>16, <3>2 DEF Crash, RunningIsAttended
    <3> QED
      BY <3>1, <3>2
  <2> QED
    BY <2>1, <2>2, <2>3
<1>17. ASSUME NEW c \in Call, Judge(c) PROVE Rest'
  <2>1. mine[c] # 0
    BY <1>1, <1>17 DEF Judge, Is, MineInv, Early
  <2>2. /\ Number' = Number
        /\ \A i \in Number : i # mine[c] \/ attempts[i].status # "RUNNING" => attempts'[i] = attempts[i]
    BY <1>2, <1>17, <2>1, FinishedRows DEF Judge, Number
  <2>3. MineInv' /\ VoiceInv'
    BY <1>1, <1>3, <1>17 DEF Judge, Goto, Is, local, MineInv, VoiceInv, Early
  <2>4. attempts'[mine[c]].status # "RUNNING" \/ at'[c] # "ended" \/ lost'
    BY <1>2, <1>3, <1>17, <2>1, FinishedRows DEF Judge, Goto, Is, Open
  <2>5. RunningIsAttended'
    BY <1>1, <1>3, <1>17, <2>2, <2>4 DEF Judge, Goto, local, history, RunningIsAttended
  <2>6. HeldInv'
    BY <1>1, <1>2, <1>3, <1>17, <2>1, <2>2, FinishedRows DEF Judge, Goto, Is, Open, local, HeldInv,
         MineInv, Passed, Early
  <2>7. CompletedIsWhole'
    BY <1>1, <1>3, <1>17, <2>2 DEF Judge, CompletedIsWhole
  <2> QED
    BY <2>3, <2>5, <2>6, <2>7
<1>18. ASSUME NEW c \in Call, Succeed(c) PROVE Rest'
  <2>1. mine[c] # 0
    BY <1>1, <1>18 DEF Succeed, Is, MineInv, Early
  <2>2. /\ Number' = Number
        /\ \A i \in Number : i # mine[c] \/ attempts[i].status # "RUNNING" => attempts'[i] = attempts[i]
    BY <1>2, <1>18, <2>1, FinishedRows DEF Succeed, Number
  <2>3. MineInv' /\ VoiceInv'
    BY <1>1, <1>3, <1>18 DEF Succeed, Goto, Is, local, MineInv, VoiceInv, Early
  <2>4. attempts'[mine[c]].status # "RUNNING" \/ at'[c] # "ended" \/ lost'
    BY <1>2, <1>3, <1>18, <2>1, FinishedRows DEF Succeed, Goto, Is, Open
  <2>5. RunningIsAttended'
    BY <1>1, <1>3, <1>18, <2>2, <2>4 DEF Succeed, Goto, local, history, RunningIsAttended
  <2>6. HeldInv'
    BY <1>1, <1>2, <1>3, <1>18, <2>1, <2>2, FinishedRows DEF Succeed, Goto, Is, Open, local,
         HeldInv, MineInv, Passed, Early
  <2>7. CompletedIsWhole'
    BY <1>1, <1>3, <1>18, <2>2 DEF Succeed, CompletedIsWhole
  <2> QED
    BY <2>3, <2>5, <2>6, <2>7
<1>19. ASSUME NEW c \in Call, Fail(c) PROVE Rest'
  <2>1. mine[c] # 0
    BY <1>1, <1>19 DEF Fail, Is, MineInv, Early
  <2>2. /\ Number' = Number
        /\ \A i \in Number : i # mine[c] \/ attempts[i].status # "RUNNING" => attempts'[i] = attempts[i]
    BY <1>2, <1>19, <2>1, FinishedRows DEF Fail, Number
  <2>3. MineInv' /\ VoiceInv'
    BY <1>1, <1>3, <1>19 DEF Fail, Goto, Is, local, MineInv, VoiceInv, Early
  <2>4. attempts'[mine[c]].status # "RUNNING" \/ at'[c] # "ended" \/ lost'
    BY <1>2, <1>3, <1>19, <2>1, FinishedRows DEF Fail, Goto, Is, Open
  <2>5. RunningIsAttended'
    BY <1>1, <1>3, <1>19, <2>2, <2>4 DEF Fail, Goto, local, history, RunningIsAttended
  <2>6. HeldInv'
    BY <1>1, <1>2, <1>3, <1>19, <2>1, <2>2, FinishedRows DEF Fail, Goto, Is, Open, local, HeldInv,
         MineInv, Passed, Early
  <2>7. CompletedIsWhole'
    BY <1>1, <1>3, <1>19, <2>2 DEF Fail, CompletedIsWhole
  <2> QED
    BY <2>3, <2>5, <2>6, <2>7
<1>20. ASSUME NEW c \in Call, Start(c) PROVE Rest'
  <2>1. reuse[c] \in Nat
    BY <1>2, NumberNat DEF TypeOK
  <2>2. CASE Goto(c, "ended") /\ UNCHANGED <<attempts, mine, verdict, history>>
    BY <1>1, <1>3, <1>20, <2>2 DEF Start, Goto, Is, history, MineInv, VoiceInv, HeldInv,
         RunningIsAttended, CompletedIsWhole, Early, Passed, Number
  <2> DEFINE n == Len(attempts) + 1
  <2>3. CASE NoneRunning /\ attempts' = Append(attempts, [status |-> "RUNNING", evidence |-> "none", reused |-> reuse[c]])
    <3>1. /\ Number' = Number \cup {n} /\ n \notin Number /\ n # 0
          /\ \A i \in Number : attempts'[i] = attempts[i]
      BY <1>2, <2>1, <2>3, StartedRows DEF Number
    <3>2. \A i \in Number : attempts'[i].status # "RUNNING"
      BY <2>3, <3>1 DEF NoneRunning
    <3>3. \/ mine' = [mine EXCEPT ![c] = n] /\ at'[c] \in {"evaluating", "judging"}
          \/ mine' = mine /\ at'[c] = "ended" /\ lost'
      BY <1>3, <1>20, <2>3, <3>1, <3>2 DEF Start, Goto
    <3>4. /\ \A d \in Call \ {c} : at'[d] = at[d] /\ mine'[d] = mine[d]
          /\ at'[c] \in {"evaluating", "judging", "ended"}
      BY <1>3, <1>20, <3>3 DEF Start, Goto
    <3>5. MineInv' /\ VoiceInv'
      BY <1>1, <1>3, <1>20, <3>1, <3>3, <3>4 DEF Start, MineInv, VoiceInv, Early
    <3>6. RunningIsAttended'
      BY <1>3, <3>1, <3>2, <3>3 DEF RunningIsAttended
    <3>7. HeldInv'
      BY <1>1, <1>3, <1>20, <3>1, <3>4 DEF Start, HeldInv, MineInv, Passed, Early
    <3>8. CompletedIsWhole'
      BY <1>1, <1>20, <3>1 DEF Start, CompletedIsWhole
    <3> QED
      BY <3>5, <3>6, <3>7, <3>8
  <2> QED
    BY <1>20, <2>2, <2>3 DEF Start
<1>21. ASSUME UNCHANGED vars PROVE Rest'
  <2>1. MineInv' /\ VoiceInv' /\ HeldInv'
    BY <1>1, <1>21 DEF vars, rows, local, history, MineInv, VoiceInv, HeldInv
  <2>2. RunningIsAttended' /\ CompletedIsWhole'
    BY <1>1, <1>21 DEF vars, rows, local, history, RunningIsAttended, CompletedIsWhole, Number
  <2> QED
    BY <2>1, <2>2
<1> QED
  BY <1>2, <1>4, <1>5, <1>6, <1>7, <1>8, <1>9, <1>10, <1>11, <1>12, <1>13,
     <1>14, <1>15, <1>16, <1>17, <1>18, <1>19, <1>20, <1>21 DEF Next, Step, IInv

LEMMA InitIInv == Init => IInv
<1> SUFFICES ASSUME Init
             PROVE  IInv
  OBVIOUS
<1>1. attempts \in Seq(Row) /\ spoken \subseteq Call
  BY DEF Init
<1>2. /\ quoted \in [Call -> SUBSET PaidCall] /\ at \in [Call -> Location]
      /\ verdict \in [Call -> Evidence]
  BY DEF Init, PaidCall, Location, Evidence
<1>3. TypeOK
  BY <1>1, <1>2 DEF Init, TypeOK, Row, Voice
<1>4. MineInv /\ VoiceInv /\ HeldInv /\ RunningIsAttended /\ CompletedIsWhole
  BY DEF Init, MineInv, VoiceInv, HeldInv, RunningIsAttended, CompletedIsWhole, Early, Passed, Number
<1> QED
  BY <1>3, <1>4 DEF IInv

(***************************************************************************)
(* Type correctness: whatever fails or dies, an attempt of the table is in *)
(* one of its three statuses, and a call refers to attempts that exist.    *)
(***************************************************************************)
THEOREM TypeCorrect == Spec => []TypeOK
<1>1. IInv => TypeOK
  BY DEF IInv
<1> QED
  BY <1>1, InitIInv, ControlStep, PTL DEF Spec

(***************************************************************************)
(* However many commands an operator confirms, an attempt that is RUNNING, *)
(* and so in the way of every later one, is in the hands of a call, unless *)
(* a call died or a write of its attempt did not arrive.                   *)
(***************************************************************************)
THEOREM RunningAttended == Spec => []RunningIsAttended
<1>1. IInv => RunningIsAttended
  BY DEF IInv
<1> QED
  BY <1>1, InitIInv, ControlStep, PTL DEF Spec

(***************************************************************************)
(* A completed job has its attempt with a PASS, its master and its voice,  *)
(* and a completed production a completed job, whatever calls interleave   *)
(* and wherever they stop.                                                 *)
(***************************************************************************)
THEOREM CompletedWhole == Spec => []CompletedIsWhole
<1>1. IInv => CompletedIsWhole
  BY DEF IInv
<1> QED
  BY <1>1, InitIInv, ControlStep, PTL DEF Spec
-----------------------------------------------------------------------------
(***************************************************************************)
(* What the table of the attempts says as long as no attempt was started   *)
(* on a history no longer true: a row that is resumed ends with the PASS   *)
(* it resumes, so that every row after the first PASS resumes one, and the *)
(* latest row always tells what all of them do, within any limit.          *)
(***************************************************************************)
RowsInv ==
  \A i \in Number :
    /\ attempts[i].status = "RUNNING" => i = Len(attempts)
    /\ attempts[i].status = "SUCCEEDED" => attempts[i].evidence = "pass"
    /\ attempts[i].reused # 0 /\ attempts[i].status # "RUNNING" => attempts[i].evidence = "pass"

\* Who resumes a PASS has it in hand, and the evaluator is not asked.
ResumeInv ==
  \A c \in Call : mine[c] # 0 =>
    /\ attempts[mine[c]].reused # 0 => verdict[c] = "pass"
    /\ at[c] = "evaluating" => attempts[mine[c]].reused = 0

HistoryInv ==
  ~outdated => \A i, j \in Number : i < j =>
    /\ attempts[i].evidence # "content" /\ attempts[i].status # "SUCCEEDED"
    /\ attempts[i].evidence = "pass" => attempts[j].reused # 0

\* What was not announced is not for sale any more.
APassEnded == \E i \in Number : attempts[i].status # "RUNNING" /\ attempts[i].evidence = "pass"

QuoteInv ==
  \A c \in Call :
    /\ at[c] \notin {"idle", "ended"} => "speech" \in quoted[c] \/ ~MayBeSpoken
    /\ at[c] \notin {"idle", "quoting", "ended"} => "evaluation" \in quoted[c] \/ APassEnded
    /\ c \in spoken => at[c] # "idle"

LedgerInv == RowsInv /\ ResumeInv /\ HistoryInv /\ QuoteInv /\ PaidAsQuotedUnlessOutdated

\* The latest row, once it is finished with an answer, is the one that decides.
LEMMA LatestTells ==
  ASSUME TypeOK, attempts # <<>>,
         attempts[Len(attempts)].status # "RUNNING",
         attempts[Len(attempts)].evidence \in {"pass", "content"}
  PROVE  Telling # {} /\ Newest(Telling) = Len(attempts)
<1>1. /\ Number = 1..Len(attempts)
      /\ Len(attempts) \in Nat \ {0}
  BY LenProperties, EmptySeq DEF TypeOK, Number
<1>2. Len(attempts) \in Telling /\ Telling \subseteq Number
  BY <1>1, LimitAssumption DEF Telling
<1>3. PICK k \in Telling : k = Newest(Telling) /\ Len(attempts) <= k
  BY <1>2, NewestExists
<1>4. k = Len(attempts)
  BY <1>1, <1>2, <1>3
<1> QED
  BY <1>2, <1>3, <1>4

(***************************************************************************)
(* When an attempt ended with a PASS, none is running and the history was  *)
(* never outdated, the history offers a PASS to reuse, or ends with a      *)
(* FAIL: no call can mean to evaluate again.                               *)
(***************************************************************************)
LEMMA PassIsOffered ==
  ASSUME TypeOK, RowsInv, HistoryInv, ~outdated, NoneRunning,
         NEW i \in Number, attempts[i].evidence = "pass"
  PROVE  ~ContentFailed /\ Reusable = Len(attempts) /\ Len(attempts) \in Number
<1>1. /\ Number = 1..Len(attempts)
      /\ Len(attempts) \in Nat
  BY LenProperties DEF TypeOK, Number
<1> DEFINE n == Len(attempts)
<1>2. n \in Number /\ i <= n /\ attempts # <<>>
  BY <1>1, EmptySeq
<1>3. attempts[n].status # "RUNNING"
  BY <1>2 DEF NoneRunning
<1>4. attempts[n].evidence = "pass"
  <2>1. CASE i = n
    BY <2>1
  <2>2. CASE i < n
    <3>1. attempts[n].reused # 0
      BY <1>2, <2>2 DEF HistoryInv
    <3> QED
      BY <1>2, <1>3, <3>1 DEF RowsInv
  <2> QED
    BY <1>1, <1>2, <2>1, <2>2
<1>5. Telling # {} /\ Newest(Telling) = n
  BY <1>2, <1>3, <1>4, LatestTells
<1> QED
  BY <1>2, <1>4, <1>5 DEF ContentFailed, Reusable

\* A step that leaves the table and what is known of it alone.
LEMMA UntouchedLedger ==
  ASSUME RowsInv, HistoryInv, UNCHANGED <<attempts, outdated>>
  PROVE  RowsInv' /\ HistoryInv' /\ APassEnded' = APassEnded
<1> QED
  BY DEF RowsInv, HistoryInv, APassEnded, Number

(***************************************************************************)
(* A call that ends its attempt, or fails to, on the way from its verdict  *)
(* to its end.                                                             *)
(***************************************************************************)
LEMMA FinishingLedger ==
  ASSUME IInv, LedgerInv, NEW c \in Call, at[c] \in {"judging", "finishing", "failing"},
         NEW s \in {"SUCCEEDED", "FAILED"}, s = "SUCCEEDED" => verdict[c] = "pass",
         attempts' = Finished(c, s) \/ UNCHANGED attempts,
         NEW l \in Location \ {"idle", "quoting", "evaluating"},
         Goto(c, l),
         UNCHANGED <<voice, local, spoken, outdated>>
  PROVE  LedgerInv'
<1>1. /\ TypeOK /\ mine[c] # 0 /\ mine[c] \in Number
      /\ at \in [Call -> Location] /\ mine \in [Call -> Number \cup {0}]
  BY DEF IInv, MineInv, Early, TypeOK
<1>2. CASE UNCHANGED attempts
  <2>1. RowsInv' /\ HistoryInv' /\ APassEnded' = APassEnded
    BY <1>2, UntouchedLedger DEF LedgerInv
  <2>2. ResumeInv'
    BY <1>1, <1>2 DEF LedgerInv, ResumeInv, Goto, local
  <2>3. QuoteInv' /\ PaidAsQuotedUnlessOutdated'
    BY <1>1, <2>1 DEF LedgerInv, QuoteInv, PaidAsQuotedUnlessOutdated, Goto, local, MayBeSpoken
  <2> QED
    BY <2>1, <2>2, <2>3 DEF LedgerInv
<1>3. CASE attempts' = Finished(c, s)
  <2> DEFINE m == mine[c]
  <2>1. /\ attempts' \in Seq(Row)
        /\ Number' = Number
        /\ \A i \in Number : i # m \/ attempts[i].status # "RUNNING" => attempts'[i] = attempts[i]
        /\ attempts[m].status = "RUNNING" =>
             attempts'[m].status = s /\ attempts'[m].evidence = verdict[c]
    BY <1>1, <1>3, FinishedRows DEF Number
  <2>2. Len(attempts') = Len(attempts)
    <3>1. /\ Number = 1..Len(attempts) /\ Len(attempts) \in Nat
          /\ Number' = 1..Len(attempts') /\ Len(attempts') \in Nat
      BY <1>1, <2>1, LenProperties DEF TypeOK, Number
    <3> QED
      BY <2>1, <3>1
  <2>3. \A i \in Number : attempts'[i].reused = attempts[i].reused
    <3>1. attempts'[m].reused = attempts[m].reused
      BY <1>1, <1>3 DEF Finished, Open, TypeOK, Number
    <3> QED
      BY <2>1, <3>1
  <2>4. RowsInv'
    <3>1. attempts[m].reused # 0 => verdict[c] = "pass"
      BY <1>1 DEF LedgerInv, ResumeInv
    <3> QED
      BY <1>1, <2>1, <2>2, <2>3, <3>1 DEF LedgerInv, RowsInv
  <2>5. HistoryInv'
    <3> SUFFICES ASSUME ~outdated, NEW i \in Number, NEW j \in Number, i < j
                 PROVE  /\ attempts'[i].evidence # "content" /\ attempts'[i].status # "SUCCEEDED"
                        /\ attempts'[i].evidence = "pass" => attempts'[j].reused # 0
      BY <2>1 DEF HistoryInv
    <3>1. attempts[i].status # "RUNNING"
      <4>1. i # Len(attempts)
        BY <1>1, LenProperties DEF TypeOK, Number
      <4> QED
        BY <4>1 DEF LedgerInv, RowsInv
    <3> QED
      BY <2>1, <2>3, <3>1 DEF LedgerInv, HistoryInv
  <2>6. ResumeInv'
    BY <1>1, <2>3 DEF LedgerInv, ResumeInv, Goto, local
  <2>7. APassEnded => APassEnded'
    BY <2>1 DEF APassEnded
  <2>8. QuoteInv' /\ PaidAsQuotedUnlessOutdated'
    BY <1>1, <2>7 DEF LedgerInv, QuoteInv, PaidAsQuotedUnlessOutdated, Goto, local, MayBeSpoken
  <2> QED
    BY <2>4, <2>5, <2>6, <2>8 DEF LedgerInv
<1> QED
  BY <1>2, <1>3

(***************************************************************************)
(* A new attempt: the guard of the index leaves none running, and a        *)
(* history that is still true is what the call read of it.                 *)
(***************************************************************************)
LEMMA StartLedger ==
  ASSUME IInv, LedgerInv, NEW c \in Call, Start(c)
  PROVE  LedgerInv'
<1> DEFINE n == Len(attempts) + 1
           started == Append(attempts, [status |-> "RUNNING", evidence |-> "none", reused |-> reuse[c]])
<1>1. /\ TypeOK
      /\ at \in [Call -> Location] /\ mine \in [Call -> Number \cup {0}]
      /\ verdict \in [Call -> Evidence] /\ reuse[c] \in Number \cup {0}
      /\ outdated \in BOOLEAN
      /\ mine[c] = 0 /\ at[c] = "starting"
  BY DEF IInv, TypeOK, MineInv, Early, Start, Is
<1>2. CASE Goto(c, "ended") /\ UNCHANGED <<attempts, mine, verdict, history>>
  <2>1. RowsInv' /\ HistoryInv' /\ APassEnded' = APassEnded
    BY <1>2, UntouchedLedger DEF LedgerInv, history
  <2>2. ResumeInv'
    BY <1>1, <1>2 DEF LedgerInv, ResumeInv, Goto
  <2>3. QuoteInv' /\ PaidAsQuotedUnlessOutdated'
    BY <1>1, <1>2, <2>1 DEF LedgerInv, QuoteInv, PaidAsQuotedUnlessOutdated, Goto, Start, MayBeSpoken, history
  <2> QED
    BY <2>1, <2>2, <2>3 DEF LedgerInv
<1>3. CASE /\ NoneRunning /\ Resumable(reuse[c])
           /\ attempts' = started
           /\ outdated' = (outdated \/ ContentFailed \/ reuse[c] # Reusable)
           /\ UNCHANGED <<quoted, spoken, voice>>
           /\ \/ /\ mine' = [mine EXCEPT ![c] = n]
                 /\ verdict' = IF reuse[c] = 0 THEN verdict ELSE [verdict EXCEPT ![c] = "pass"]
                 /\ Goto(c, IF reuse[c] = 0 THEN "evaluating" ELSE "judging")
              \/ Goto(c, "ended") /\ UNCHANGED <<mine, verdict>>
  <2>1. /\ Number' = Number \cup {n} /\ n \notin Number /\ n # 0
        /\ \A i \in Number : attempts'[i] = attempts[i]
        /\ attempts'[n].status = "RUNNING"
        /\ reuse[c] \in Nat
    <3>1. reuse[c] \in Nat
      BY <1>1, NumberNat
    <3> QED
      BY <1>1, <1>3, <3>1, StartedRows DEF Number
  <2>2. /\ Number = 1..Len(attempts) /\ Len(attempts) \in Nat
        /\ Len(attempts') = n
        /\ attempts'[n].reused = reuse[c]
    BY <1>1, <1>3, <2>1, LenProperties, AppendProperties DEF TypeOK, Number, Evidence
  <2>3. RowsInv'
    BY <1>3, <2>1, <2>2 DEF LedgerInv, RowsInv, NoneRunning
  <2>4. APassEnded => APassEnded'
    BY <2>1 DEF APassEnded
  \* A history that is still true and has a PASS makes the call resume it.
  <2>5. ASSUME ~outdated', NEW i \in Number, attempts[i].evidence = "pass"
        PROVE  reuse[c] # 0 /\ reuse[c] = Len(attempts)
    <3>1. ~outdated /\ reuse[c] = Reusable
      BY <1>3, <2>5
    <3>2. Reusable = Len(attempts) /\ Len(attempts) \in Number
      BY <1>1, <1>3, <2>5, <3>1, PassIsOffered DEF LedgerInv
    <3> QED
      BY <2>2, <3>1, <3>2
  <2>6. HistoryInv'
    <3> SUFFICES ASSUME ~outdated', NEW i \in Number', NEW j \in Number', i < j
                 PROVE  /\ attempts'[i].evidence # "content" /\ attempts'[i].status # "SUCCEEDED"
                        /\ attempts'[i].evidence = "pass" => attempts'[j].reused # 0
      BY DEF HistoryInv
    <3>1. ~outdated /\ ~ContentFailed
      BY <1>3
    <3>2. i \in Number /\ attempts'[i] = attempts[i]
      BY <2>1, <2>2
    <3>3. CASE j \in Number
      BY <2>1, <3>1, <3>2, <3>3 DEF LedgerInv, HistoryInv
    <3>4. CASE j = n
      <4>1. attempts[i].evidence # "content"
        <5>1. CASE i = Len(attempts)
          <6>1. attempts[i].status # "RUNNING" /\ attempts # <<>>
            BY <1>3, <2>2, <3>2, EmptySeq DEF NoneRunning
          <6> QED
            BY <1>1, <3>1, <5>1, <6>1, LatestTells DEF ContentFailed
        <5>2. CASE i < Len(attempts)
          BY <2>2, <3>1, <3>2, <5>2 DEF LedgerInv, HistoryInv
        <5> QED
          BY <2>2, <3>2, <5>1, <5>2
      <4>2. attempts[i].status # "SUCCEEDED"
        <5>1. CASE i = Len(attempts)
          <6>1. ASSUME attempts[i].status = "SUCCEEDED" PROVE FALSE
            <7>1. attempts[i].evidence = "pass"
              BY <3>2, <6>1 DEF LedgerInv, RowsInv
            <7>2. reuse[c] = i /\ reuse[c] # 0
              BY <2>5, <3>2, <5>1, <7>1
            <7> QED
              BY <1>3, <6>1, <7>2 DEF Resumable
          <6> QED
            BY <6>1
        <5>2. CASE i < Len(attempts)
          BY <2>2, <3>1, <3>2, <5>2 DEF LedgerInv, HistoryInv
        <5> QED
          BY <2>2, <3>2, <5>1, <5>2
      <4>3. attempts[i].evidence = "pass" => attempts'[j].reused # 0
        BY <2>2, <2>5, <3>2, <3>4
      <4> QED
        BY <3>2, <4>1, <4>2, <4>3
    <3> QED
      BY <2>1, <3>3, <3>4
  <2>7. ResumeInv'
    BY <1>1, <1>3, <2>1, <2>2 DEF LedgerInv, ResumeInv, Goto
  <2>8. QuoteInv'
    BY <1>1, <1>3, <2>4 DEF LedgerInv, QuoteInv, Goto, MayBeSpoken
  <2>9. PaidAsQuotedUnlessOutdated'
    <3>1. ASSUME ~outdated', at'[c] = "evaluating" PROVE "evaluation" \in quoted[c]
      <4>1. reuse[c] = 0
        BY <1>1, <1>3, <3>1 DEF Goto
      <4>2. ~APassEnded
        BY <2>5, <3>1, <4>1 DEF APassEnded
      <4> QED
        BY <1>1, <4>2 DEF LedgerInv, QuoteInv
    <3>2. /\ \A d \in Call \ {c} : at'[d] = at[d]
          /\ ~outdated' => ~outdated
      BY <1>1, <1>3 DEF Goto
    <3> QED
      BY <1>3, <3>1, <3>2 DEF LedgerInv, PaidAsQuotedUnlessOutdated
  <2> QED
    BY <2>3, <2>6, <2>7, <2>8, <2>9 DEF LedgerInv
<1> QED
  BY <1>2, <1>3 DEF Start

\* Every action keeps the ledger.
LEMMA LedgerStep == IInv /\ LedgerInv /\ [Next]_vars => LedgerInv'
<1> SUFFICES ASSUME IInv, LedgerInv, [Next]_vars
             PROVE  LedgerInv'
  OBVIOUS
<1>1. /\ TypeOK
      /\ at \in [Call -> Location] /\ mine \in [Call -> Number \cup {0}]
      /\ quoted \in [Call -> SUBSET PaidCall] /\ verdict \in [Call -> Evidence]
      /\ voice \in Voice /\ spoken \subseteq Call
  BY DEF IInv, TypeOK
<1>2. RowsInv /\ ResumeInv /\ HistoryInv /\ QuoteInv /\ PaidAsQuotedUnlessOutdated
  BY DEF LedgerInv
<1>3. \A c \in Call : at[c] \in Early => mine[c] = 0
  BY DEF IInv, MineInv
\* A step that writes no row, and has announced what it is about to pay for.
<1>4. ASSUME UNCHANGED <<attempts, outdated, mine>>, ResumeInv', QuoteInv',
             \A c \in Call : c \in spoken' => "speech" \in quoted'[c],
             \A c \in Call : at'[c] = "evaluating" => at[c] = "evaluating" /\ quoted'[c] = quoted[c]
      PROVE  LedgerInv'
  <2>1. RowsInv' /\ HistoryInv'
    BY <1>2, <1>4, UntouchedLedger
  <2> QED
    BY <1>2, <1>4, <2>1 DEF LedgerInv, PaidAsQuotedUnlessOutdated
<1>5. ASSUME UNCHANGED <<attempts, outdated, mine, quoted, verdict, voice, spoken>>,
             NEW c \in Call, at[c] \notin {"idle", "quoting", "ended"},
             NEW l \in Location \ {"idle", "quoting", "evaluating"}, Goto(c, l)
      PROVE  LedgerInv'
  <2>1. ResumeInv'
    BY <1>1, <1>2, <1>5 DEF ResumeInv, Goto
  <2>2. QuoteInv'
    BY <1>1, <1>2, <1>5 DEF QuoteInv, APassEnded, MayBeSpoken, Goto, Number
  <2> QED
    BY <1>1, <1>2, <1>4, <1>5, <2>1, <2>2 DEF PaidAsQuotedUnlessOutdated, Goto
<1>6. ASSUME NEW c \in Call, QuoteMedia(c) PROVE LedgerInv'
  <2>1. ResumeInv'
    BY <1>1, <1>2, <1>6 DEF QuoteMedia, ResumeInv, Goto, rows
  <2>2. QuoteInv'
    BY <1>1, <1>2, <1>6 DEF QuoteMedia, QuoteInv, APassEnded, MayBeSpoken, Goto, Is, Number, rows, PaidCall
  <2>3. \A d \in Call : d \in spoken' => "speech" \in quoted'[d]
    BY <1>1, <1>2, <1>6 DEF QuoteMedia, PaidAsQuotedUnlessOutdated, QuoteInv, Is
  <2> QED
    BY <1>1, <1>4, <1>6, <2>1, <2>2, <2>3 DEF QuoteMedia, Goto, Is, rows, history
<1>7. ASSUME NEW c \in Call, Confirm(c) PROVE LedgerInv'
  <2>1. ResumeInv'
    BY <1>1, <1>2, <1>7 DEF Confirm, ResumeInv, Goto, rows
  <2>2. LatestSays("pass") => APassEnded
    BY <1>1, LenProperties, EmptySeq DEF LatestSays, APassEnded, Number, TypeOK
  <2>3. QuoteInv'
    BY <1>1, <1>2, <1>7, <2>2 DEF Confirm, QuoteInv, APassEnded, MayBeSpoken, Goto, Is, Number, rows, PaidCall
  <2>4. \A d \in Call : d \in spoken' => "speech" \in quoted'[d]
    BY <1>1, <1>2, <1>7 DEF Confirm, PaidAsQuotedUnlessOutdated
  <2> QED
    BY <1>1, <1>4, <1>7, <2>1, <2>3, <2>4 DEF Confirm, Goto, Is, rows, history
<1>8. ASSUME NEW c \in Call, Plan(c) PROVE LedgerInv'
  BY <1>5, <1>8 DEF Plan, Goto, Is, rows, history, Location
<1>9. ASSUME NEW c \in Call, Evaluate(c) PROVE LedgerInv'
  <2>1. mine[c] # 0 /\ \A d \in Call : mine[c] = mine[d] => c = d
    BY <1>9 DEF IInv, MineInv, Evaluate, Is, Early
  <2>2. ResumeInv'
    BY <1>1, <1>2, <1>9, <2>1 DEF Evaluate, ResumeInv, Goto, Is, rows
  <2>3. QuoteInv'
    BY <1>1, <1>2, <1>9 DEF Evaluate, QuoteInv, APassEnded, MayBeSpoken, Goto, Is, Number, rows
  <2> QED
    BY <1>1, <1>2, <1>4, <1>9, <2>2, <2>3 DEF Evaluate, PaidAsQuotedUnlessOutdated, Goto, rows, history
<1>10. ASSUME NEW c \in Call, Judge(c) PROVE LedgerInv'
  <2>1. /\ at[c] = "judging"
        /\ attempts' = Finished(c, "FAILED") \/ UNCHANGED attempts
        /\ UNCHANGED <<voice, local, spoken, outdated>>
        /\ \E l \in {"materializing", "ended", "failing"} : Goto(c, l)
    BY <1>10 DEF Judge, Is, history
  <2> QED
    BY <2>1, FinishingLedger DEF Location
<1>11. ASSUME NEW c \in Call, Materialize(c) PROVE LedgerInv'
  BY <1>5, <1>11 DEF Materialize, Goto, Is, rows, local, history, Location
<1>12. ASSUME NEW c \in Call, LoadExisting(c) PROVE LedgerInv'
  BY <1>5, <1>12 DEF LoadExisting, Goto, Is, rows, local, history, Location
<1>13. ASSUME NEW c \in Call, Load(c) PROVE LedgerInv'
  BY <1>5, <1>13 DEF Load, Goto, Is, rows, local, history, Location
<1>14. ASSUME NEW c \in Call, Resolve(c) PROVE LedgerInv'
  <2>1. MayBeSpoken' => MayBeSpoken
    BY <1>14 DEF Resolve, MayBeSpoken
  <2>2. ResumeInv'
    BY <1>1, <1>2, <1>14 DEF Resolve, ResumeInv, Goto, local
  <2>3. QuoteInv'
    BY <1>1, <1>2, <1>14, <2>1 DEF Resolve, QuoteInv, APassEnded, Goto, Is, Number, local
  <2> QED
    BY <1>1, <1>2, <1>4, <1>14, <2>2, <2>3 DEF Resolve, PaidAsQuotedUnlessOutdated, Goto, local, history
<1>15. ASSUME NEW c \in Call, Speak(c) PROVE LedgerInv'
  <2>1. at[c] = "speaking" /\ voice = "RUNNING"
    BY <1>15 DEF Speak, Is, IInv, VoiceInv
  <2>2. MayBeSpoken /\ "speech" \in quoted[c]
    BY <1>2, <2>1 DEF QuoteInv, MayBeSpoken
  <2>3. ResumeInv'
    BY <1>1, <1>2, <1>15 DEF Speak, ResumeInv, Goto, local
  <2>4. QuoteInv'
    BY <1>1, <1>2, <1>15, <2>1, <2>2 DEF Speak, QuoteInv, APassEnded, Goto, Number, local
  <2> QED
    BY <1>1, <1>2, <1>4, <1>15, <2>2, <2>3, <2>4 DEF Speak, PaidAsQuotedUnlessOutdated, Goto, local
<1>16. ASSUME NEW c \in Call, Build(c) PROVE LedgerInv'
  BY <1>5, <1>16 DEF Build, Goto, Is, rows, local, history, Location
<1>17. ASSUME NEW c \in Call, Succeed(c) PROVE LedgerInv'
  <2>1. /\ at[c] = "finishing" /\ verdict[c] = "pass"
        /\ attempts' = Finished(c, "SUCCEEDED") \/ UNCHANGED attempts
        /\ UNCHANGED <<voice, local, spoken, outdated>>
        /\ \E l \in {"completing", "failing"} : Goto(c, l)
    BY <1>17 DEF Succeed, Is, history, IInv, HeldInv, Passed
  <2> QED
    BY <2>1, FinishingLedger DEF Location
<1>18. ASSUME NEW c \in Call, Fail(c) PROVE LedgerInv'
  <2>1. /\ at[c] = "failing"
        /\ attempts' = Finished(c, "FAILED") \/ UNCHANGED attempts
        /\ UNCHANGED <<voice, local, spoken, outdated>>
        /\ Goto(c, "ended")
    BY <1>18 DEF Fail, Is
  <2> QED
    BY <2>1, FinishingLedger DEF Location
<1>19. ASSUME NEW c \in Call, CompleteJob(c) PROVE LedgerInv'
  BY <1>5, <1>19 DEF CompleteJob, Goto, Is, local, history, Location
<1>20. ASSUME NEW c \in Call, CompleteProduction(c) PROVE LedgerInv'
  BY <1>5, <1>20 DEF CompleteProduction, Goto, Is, local, history, Location
<1>21. ASSUME NEW c \in Call, Crash(c) PROVE LedgerInv'
  <2>1. ResumeInv'
    BY <1>1, <1>2, <1>21 DEF Crash, ResumeInv, Goto, rows, local
  <2>2. QuoteInv'
    BY <1>1, <1>2, <1>21 DEF Crash, QuoteInv, APassEnded, MayBeSpoken, Goto, Number, rows, local
  <2> QED
    BY <1>1, <1>2, <1>4, <1>21, <2>1, <2>2 DEF Crash, PaidAsQuotedUnlessOutdated, Goto, rows, local
<1>22. ASSUME NEW c \in Call, Start(c) PROVE LedgerInv'
  BY <1>22, StartLedger
<1>23. CASE UNCHANGED vars
  <2>1. RowsInv' /\ HistoryInv'
    BY <1>2, <1>23, UntouchedLedger DEF vars, rows, history
  <2>2. ResumeInv' /\ QuoteInv' /\ PaidAsQuotedUnlessOutdated'
    BY <1>2, <1>23 DEF vars, rows, local, history, ResumeInv, QuoteInv, PaidAsQuotedUnlessOutdated,
       APassEnded, MayBeSpoken, Number
  <2> QED
    BY <2>1, <2>2 DEF LedgerInv
<1> QED
  BY <1>6, <1>7, <1>8, <1>9, <1>10, <1>11, <1>12, <1>13, <1>14, <1>15, <1>16, <1>17,
     <1>18, <1>19, <1>20, <1>21, <1>22, <1>23 DEF Next, Step

LEMMA InitLedger == Init => LedgerInv
<1> SUFFICES ASSUME Init
             PROVE  LedgerInv
  OBVIOUS
<1>1. Number = {}
  BY DEF Init, Number
<1>2. RowsInv /\ HistoryInv
  BY <1>1 DEF RowsInv, HistoryInv
<1>3. ResumeInv /\ QuoteInv /\ PaidAsQuotedUnlessOutdated
  BY DEF Init, ResumeInv, QuoteInv, PaidAsQuotedUnlessOutdated
<1> QED
  BY <1>2, <1>3 DEF LedgerInv

(***************************************************************************)
(* However often a production is retried and wherever the retries stop,    *)
(* the provider of speech is asked by one call, and the evaluator gives    *)
(* one PASS, unless an attempt was started on a history no longer true;    *)
(* this for any limit of the history that is read, since the latest        *)
(* attempt resumes what the earlier ones had.                              *)
(***************************************************************************)
THEOREM OnePass == Spec => []OnePassUnlessOutdated
<1>1. IInv /\ LedgerInv => OnePassUnlessOutdated
  <2> SUFFICES ASSUME IInv, LedgerInv
               PROVE  OnePassUnlessOutdated
    OBVIOUS
  <2>1. \A c, d \in spoken : c = d
    BY DEF IInv, VoiceInv, TypeOK
  <2>2. ASSUME ~outdated, NEW i \in Number, NEW j \in Number,
               attempts[i].evidence = "pass", attempts[i].reused = 0,
               attempts[j].evidence = "pass", attempts[j].reused = 0
        PROVE  i = j
    <3>1. i \in Nat /\ j \in Nat
      BY NumberNat DEF IInv
    <3>2. ~(i < j) /\ ~(j < i)
      BY <2>2 DEF LedgerInv, HistoryInv
    <3> QED
      BY <3>1, <3>2
  <2> QED
    BY <2>1, <2>2 DEF OnePassUnlessOutdated
<1> QED
  BY <1>1, InitIInv, ControlStep, InitLedger, LedgerStep, PTL DEF Spec

(***************************************************************************)
(* No retry reaches a paid call that its preflight did not announce: what  *)
(* the preflight counted as there cannot be lost while others work, unless *)
(* an attempt was started on a history no longer true.                     *)
(***************************************************************************)
THEOREM PaidAsQuoted == Spec => []PaidAsQuotedUnlessOutdated
<1>1. LedgerInv => PaidAsQuotedUnlessOutdated
  BY DEF LedgerInv
<1> QED
  BY <1>1, InitIInv, ControlStep, InitLedger, LedgerStep, PTL DEF Spec

(***************************************************************************)
(* No attempt follows an authoritative FAIL or a success, of any number    *)
(* of commands, as long as each is started on a history that is true.      *)
(***************************************************************************)
THEOREM LastWord == Spec => []LastWordUnlessOutdated
<1>1. IInv /\ LedgerInv => LastWordUnlessOutdated
  <2> SUFFICES ASSUME IInv, LedgerInv, ~outdated, NEW i \in Number,
                      attempts[i].evidence = "content" \/ attempts[i].status = "SUCCEEDED"
               PROVE  i = Len(attempts)
    BY DEF LastWordUnlessOutdated
  <2>1. Number = 1..Len(attempts) /\ Len(attempts) \in Nat
    BY LenProperties DEF IInv, TypeOK, Number
  <2>2. CASE i < Len(attempts)
    BY <2>1, <2>2 DEF LedgerInv, HistoryInv
  <2> QED
    BY <2>1, <2>2
<1> QED
  BY <1>1, InitIInv, ControlStep, InitLedger, LedgerStep, PTL DEF Spec
=============================================================================
