------------------------ MODULE ShotRegenerationProofs ------------------------
(***************************************************************************)
(* Theorems about ShotRegeneration, for any number of shots, requests,     *)
(* calls and runs.  The argument goes over the table: a row is inserted    *)
(* while none is active and with the next number of its shot, so that the  *)
(* rows that succeed follow one another; a call works on a row only after  *)
(* the claim that nobody else can make.                                    *)
(***************************************************************************)
EXTENDS ShotRegeneration, Integers, FiniteSetTheorems, TLAPS

Planned == {"CONFIRMED", "NEW", "READ", "SAFE", "PREPARED"}
Inserted(r) == row[r].status # "ABSENT"

\* A confirmed plan is about a shot, under a number that is taken or the next one.
WellPlanned(c) ==
  pc[c] \in Planned => plan[c].shot \in Shot /\ plan[c].no \in 1..NextNumber(plan[c].shot)
PlanInv == \A c \in Call : WellPlanned(c)

\* What the indexes of the table leave possible.
RowsInv ==
  /\ \A r \in Request : Inserted(r) => row[r].plan.shot \in Shot
  /\ \A r, q \in Request : row[r].status \in Active /\ row[q].status \in Active => r = q
  /\ \A r, q \in Request :
       row[r].status \in Active /\ Inserted(q) /\ row[q].plan.shot = row[r].plan.shot
         => row[q].plan.no <= row[r].plan.no
  /\ \A r, q \in Request :
       /\ Inserted(r) /\ Inserted(q)
       /\ row[r].plan.kind \in Bounded /\ row[q].plan.kind = row[r].plan.kind
       /\ row[q].plan.shot = row[r].plan.shot
       /\ SourceOf(row[q].plan) = SourceOf(row[r].plan)
       => q = r
  /\ latest # None => row[latest].status = "SUCCEEDED"

\* The rows of a shot are numbered without gaps (TypeOK says so).
Numbered == \A s \in Shot : {row[r].plan.no : r \in Rows(s)} = 1..Cardinality(Rows(s))

\* Nothing succeeds between the insertion of a row and its end.
BaseInv ==
  stale = {} =>
    /\ \A r \in Request : row[r].status \in Active => row[r].plan.base = Current
    /\ \A s \in Shot : Current[s] # Original => Inserted(Current[s])
OneReplacementInv == stale = {} => \A s \in Shot : \A r, q \in Replacements(s) : r = q

\* A call that works has claimed its row, alone, and what it has in hand is stored.
Alone(c) == \A d \in Call : pc[d] \in Working /\ RequestOf[d] = RequestOf[c] => d = c
Holds(c) ==
  /\ pc[c] \in Working => row[RequestOf[c]].status = "RUNNING" /\ Alone(c)
  /\ pc[c] \in {"GENERATED", "PASSED"} => media[VideoOf(c)] = "DONE"
  /\ pc[c] \in {"PAID", "GENERATED", "PASSED"} => RequestOf[c] \in paid
  /\ pc[c] = "PASSED" => RequestOf[c] \in passed
CallInv == \A c \in Call : Holds(c)
Attended(r) == \E c \in Call : RequestOf[c] = r /\ pc[c] \in Working
AttendedInv == \A r \in Request \ crashed : row[r].status = "RUNNING" => Attended(r)

\* Only a request that was paid for has a video, and only a row is paid for.
PaidInv ==
  /\ \A r \in Request, s \in Shot : media[<<s, r>>] # "NONE" => r \in paid
  /\ \A r \in paid : Inserted(r)

JobInv ==
  /\ scheduled + runs <= MaxRuns
  /\ \A q \in Recovery : pc[q] = "READ" => seen[q].shot \in Shot

\* What the executor found at the claim of the run stays so until the run ends.
ShownInv == job \in {"RUNNING", "COMPLETED"} => \A s \in Shot : shown[s] \in Shown(s)

IInv ==
  /\ TypeOK
  /\ PlanInv /\ RowsInv /\ BaseInv /\ OneReplacementInv /\ RevisionsAccumulateUnlessStale
  /\ CallInv /\ AttendedInv /\ PaidInv /\ JobInv /\ ResumedTogether /\ ShownInv

USE RequestAssumption, NoneAssumption, RecoveryAssumption, FiniteAssumption
-----------------------------------------------------------------------------
(***************************************************************************)
(* The ways in which a step touches the table: a row is inserted, or the   *)
(* one that is active turns to another status.                             *)
(***************************************************************************)
Inserts(c) ==
  LET r == RequestOf[c] IN
  /\ pc[c] = "PREPARED" /\ row[r].status = "ABSENT" /\ Insertable(plan[c])
  /\ row' = [row EXCEPT ![r] = [status |-> "PREPARED", plan |-> plan[c]]]
  /\ stale' = IF plan[c].base # Current THEN stale \cup {r} ELSE stale
  /\ UNCHANGED latest

Turns(r, t) ==
  /\ row[r].status \in Active /\ SetStatus(r, t)
  /\ latest' = IF t = "SUCCEEDED" THEN r ELSE latest
  /\ UNCHANGED stale

LEMMA RowEffect ==
  ASSUME [Next]_vars
  PROVE  \/ UNCHANGED <<row, latest, stale>>
         \/ \E c \in Call : Inserts(c)
         \/ \E c \in Call, t \in {"RUNNING", "SUCCEEDED", "FAILED", "RETRYING"} : Turns(RequestOf[c], t)
<1>1. CASE RunStep \/ UNCHANGED vars
  BY <1>1 DEF RunStep, StartOrRetry, Continue, ClaimRun, CompleteRun, FailRun, FailQuality, FailVideo,
     vars, rowVars, history
<1>2. ASSUME NEW c \in Call, Operate(c) \/ Crash(c) PROVE UNCHANGED <<row, latest, stale>>
  BY <1>2 DEF Operate, Preflight, Crash, rowVars, history
<1>3. ASSUME NEW c \in Call, Confirm(c) PROVE UNCHANGED <<row, latest, stale>> \/ Inserts(c)
  <2>1. CASE Look(c) \/ ReadJob(c) \/ ReadSafety(c) \/ Prepare(c)
    BY <2>1 DEF Look, ReadJob, ReadSafety, Prepare, rowVars, history
  <2>2. CASE Ensure(c)
    BY <2>2 DEF Ensure, Inserts
  <2> QED
    BY <1>3, <2>1, <2>2 DEF Confirm
<1>4. ASSUME NEW c \in Call, Execute(c)
      PROVE  \/ UNCHANGED <<row, latest, stale>>
             \/ \E t \in {"RUNNING", "SUCCEEDED", "FAILED", "RETRYING"} : Turns(RequestOf[c], t)
  <2>1. CASE Claim(c)
    BY <2>1 DEF Claim, Claimable, Turns, Active, history
  <2>2. CASE Generate(c) \/ Judge(c) \/ \E fate \in {"DONE", "DEAD", "DOUBT"} : Answer(c, fate)
    BY <2>2 DEF Generate, Judge, Answer, rowVars, history
  <2>3. CASE CompleteRevision(c) \/ CompleteSource(c)
    BY <2>3 DEF CompleteRevision, CompleteSource, Turns, Active, rowVars, history
  <2>4. CASE Fail(c)
    BY <2>4 DEF Fail, FailureStatus, Turns, Active, history
  <2> QED
    BY <1>4, <2>1, <2>2, <2>3, <2>4 DEF Execute
<1>5. ASSUME NEW q \in Recovery, Recover(q) PROVE UNCHANGED <<row, latest, stale>>
  BY <1>5 DEF Recover, Inspect, Persist, rowVars, history
<1> QED
  BY <1>1, <1>2, <1>3, <1>4, <1>5 DEF Next

\* Another status leaves the plan of a row, and so the numbers of its shot.
LEMMA Turned ==
  ASSUME TypeOK, NEW r \in Request, NEW t \in RowStatus \ {"ABSENT"}, Turns(r, t)
  PROVE  /\ row' \in [Request -> [status : RowStatus, plan : Plan]]
         /\ \A q \in Request : row'[q].plan = row[q].plan
         /\ \A q \in Request : row'[q].status = IF q = r THEN t ELSE row[q].status
         /\ \A s : Rows(s)' = Rows(s)
         /\ \A s : NextNumber(s)' = NextNumber(s)
         /\ Inserted(r)
<1>1. /\ row \in [Request -> [status : RowStatus, plan : Plan]]
      /\ row' = [row EXCEPT ![r].status = t]
      /\ row[r].status # "ABSENT"
  BY DEF TypeOK, Turns, SetStatus, Active
<1>2. row' \in [Request -> [status : RowStatus, plan : Plan]]
  BY <1>1
<1>3. /\ \A q \in Request : row'[q].plan = row[q].plan
      /\ \A q \in Request : row'[q].status = IF q = r THEN t ELSE row[q].status
  BY <1>1
<1>4. \A s : Rows(s)' = Rows(s)
  BY <1>1, <1>3 DEF Rows
<1> QED
  BY <1>1, <1>2, <1>3, <1>4 DEF NextNumber, Inserted

\* The numbers of a shot are numbers; there are no more of them than requests.
LEMMA NumbersNat ==
  ASSUME TypeOK, NEW s
  PROVE  /\ IsFiniteSet(Rows(s)) /\ Cardinality(Rows(s)) \in Nat /\ NextNumber(s) \in Nat
         /\ NextNumber(s) \in 1..(1 + Cardinality(Request))
         /\ Cardinality(Request) \in Nat
<1>1. Rows(s) \in SUBSET Request
  BY DEF Rows
<1>2. /\ IsFiniteSet(Rows(s)) /\ Cardinality(Rows(s)) <= Cardinality(Request)
  BY <1>1, FS_Subset
<1>3. Cardinality(Rows(s)) \in Nat /\ Cardinality(Request) \in Nat
  BY <1>2, FS_CardinalityType
<1> QED
  BY <1>2, <1>3 DEF NextNumber

(***************************************************************************)
(* An inserted row has the next number of its shot, although it was        *)
(* numbered earlier: a number that has been taken meanwhile is refused.    *)
(***************************************************************************)
LEMMA InsertedRow ==
  ASSUME TypeOK, PlanInv, NEW c \in Call, Inserts(c)
  PROVE  LET r == RequestOf[c]
             s == plan[c].shot
         IN  /\ r \in Request /\ s \in Shot
             /\ row' \in [Request -> [status : RowStatus, plan : Plan]]
             /\ row'[r].status = "PREPARED" /\ row'[r].plan = plan[c]
             /\ \A q \in Request : q # r => row'[q] = row[q]
             /\ \A x : Rows(x)' = IF x = s THEN Rows(x) \cup {r} ELSE Rows(x)
             /\ r \notin Rows(s)
             /\ plan[c].no = NextNumber(s)
             /\ \A q \in Rows(s) : row[q].plan.no \in Nat /\ row[q].plan.no < plan[c].no
<1> DEFINE r == RequestOf[c]
           s == plan[c].shot
<1>1. /\ r \in Request /\ s \in Shot
      /\ row \in [Request -> [status : RowStatus, plan : Plan]]
      /\ row' = [row EXCEPT ![r] = [status |-> "PREPARED", plan |-> plan[c]]]
      /\ plan[c] \in Plan /\ plan[c].no \in 1..NextNumber(s)
      /\ row[r].status = "ABSENT"
  BY DEF TypeOK, PlanInv, WellPlanned, Inserts, Planned
<1>2. "PREPARED" \in RowStatus
  BY DEF RowStatus, Active
<1>3. /\ row' \in [Request -> [status : RowStatus, plan : Plan]]
      /\ row'[r].status = "PREPARED" /\ row'[r].plan = plan[c]
      /\ \A q \in Request : q # r => row'[q] = row[q]
  BY <1>1, <1>2
<1>4. \A x : Rows(x)' = IF x = s THEN Rows(x) \cup {r} ELSE Rows(x)
  BY <1>1, <1>3 DEF Rows
<1>5. r \notin Rows(s)
  BY <1>1 DEF Rows
<1>6. /\ {row[q].plan.no : q \in Rows(s)} = 1..Cardinality(Rows(s))
      /\ Cardinality(Rows(s)) \in Nat /\ NextNumber(s) = 1 + Cardinality(Rows(s))
  BY <1>1, NumbersNat DEF TypeOK, NextNumber
<1>7. \A q \in Rows(s) : row[q].plan.no # plan[c].no
  BY DEF Inserts, Insertable
<1>8. plan[c].no \notin 1..Cardinality(Rows(s))
  BY <1>6, <1>7
<1>9. plan[c].no = NextNumber(s)
  <2>1. \A k \in Nat : \A n \in 1..(1 + k) : n \notin 1..k => n = 1 + k
    OBVIOUS
  <2> QED
    BY <1>1, <1>6, <1>8, <2>1
<1>10. \A q \in Rows(s) : row[q].plan.no \in 1..Cardinality(Rows(s))
  BY <1>6
<1>11. \A q \in Rows(s) : row[q].plan.no \in Nat /\ row[q].plan.no < plan[c].no
  BY <1>6, <1>9, <1>10
<1> QED
  BY <1>1, <1>3, <1>4, <1>5, <1>9, <1>11

LEMMA CurrentLineage == TypeOK => Current \in Lineage
<1> SUFFICES ASSUME TypeOK
             PROVE  Current \in Lineage
  OBVIOUS
<1>1. CASE latest = None
  BY <1>1 DEF Current, Lineage
<1>2. CASE latest # None
  <2>1. latest \in Request /\ row[latest].plan.base \in Lineage
    BY <1>2 DEF TypeOK, Plan
  <2>2. Revised(latest) \in Lineage
    BY <2>1 DEF Revised, Lineage
  <2> QED
    BY <1>2, <2>2 DEF Current
<1> QED
  BY <1>1, <1>2

LEMMA NextInterval == \A k \in Nat : 1..k \cup {k + 1} = 1..(k + 1)
<1> SUFFICES ASSUME NEW k \in Nat
             PROVE  1..k \cup {k + 1} = 1..(k + 1)
  OBVIOUS
<1>1. \A n \in Int : n \in 1..k \cup {k + 1} <=> n \in 1..(k + 1)
  OBVIOUS
<1>2. 1..k \cup {k + 1} \subseteq Int /\ 1..(k + 1) \subseteq Int
  OBVIOUS
<1> QED
  BY <1>1, <1>2, Zenon

\* The indexes keep the table as RowsInv says.
LEMMA RowsStep ==
  ASSUME TypeOK, PlanInv, RowsInv, [Next]_vars
  PROVE  /\ row' \in [Request -> [status : RowStatus, plan : Plan]]
         /\ latest' \in Request \cup {None} /\ stale' \subseteq Request
         /\ Numbered' /\ RowsInv'
<1> USE DEF TypeOK
<1>1. CASE UNCHANGED <<row, latest, stale>>
  <2>1. RowsInv'
    BY <1>1 DEF RowsInv, Inserted
  <2>2. Numbered'
    BY <1>1 DEF Numbered, Rows
  <2> QED
    BY <1>1, <2>1, <2>2
<1>2. ASSUME NEW c \in Call, Inserts(c)
      PROVE  /\ row' \in [Request -> [status : RowStatus, plan : Plan]]
             /\ latest' \in Request \cup {None} /\ stale' \subseteq Request
             /\ Numbered' /\ RowsInv'
  <2> DEFINE r == RequestOf[c]
             s == plan[c].shot
  <2>1. /\ r \in Request /\ s \in Shot
        /\ row' \in [Request -> [status : RowStatus, plan : Plan]]
        /\ row'[r].status = "PREPARED" /\ row'[r].plan = plan[c]
        /\ \A q \in Request : q # r => row'[q] = row[q]
        /\ \A x : Rows(x)' = IF x = s THEN Rows(x) \cup {r} ELSE Rows(x)
        /\ r \notin Rows(s)
        /\ plan[c].no = NextNumber(s)
        /\ \A q \in Rows(s) : row[q].plan.no \in Nat /\ row[q].plan.no < plan[c].no
    BY <1>2, InsertedRow, Zenon
  <2>2. latest' = latest /\ stale' \subseteq Request
    BY <1>2, <2>1 DEF Inserts
  <2>3. Numbered'
    <3> SUFFICES ASSUME NEW x \in Shot
                 PROVE  {row'[q].plan.no : q \in Rows(x)'} = 1..Cardinality(Rows(x)')
      BY DEF Numbered
    <3>1. \A q \in Rows(x) : q \in Request /\ q # r
      BY <1>2 DEF Rows, Inserts
    <3>2. /\ {row[q].plan.no : q \in Rows(x)} = 1..Cardinality(Rows(x))
          /\ IsFiniteSet(Rows(x)) /\ Cardinality(Rows(x)) \in Nat
      BY NumbersNat
    <3>3. CASE x # s
      BY <2>1, <3>1, <3>2, <3>3
    <3>4. CASE x = s
      <4>1. Cardinality(Rows(x)') = Cardinality(Rows(x)) + 1
        BY <2>1, <3>2, <3>4, FS_AddElement
      <4>2. {row'[q].plan.no : q \in Rows(x)'} = 1..Cardinality(Rows(x)) \cup {plan[c].no}
        BY <2>1, <3>1, <3>2, <3>4
      <4>3. plan[c].no = Cardinality(Rows(x)) + 1
        BY <2>1, <3>2, <3>4 DEF NextNumber
      <4> QED
        BY <3>2, <4>1, <4>2, <4>3, NextInterval
    <3> QED
      BY <3>3, <3>4
  <2>4. RowsInv'
    <3>1. /\ \A q \in Request : row[q].status \notin Active
          /\ plan[c].kind \in Bounded => Attempts(plan[c]) = {}
          /\ row[r].status = "ABSENT"
      BY <1>2 DEF Inserts, Insertable
    <3>2. \A q \in Request : Inserted(q)' => q = r \/ Inserted(q)
      BY <2>1 DEF Inserted
    <3>3. \A q \in Request : row'[q].status \in Active => q = r
      BY <2>1, <3>1
    <3>4. \A q \in Request : Inserted(q)' /\ row'[q].plan.shot = s => row'[q].plan.no <= plan[c].no
      <4>1. plan[c].no \in Nat
        BY <2>1, NumbersNat
      <4>2. ASSUME NEW q \in Request, q # r, Inserted(q), row[q].plan.shot = s
            PROVE  row[q].plan.no <= plan[c].no
        <5>1. q \in Rows(s)
          BY <4>2 DEF Rows, Inserted
        <5> QED
          BY <2>1, <4>1, <5>1
      <4> QED
        BY <2>1, <3>2, <4>1, <4>2
    <3>5. ASSUME NEW q \in Request, q # r, Inserted(q), plan[c].kind \in Bounded,
                 row[q].plan.kind = plan[c].kind, row[q].plan.shot = s,
                 SourceOf(row[q].plan) = SourceOf(plan[c])
          PROVE  FALSE
      <4>1. q \in Attempts(plan[c])
        BY <3>5 DEF Attempts, Rows, Inserted
      <4> QED
        BY <3>1, <3>5, <4>1
    <3>6. \A q \in Request : Inserted(q)' => row'[q].plan.shot \in Shot
      BY <2>1, <3>2 DEF RowsInv
    <3>7. \A x, q \in Request :
            /\ Inserted(x)' /\ Inserted(q)'
            /\ row'[x].plan.kind \in Bounded /\ row'[q].plan.kind = row'[x].plan.kind
            /\ row'[q].plan.shot = row'[x].plan.shot
            /\ SourceOf(row'[q].plan) = SourceOf(row'[x].plan)
            => q = x
      BY <2>1, <3>2, <3>5 DEF RowsInv
    <3>8. latest' # None => row'[latest'].status = "SUCCEEDED"
      BY <2>1, <2>2, <3>1 DEF RowsInv
    <3> QED
      BY <2>1, <3>3, <3>4, <3>6, <3>7, <3>8 DEF RowsInv, SourceOf
  <2> QED
    BY <2>1, <2>2, <2>3, <2>4
<1>3. ASSUME NEW c \in Call, NEW t \in {"RUNNING", "SUCCEEDED", "FAILED", "RETRYING"}, Turns(RequestOf[c], t)
      PROVE  /\ row' \in [Request -> [status : RowStatus, plan : Plan]]
             /\ latest' \in Request \cup {None} /\ stale' \subseteq Request
             /\ Numbered' /\ RowsInv'
  <2> DEFINE r == RequestOf[c]
  <2>1. /\ row' \in [Request -> [status : RowStatus, plan : Plan]]
        /\ \A q \in Request : row'[q].plan = row[q].plan
        /\ \A q \in Request : row'[q].status = IF q = r THEN t ELSE row[q].status
        /\ \A s : Rows(s)' = Rows(s)
        /\ Inserted(r) /\ r \in Request
    BY <1>3, Turned DEF RowStatus, Active
  <2>2. latest' = (IF t = "SUCCEEDED" THEN r ELSE latest) /\ stale' = stale /\ row[r].status \in Active
    BY <1>3 DEF Turns
  <2>3. Numbered'
    <3>1. \A s : \A q \in Rows(s) : q \in Request
      BY DEF Rows
    <3> QED
      BY <2>1, <3>1 DEF Numbered
  <2>4. \A q \in Request : Inserted(q)' <=> Inserted(q)
    BY <2>1 DEF Inserted
  <2>5. \A q \in Request : row'[q].status \in Active => row[q].status \in Active
    BY <2>1, <2>2
  <2>6. latest' # None => row'[latest'].status = "SUCCEEDED"
    BY <2>1, <2>2 DEF RowsInv, Active
  <2>7. \A x, q \in Request :
          row'[x].status \in Active /\ Inserted(q)' /\ row'[q].plan.shot = row'[x].plan.shot
            => row'[q].plan.no <= row'[x].plan.no
    BY <2>1, <2>4, <2>5 DEF RowsInv
  <2>8. \A x, q \in Request :
          /\ Inserted(x)' /\ Inserted(q)'
          /\ row'[x].plan.kind \in Bounded /\ row'[q].plan.kind = row'[x].plan.kind
          /\ row'[q].plan.shot = row'[x].plan.shot
          /\ SourceOf(row'[q].plan) = SourceOf(row'[x].plan)
          => q = x
    BY <2>1, <2>4 DEF RowsInv
  <2>9. /\ \A q \in Request : Inserted(q)' => row'[q].plan.shot \in Shot
        /\ \A x, q \in Request : row'[x].status \in Active /\ row'[q].status \in Active => x = q
    BY <2>1, <2>4, <2>5 DEF RowsInv
  <2>10. RowsInv'
    BY <2>6, <2>7, <2>8, <2>9 DEF RowsInv, SourceOf
  <2> QED
    BY <2>1, <2>2, <2>3, <2>10
<1> QED
  BY <1>1, <1>2, <1>3, RowEffect

(***************************************************************************)
(* Revisions accumulate: between its insertion and its end nothing but the *)
(* active row changes, so that what it edits is what it replaces.          *)
(***************************************************************************)
LEMMA AccumulateStep ==
  ASSUME TypeOK, PlanInv, RowsInv, BaseInv, OneReplacementInv, RevisionsAccumulateUnlessStale, [Next]_vars
  PROVE  BaseInv' /\ OneReplacementInv' /\ RevisionsAccumulateUnlessStale'
<1>1. CASE UNCHANGED <<row, latest, stale>>
  <2>1. Current' = Current
    BY <1>1 DEF Current, Revised
  <2>2. \A s : Replacements(s)' = Replacements(s) /\ Successful(s)' = Successful(s)
    BY <1>1 DEF Replacements, Successful, Rows
  <2>3. BaseInv'
    BY <1>1, <2>1 DEF BaseInv, Inserted
  <2>4. OneReplacementInv'
    BY <1>1, <2>2 DEF OneReplacementInv
  <2>5. RevisionsAccumulateUnlessStale'
    BY <1>1, <2>1, <2>2 DEF RevisionsAccumulateUnlessStale
  <2> QED
    BY <2>3, <2>4, <2>5
<1>2. ASSUME NEW c \in Call, Inserts(c)
      PROVE  BaseInv' /\ OneReplacementInv' /\ RevisionsAccumulateUnlessStale'
  <2> DEFINE r == RequestOf[c]
             s0 == plan[c].shot
  <2>1. /\ r \in Request /\ s0 \in Shot
        /\ row'[r].status = "PREPARED" /\ row'[r].plan = plan[c]
        /\ \A q \in Request : q # r => row'[q] = row[q]
        /\ \A x : Rows(x)' = IF x = s0 THEN Rows(x) \cup {r} ELSE Rows(x)
    BY <1>2, InsertedRow, Zenon
  <2>2. /\ latest' = latest /\ row[r].status = "ABSENT"
        /\ \A q \in Request : row[q].status \notin Active
        /\ stale' = IF plan[c].base # Current THEN stale \cup {r} ELSE stale
    BY <1>2 DEF Inserts, Insertable
  <2>3. Current' = Current
    <3>1. latest # None => row'[latest] = row[latest]
      BY <2>1, <2>2 DEF RowsInv, TypeOK
    <3> QED
      BY <2>2, <3>1 DEF Current, Revised
  <2>4. \A s : Replacements(s)' = Replacements(s) /\ Successful(s)' = Successful(s)
    <3>1. \A s : Successful(s)' = Successful(s)
      BY <2>1, <2>2 DEF Successful, Rows
    <3>2. \A q \in Request : row'[q].status = "SUCCEEDED" => q # r
      BY <2>1
    <3>3. \A s : Replacements(s)' = Replacements(s)
      BY <2>1, <2>2, <3>2 DEF Replacements
    <3> QED
      BY <3>1, <3>3
  <2>5. CASE stale' # {}
    BY <2>5 DEF BaseInv, OneReplacementInv, RevisionsAccumulateUnlessStale
  <2>6. CASE stale' = {}
    <3>1. stale = {} /\ plan[c].base = Current
      BY <2>2, <2>6
    <3>2. \A s \in Shot : Current[s] # Original => Inserted(Current[s]) /\ Current[s] # r /\ Current[s] \in Request
      BY <2>2, <3>1, CurrentLineage DEF BaseInv, Inserted, Lineage, Original
    <3>3. BaseInv'
      <4>1. \A q \in Request : row'[q].status \in Active => row'[q].plan.base = Current'
        BY <2>1, <2>2, <2>3, <3>1
      <4>2. \A s \in Shot : Current'[s] # Original => row'[Current'[s]].status # "ABSENT"
        BY <2>1, <2>3, <3>2 DEF Inserted
      <4> QED
        BY <4>1, <4>2 DEF BaseInv, Inserted
    <3>4. OneReplacementInv'
      BY <2>4, <3>1 DEF OneReplacementInv
    <3>5. RevisionsAccumulateUnlessStale'
      <4> SUFFICES ASSUME NEW s \in Shot, NEW q \in Successful(s)
                   PROVE  Current[s] # Original /\ row'[Current[s]].plan.no >= row'[q].plan.no
        BY <2>3, <2>4 DEF RevisionsAccumulateUnlessStale
      <4>1. Current[s] # Original /\ row[Current[s]].plan.no >= row[q].plan.no
        BY <3>1 DEF RevisionsAccumulateUnlessStale
      <4>2. q \in Request /\ q # r
        BY <2>2 DEF Successful, Rows
      <4> QED
        BY <2>1, <3>2, <4>1, <4>2
    <3> QED
      BY <3>3, <3>4, <3>5
  <2> QED
    BY <2>5, <2>6
<1>3. ASSUME NEW c \in Call, NEW t \in {"RUNNING", "SUCCEEDED", "FAILED", "RETRYING"},
             Turns(RequestOf[c], t), stale' = {}
      PROVE  BaseInv' /\ OneReplacementInv' /\ RevisionsAccumulateUnlessStale'
  <2> DEFINE r == RequestOf[c]
             s0 == row[r].plan.shot
  <2>1. /\ \A q \in Request : row'[q].plan = row[q].plan
        /\ \A q \in Request : row'[q].status = IF q = r THEN t ELSE row[q].status
        /\ \A s : Rows(s)' = Rows(s)
        /\ Inserted(r) /\ r \in Request
        /\ row[r].plan \in Plan
    BY <1>3, Turned DEF RowStatus, Active, TypeOK
  <2>2. latest' = (IF t = "SUCCEEDED" THEN r ELSE latest) /\ stale = {} /\ row[r].status \in Active
    BY <1>3 DEF Turns
  <2>3. row[r].plan.base = Current /\ Current \in Lineage /\ s0 \in Shot
    BY <2>1, <2>2, CurrentLineage DEF BaseInv, RowsInv
  <2>4. \A q \in Request : row[q].status \in Active => q = r
    BY <2>1, <2>2 DEF RowsInv
  <2>5. CASE t # "SUCCEEDED"
    <3>1. Current' = Current
      <4>1. latest # None => latest \in Request
        BY DEF TypeOK
      <4> QED
        BY <2>1, <2>2, <2>5, <4>1 DEF Current, Revised
    <3>2. \A s : Successful(s)' = Successful(s)
      BY <2>1, <2>2, <2>5 DEF Successful, Rows, Active
    <3>3. \A s : Replacements(s)' = Replacements(s)
      BY <2>1, <2>2, <2>5 DEF Replacements, Active, SourceOf
    <3>4. BaseInv'
      <4>1. \A q \in Request : row'[q].status \in Active => row'[q].plan.base = Current'
        BY <2>1, <2>3, <2>4, <3>1
      <4>2. \A s \in Shot : Current[s] # Original => Current[s] \in Request /\ Inserted(Current[s])
        BY <2>2, <2>3 DEF BaseInv, Lineage, Original
      <4>3. \A q \in Request : Inserted(q) => row'[q].status # "ABSENT"
        BY <2>1 DEF Inserted
      <4>4. \A s \in Shot : Current'[s] # Original => row'[Current'[s]].status # "ABSENT"
        BY <3>1, <4>2, <4>3
      <4> QED
        BY <4>1, <4>4 DEF BaseInv, Inserted
    <3>5. OneReplacementInv'
      BY <2>2, <3>3 DEF OneReplacementInv
    <3>6. RevisionsAccumulateUnlessStale'
      <4> SUFFICES ASSUME NEW s \in Shot, NEW q \in Successful(s)
                   PROVE  Current[s] # Original /\ row'[Current[s]].plan.no >= row'[q].plan.no
        BY <3>1, <3>2 DEF RevisionsAccumulateUnlessStale
      <4>1. Current[s] # Original /\ row[Current[s]].plan.no >= row[q].plan.no
        BY <2>2 DEF RevisionsAccumulateUnlessStale
      <4>2. q \in Request /\ Current[s] \in Request
        BY <2>3, <4>1 DEF Successful, Rows, Lineage, Original
      <4> QED
        BY <2>1, <4>1, <4>2
    <3> QED
      BY <3>4, <3>5, <3>6
  <2>6. CASE t = "SUCCEEDED"
    <3>1. Current' = [Current EXCEPT ![s0] = r]
      BY <2>1, <2>2, <2>3, <2>6 DEF Current, Revised
    <3>2. \A q \in Request : row'[q].status \notin Active
      BY <2>1, <2>4, <2>6 DEF Active
    <3>3. \A s : Successful(s)' \subseteq Successful(s) \cup {r}
      BY <2>1 DEF Successful, Rows
    <3>4. \A s : Replacements(s)' \subseteq Replacements(s) \cup {r}
      BY <2>1 DEF Replacements, SourceOf
    <3>5. \A s \in Shot : Current'[s] = IF s = s0 THEN r ELSE Current[s]
      BY <2>3, <3>1 DEF Lineage
    <3>6. BaseInv'
      <4>1. \A s \in Shot : Current[s] # Original => Current[s] \in Request /\ Inserted(Current[s])
        BY <2>2, <2>3 DEF BaseInv, Lineage, Original
      <4>2. \A q \in Request : Inserted(q) \/ q = r => row'[q].status # "ABSENT"
        BY <2>1, <2>6 DEF Inserted
      <4>3. \A s \in Shot : Current'[s] # Original => row'[Current'[s]].status # "ABSENT"
        BY <2>1, <3>5, <4>1, <4>2
      <4> QED
        BY <3>2, <4>3 DEF BaseInv, Inserted
    <3>7. RevisionsAccumulateUnlessStale'
      <4> SUFFICES ASSUME NEW s \in Shot, NEW q \in Successful(s)'
                   PROVE  Current'[s] # Original /\ row'[Current'[s]].plan.no >= row'[q].plan.no
        BY DEF RevisionsAccumulateUnlessStale
      <4>1. q \in Request /\ Inserted(q) /\ row[q].plan.shot = s
        BY <2>1 DEF Successful, Rows, Inserted
      <4>2. row[q].plan.no \in Nat /\ row[r].plan.no \in Nat
        <5>1. Plan \subseteq [shot : Shot \cup {None}, kind : Kind, no : Nat, base : Lineage]
          BY NumbersNat DEF Plan
        <5>2. row[q].plan \in Plan /\ row[r].plan \in Plan
          BY <2>1, <4>1 DEF TypeOK
        <5> QED
          BY <5>1, <5>2
      <4>3. CASE s = s0
        <5>1. row[q].plan.no <= row[r].plan.no
          BY <2>1, <2>2, <4>1, <4>3 DEF RowsInv
        <5>2. Current'[s] = r /\ r # Original
          BY <2>1, <3>5, <4>3 DEF Original
        <5> QED
          BY <2>1, <4>1, <4>2, <5>1, <5>2
      <4>4. CASE s # s0
        <5>1. q # r
          BY <4>1, <4>4
        <5>2. q \in Successful(s)
          BY <3>3, <5>1
        <5>3. Current[s] # Original /\ row[Current[s]].plan.no >= row[q].plan.no
          BY <2>2, <5>2 DEF RevisionsAccumulateUnlessStale
        <5>4. Current[s] \in Request /\ Current'[s] = Current[s]
          BY <2>3, <3>5, <4>4, <5>3 DEF Lineage, Original
        <5> QED
          BY <2>1, <4>1, <5>3, <5>4
      <4> QED
        BY <4>3, <4>4
    <3>8. OneReplacementInv'
      <4> SUFFICES ASSUME NEW s \in Shot, NEW x \in Replacements(s)', NEW q \in Replacements(s)'
                   PROVE  x = q
        BY DEF OneReplacementInv
      <4>1. CASE r \notin Replacements(s)'
        BY <2>2, <3>4, <4>1 DEF OneReplacementInv
      <4>2. CASE r \in Replacements(s)'
        <5>1. s = s0 /\ Current[s] = Original
          BY <2>1, <2>3, <4>2 DEF Replacements, SourceOf
        <5>2. Successful(s) = {}
          BY <2>2, <5>1 DEF RevisionsAccumulateUnlessStale
        <5>3. Replacements(s) \subseteq Successful(s)
          BY DEF Replacements, Successful, Rows
        <5> QED
          BY <3>4, <5>2, <5>3
      <4> QED
        BY <4>1, <4>2
    <3> QED
      BY <3>6, <3>7, <3>8
  <2> QED
    BY <2>5, <2>6
<1>4. CASE stale' # {}
  BY <1>4 DEF BaseInv, OneReplacementInv, RevisionsAccumulateUnlessStale
<1> QED
  BY <1>1, <1>2, <1>3, <1>4, RowEffect

\* What is in the table stays, and what has succeeded stays so.
LEMMA RowsStay ==
  ASSUME TypeOK, PlanInv, [Next]_vars
  PROVE  /\ \A r \in Request : Inserted(r) => row'[r].plan = row[r].plan /\ row'[r].status # "ABSENT"
         /\ \A r \in Request : row[r].status = "SUCCEEDED" => row'[r].status = "SUCCEEDED"
         /\ \A s : NextNumber(s) <= NextNumber(s)'
<1>1. \A s : NextNumber(s) \in Nat
  BY NumbersNat
<1>2. CASE UNCHANGED <<row, latest, stale>>
  <2>1. \A s : Rows(s)' = Rows(s)
    BY <1>2 DEF Rows
  <2>2. \A s : NextNumber(s) <= NextNumber(s)'
    BY <1>1, <2>1 DEF NextNumber
  <2> QED
    BY <1>2, <2>2 DEF Inserted
<1>3. ASSUME NEW c \in Call, Inserts(c)
      PROVE  /\ \A r \in Request : Inserted(r) => row'[r].plan = row[r].plan /\ row'[r].status # "ABSENT"
             /\ \A r \in Request : row[r].status = "SUCCEEDED" => row'[r].status = "SUCCEEDED"
             /\ \A s : NextNumber(s) <= NextNumber(s)'
  <2>1. /\ row[RequestOf[c]].status = "ABSENT"
        /\ \A q \in Request : q # RequestOf[c] => row'[q] = row[q]
        /\ \A x : Rows(x)' = IF x = plan[c].shot THEN Rows(x) \cup {RequestOf[c]} ELSE Rows(x)
    BY <1>3, InsertedRow DEF Inserts
  <2>2. \A s : Cardinality(Rows(s)) \in Nat /\ IsFiniteSet(Rows(s))
    BY NumbersNat
  <2>3. \A s : Cardinality(Rows(s)') \in {Cardinality(Rows(s)), Cardinality(Rows(s)) + 1}
    <3> TAKE s
    <3>1. IsFiniteSet(Rows(s)) /\ Rows(s)' \in {Rows(s), Rows(s) \cup {RequestOf[c]}}
      BY <2>1, <2>2
    <3> QED
      BY <3>1, FS_AddElement
  <2>4. \A s : NextNumber(s)' = 1 + Cardinality(Rows(s)')
    BY DEF NextNumber
  <2> QED
    BY <1>1, <2>1, <2>2, <2>3, <2>4 DEF Inserted, NextNumber
<1>4. ASSUME NEW c \in Call, NEW t \in {"RUNNING", "SUCCEEDED", "FAILED", "RETRYING"}, Turns(RequestOf[c], t)
      PROVE  /\ \A r \in Request : Inserted(r) => row'[r].plan = row[r].plan /\ row'[r].status # "ABSENT"
             /\ \A r \in Request : row[r].status = "SUCCEEDED" => row'[r].status = "SUCCEEDED"
             /\ \A s : NextNumber(s) <= NextNumber(s)'
  <2>1. /\ \A q \in Request : row'[q].plan = row[q].plan
        /\ \A q \in Request : row'[q].status = IF q = RequestOf[c] THEN t ELSE row[q].status
        /\ \A s : NextNumber(s)' = NextNumber(s)
    BY <1>4, Turned DEF RowStatus, Active
  <2> QED
    BY <1>1, <1>4, <2>1 DEF Inserted, Turns, Active
<1> QED
  BY <1>2, <1>3, <1>4, RowEffect

\* A plan is made with the next number of its shot, which only grows.
LEMMA PlanStep ==
  ASSUME TypeOK, PlanInv, RowsInv, [Next]_vars
  PROVE  plan' \in [Call -> Plan] /\ PlanInv'
<1>1. \A s : NextNumber(s) \in Nat /\ NextNumber(s)' \in Nat /\ NextNumber(s) <= NextNumber(s)'
  <2>1. \A s : IsFiniteSet(Rows(s)')
    <3>1. \A s : Rows(s)' \subseteq Request
      BY DEF Rows
    <3> QED
      BY <3>1, FS_Subset
  <2>2. \A s : Cardinality(Rows(s)') \in Nat
    BY <2>1, FS_CardinalityType
  <2> QED
    BY <2>2, NumbersNat, RowsStay DEF NextNumber
<1>2. ASSUME NEW c \in Call, plan'[c] = plan[c], pc'[c] \in Planned => pc[c] \in Planned
      PROVE  WellPlanned(c)'
  <2>1. \A m, n \in Nat : m <= n => 1..m \subseteq 1..n
    OBVIOUS
  <2>2. \A s : 1..NextNumber(s) \subseteq 1..NextNumber(s)'
    BY <1>1, <2>1
  <2>3. \A s : plan[c].shot = s => NextNumber(plan[c].shot)' = NextNumber(s)'
    BY <1>2
  <2>4. 1..NextNumber(plan[c].shot) \subseteq 1..NextNumber(plan[c].shot)'
    BY <2>2, <2>3
  <2>5. pc'[c] \in Planned => plan[c].shot \in Shot /\ plan[c].no \in 1..NextNumber(plan[c].shot)
    BY <1>2 DEF PlanInv, WellPlanned
  <2> QED
    BY <1>2, <2>4, <2>5 DEF WellPlanned
<1>3. /\ plan \in [Call -> Plan] /\ pc \in [Caller -> Places] /\ Call \subseteq Caller
      /\ \A q \in Recovery : q \notin Call
  BY DEF TypeOK, Caller
<1>4. NoPlan \in Plan
  <2>1. 0 \in 0..1 + Cardinality(Request)
    BY NumbersNat
  <2> QED
    BY <2>1 DEF NoPlan, Plan, Lineage, Kind
<1>5. CASE /\ plan' \in [Call -> Plan]
           /\ \A c \in Call : pc'[c] \in Planned => plan'[c] = plan[c] /\ pc[c] \in Planned
  <2>1. \A c \in Call : pc'[c] \notin Planned => WellPlanned(c)'
    BY DEF WellPlanned
  <2> QED
    BY <1>2, <1>5, <2>1 DEF PlanInv
<1>6. CASE UNCHANGED local
  BY <1>3, <1>5, <1>6 DEF local
<1>7. ASSUME NEW q \in Recovery, Recover(q)
      PROVE  plan' \in [Call -> Plan] /\ PlanInv'
  <2>1. plan' = plan /\ \A c \in Call : pc'[c] = pc[c]
    BY <1>3, <1>7 DEF Recover, Inspect, Persist, Goto
  <2> QED
    BY <1>3, <1>5, <2>1
<1>8. ASSUME NEW c \in Call, NEW s \in Shot, NEW kind \in Kind, Preflight(c, s, kind)
      PROVE  plan' \in [Call -> Plan] /\ PlanInv'
  <2>1. PlanFor(s, kind) \in Plan
    BY CurrentLineage, NumbersNat DEF PlanFor, Plan
  <2>2. /\ plan' = [plan EXCEPT ![c] = PlanFor(s, kind)]
        /\ pc' = [pc EXCEPT ![c] = "CONFIRMED"]
    BY <1>8 DEF Preflight, Goto
  <2>3. plan' \in [Call -> Plan]
    BY <1>3, <2>1, <2>2
  <2>4. ASSUME NEW d \in Call
        PROVE  WellPlanned(d)'
    <3>1. CASE d = c
      <4>1. plan'[d].shot = s /\ plan'[d].no = NextNumber(s)
        BY <1>3, <2>2, <3>1 DEF PlanFor
      <4>2. NextNumber(s) \in Nat /\ 1 <= NextNumber(s)
        BY NumbersNat
      <4>3. plan'[d].no \in 1..NextNumber(s)'
        BY <1>1, <4>1, <4>2
      <4>4. \A x : plan'[d].shot = x => (x \in Shot /\ plan'[d].no \in 1..NextNumber(x)')
        BY <4>1, <4>3
      <4> QED
        BY <4>4 DEF WellPlanned
    <3>2. CASE d # c
      BY <1>2, <1>3, <2>2, <3>2
    <3> QED
      BY <3>1, <3>2
  <2> QED
    BY <2>3, <2>4 DEF PlanInv
<1>9. ASSUME NEW c \in Call, Confirm(c)
      PROVE  plan' \in [Call -> Plan] /\ PlanInv'
  <2>1. ASSUME NEW place, Move(c, place), pc[c] \in Planned
        PROVE  plan' \in [Call -> Plan] /\ PlanInv'
    <3>1. pc' = [pc EXCEPT ![c] = place]
      BY <2>1 DEF Move, Goto
    <3>2. CASE place \in {"SCHEDULED", "DONE"}
      BY <1>3, <1>4, <1>5, <2>1, <3>1, <3>2 DEF Move, Planned
    <3>3. CASE place \notin {"SCHEDULED", "DONE"}
      BY <1>3, <1>5, <2>1, <3>1, <3>3 DEF Move
    <3> QED
      BY <3>2, <3>3
  <2>2. CASE Look(c)
    BY <2>1, <2>2 DEF Look, Planned
  <2>3. CASE ReadJob(c)
    <3>1. CASE Move(c, "DONE")
      BY <2>1, <2>3, <3>1 DEF ReadJob, Planned
    <3>2. CASE Goto(c, "READ") /\ UNCHANGED plan
      BY <1>3, <1>5, <2>3, <3>2 DEF ReadJob, Goto, Planned
    <3> QED
      BY <2>3, <3>1, <3>2 DEF ReadJob
  <2>4. CASE ReadSafety(c) \/ Prepare(c) \/ Ensure(c)
    BY <2>1, <2>4 DEF ReadSafety, Prepare, Ensure, Planned
  <2> QED
    BY <1>9, <2>2, <2>3, <2>4 DEF Confirm
<1>10. ASSUME NEW c \in Call, Execute(c) \/ Crash(c)
       PROVE  plan' \in [Call -> Plan] /\ PlanInv'
  <2>1. plan' = plan /\ \E place : Goto(c, place) /\ place \notin Planned
    <3>1. CASE Execute(c)
      <4>1. CASE Claim(c) \/ Generate(c) \/ Judge(c)
        BY <4>1 DEF Claim, Generate, Judge, Planned
      <4>2. CASE CompleteRevision(c) \/ CompleteSource(c) \/ Fail(c)
        BY <4>2 DEF CompleteRevision, CompleteSource, Fail, Planned
      <4>3. ASSUME NEW fate \in {"DONE", "DEAD", "DOUBT"}, Answer(c, fate)
            PROVE  plan' = plan /\ \E place : Goto(c, place) /\ place \notin Planned
        BY <4>3 DEF Answer, Planned
      <4> QED
        BY <3>1, <4>1, <4>2, <4>3 DEF Execute
    <3>2. CASE Crash(c)
      BY <3>2 DEF Crash, Planned
    <3> QED
      BY <1>10, <3>1, <3>2
  <2> QED
    BY <1>3, <1>5, <2>1 DEF Goto
<1>11. CASE RunStep \/ UNCHANGED vars
  <2>1. UNCHANGED local
    BY <1>11 DEF RunStep, StartOrRetry, Continue, ClaimRun, CompleteRun, FailRun, FailQuality, FailVideo, vars, local
  <2> QED
    BY <1>6, <2>1
<1> QED
  BY <1>7, <1>8, <1>9, <1>10, <1>11 DEF Next, Operate

(***************************************************************************)
(* A call that works is the only one: it has claimed a row that nobody was *)
(* working on, and until it ends the row nobody else can claim it.         *)
(***************************************************************************)
CallTypes ==
  /\ pc \in [Caller -> Places]
  /\ media \in [Video -> {"NONE", "DOUBT", "DONE", "DEAD"}]
  /\ paid \subseteq Request /\ passed \subseteq paid /\ crashed \subseteq Request

\* What a step of another leaves to a call.
LEMMA HoldsStill ==
  ASSUME TypeOK, NEW c \in Call, Holds(c), pc'[c] = pc[c],
         pc[c] \in Working => /\ row'[RequestOf[c]] = row[RequestOf[c]]
                              /\ media'[VideoOf(c)] = media[VideoOf(c)]
                              /\ \A d \in Call : pc'[d] \in Working /\ RequestOf[d] = RequestOf[c]
                                                => pc[d] \in Working,
         paid \subseteq paid', passed \subseteq passed'
  PROVE  Holds(c)'
<1>1. CASE pc[c] \notin Working
  BY <1>1 DEF Holds, Working
<1>2. CASE pc[c] \in Working
  <2>1. VideoOf(c)' = VideoOf(c)
    BY <1>2 DEF VideoOf, PlanOf
  <2>2. media'[VideoOf(c)'] = media[VideoOf(c)]
    BY <1>2, <2>1
  <2>3. Alone(c)'
    BY <1>2 DEF Holds, Alone
  <2> QED
    BY <1>2, <2>2, <2>3 DEF Holds
<1> QED
  BY <1>1, <1>2

LEMMA CallsStep ==
  ASSUME TypeOK, RowsInv, CallInv, AttendedInv, PaidInv, PlanInv, [Next]_vars
  PROVE  CallTypes' /\ CallInv' /\ AttendedInv' /\ PaidInv'
<1> DEFINE Goal == CallTypes' /\ CallInv' /\ AttendedInv' /\ PaidInv'
<1>1. /\ CallTypes /\ row \in [Request -> [status : RowStatus, plan : Plan]]
      /\ RequestOf \in [Call -> Request] /\ Call \subseteq Caller /\ Recovery \subseteq Caller
      /\ \A q \in Recovery : q \notin Call
      /\ \A r \in Request : Inserted(r) => row'[r].plan = row[r].plan /\ row'[r].status # "ABSENT"
  BY RowsStay DEF TypeOK, CallTypes, Caller
<1>2. \A c \in Call : pc[c] \in Working => VideoOf(c) \in Video /\ Inserted(RequestOf[c]) /\ PlanOf(c).shot \in Shot
  BY <1>1 DEF CallInv, Holds, RowsInv, Inserted, VideoOf, PlanOf, Video
\* A step of the run: only first videos change.
<1>3. CASE RunStep \/ UNCHANGED vars
  <2>1. UNCHANGED <<row, pc, paid, passed, crashed>>
    BY <1>3 DEF RunStep, StartOrRetry, Continue, ClaimRun, CompleteRun, FailRun, FailQuality, FailVideo,
       vars, rowVars, local, history
  <2>2. /\ media' \in [Video -> {"NONE", "DOUBT", "DONE", "DEAD"}]
        /\ \A v \in Video : v[2] # Original => media'[v] = media[v]
    <3>1. CASE UNCHANGED media
      BY <1>1, <3>1 DEF CallTypes
    <3>2. CASE GenerateAll
      <4>1. media' = [v \in Video |-> IF v \in Missing \X {Original} THEN "DONE" ELSE media[v]]
        BY <3>2 DEF GenerateAll
      <4> QED
        BY <1>1, <4>1 DEF CallTypes
    <3>3. ASSUME NEW s \in Shot, NEW fate \in {"DEAD", "DOUBT"}, FailVideo(s, fate)
          PROVE  /\ media' \in [Video -> {"NONE", "DOUBT", "DONE", "DEAD"}]
                 /\ \A v \in Video : v[2] # Original => media'[v] = media[v]
      <4>1. media' = [media EXCEPT ![<<s, Original>>] = fate]
        BY <3>3 DEF FailVideo
      <4>2. \A v \in Video : v[2] # Original => v # <<s, Original>>
        OBVIOUS
      <4>3. media' \in [Video -> {"NONE", "DOUBT", "DONE", "DEAD"}]
        BY <1>1, <4>1 DEF CallTypes
      <4>4. \A v \in Video : v # <<s, Original>> => media'[v] = media[v]
        BY <1>1, <4>1 DEF CallTypes
      <4> QED
        BY <4>2, <4>3, <4>4
    <3> QED
      BY <1>3, <3>1, <3>2, <3>3 DEF RunStep, StartOrRetry, Continue, ClaimRun, CompleteRun, FailRun, FailQuality, vars
  <2>3. \A c \in Call : VideoOf(c)[2] # Original
    BY <1>1 DEF VideoOf, Original
  <2>4. CallInv'
    BY <1>2, <2>1, <2>2, <2>3, HoldsStill DEF CallInv
  <2>5. PaidInv'
    <3>1. \A r \in Request, s \in Shot : <<s, r>> \in Video /\ <<s, r>>[2] # Original
      BY DEF Video, Original
    <3>2. \A r \in Request, s \in Shot : media'[<<s, r>>] = media[<<s, r>>]
      BY <2>2, <3>1
    <3> QED
      BY <2>1, <3>2 DEF PaidInv, Inserted
  <2> QED
    BY <1>1, <2>1, <2>2, <2>4, <2>5 DEF CallTypes, AttendedInv, Attended
\* A call that is not working goes to another place where it does not.
<1>4. ASSUME NEW x \in Caller, NEW place \in Places, Goto(x, place), x \in Call => pc[x] \notin Working,
             x \in Call => place \notin Working, UNCHANGED <<media, paid, passed, crashed>>,
             \A r \in Request : row[r].status = "RUNNING" => row'[r] = row[r],
             \A r \in Request : row'[r].status = "RUNNING" => row[r].status = "RUNNING"
      PROVE  Goal
  <2>1. pc' = [pc EXCEPT ![x] = place]
    BY <1>4 DEF Goto
  <2>2. \A d \in Call : pc'[d] \in Working <=> pc[d] \in Working
    BY <1>1, <1>4, <2>1 DEF CallTypes
  <2>3. \A d \in Call : pc[d] \in Working => pc'[d] = pc[d] /\ row'[RequestOf[d]] = row[RequestOf[d]]
    BY <1>1, <1>4, <2>1 DEF CallTypes, CallInv, Holds
  <2>4. ASSUME NEW d \in Call PROVE Holds(d)'
    <3>1. CASE pc[d] \in Working
      BY <1>4, <2>2, <2>3, <3>1, HoldsStill DEF CallInv
    <3>2. CASE pc[d] \notin Working
      BY <2>2, <3>2 DEF Holds, Working
    <3> QED
      BY <3>1, <3>2
  <2>5. AttendedInv'
    BY <1>4, <2>2 DEF AttendedInv, Attended
  <2>6. PaidInv'
    BY <1>1, <1>4 DEF PaidInv, Inserted, CallTypes
  <2>7. CallTypes'
    BY <1>1, <1>4, <2>1 DEF CallTypes
  <2> QED
    BY <2>4, <2>5, <2>6, <2>7 DEF CallInv
<1>5. ASSUME NEW q \in Recovery, Recover(q) PROVE Goal
  <2>1. /\ UNCHANGED <<row, media, paid, passed, crashed>>
        /\ \E place \in Places : Goto(q, place)
    BY <1>5 DEF Recover, Inspect, Persist, rowVars, history, Places
  <2> QED
    BY <1>1, <1>4, <2>1
<1>6. ASSUME NEW c \in Call, Operate(c) PROVE Goal
  <2>1. /\ UNCHANGED <<row, media, paid, passed, crashed>>
        /\ pc[c] \notin Working /\ Goto(c, "CONFIRMED")
    BY <1>6 DEF Operate, Preflight, rowVars, history, Working
  <2>2. "CONFIRMED" \in Places /\ "CONFIRMED" \notin Working
    BY DEF Places, Working
  <2> QED
    BY <1>1, <1>4, <2>1, <2>2
<1>7. ASSUME NEW c \in Call, Confirm(c) PROVE Goal
  <2>1. CASE Look(c) \/ ReadJob(c) \/ ReadSafety(c) \/ Prepare(c)
    <3>1. /\ UNCHANGED <<row, media, paid, passed, crashed>> /\ pc[c] \notin Working
          /\ \E place \in Places \ Working : Goto(c, place)
      <4>1. CASE Look(c)
        BY <4>1 DEF Look, Move, Known, rowVars, history, Working, Places, Executing
      <4>2. CASE ReadJob(c) \/ ReadSafety(c) \/ Prepare(c)
        BY <4>2 DEF ReadJob, ReadSafety, Prepare, Move, rowVars, history, Working, Places, Executing
      <4> QED
        BY <2>1, <4>1, <4>2
    <3> QED
      BY <1>1, <1>4, <3>1
  <2>2. CASE Ensure(c)
    <3>1. /\ UNCHANGED <<media, paid, passed, crashed>> /\ pc[c] \notin Working
          /\ \E place \in Places \ Working : Goto(c, place)
      BY <2>2 DEF Ensure, Move, Known, Working, Places, Executing
    <3>2. CASE row' = row
      BY <1>1, <1>4, <3>1, <3>2
    <3>3. CASE /\ row[RequestOf[c]].status = "ABSENT"
               /\ row' = [row EXCEPT ![RequestOf[c]] = [status |-> "PREPARED", plan |-> plan[c]]]
      BY <1>1, <1>4, <3>1, <3>3
    <3> QED
      BY <2>2, <3>2, <3>3 DEF Ensure
  <2> QED
    BY <1>7, <2>1, <2>2 DEF Confirm
<1>8. ASSUME NEW c \in Call, Claim(c) PROVE Goal
  <2> DEFINE r == RequestOf[c]
  <2>1. UNCHANGED <<media, paid, passed, crashed>> /\ pc[c] \notin Working
    BY <1>8 DEF Claim, history, Working
  <2>2. CASE row' = row /\ Goto(c, "DONE")
    BY <1>1, <1>4, <2>1, <2>2 DEF Places, Working, Executing
  <2>3. CASE Claimable(r) /\ SetStatus(r, "RUNNING") /\ Goto(c, "CLAIMED")
    <3>1. /\ row[r].status # "RUNNING" /\ r \in Request
          /\ row' = [row EXCEPT ![r].status = "RUNNING"] /\ pc' = [pc EXCEPT ![c] = "CLAIMED"]
      BY <1>1, <2>3 DEF Claimable, SetStatus, Goto
    <3>2. \A d \in Call : pc[d] \in Working => RequestOf[d] # r /\ d # c
      BY <2>1, <3>1 DEF CallInv, Holds
    <3>3. \A d \in Call : d # c => pc'[d] = pc[d]
      BY <1>1, <3>1 DEF CallTypes
    <3>4. Holds(c)'
      <4>1. pc'[c] = "CLAIMED" /\ row'[r].status = "RUNNING"
        BY <1>1, <3>1 DEF CallTypes
      <4>2. Alone(c)'
        BY <3>2, <3>3 DEF Alone
      <4> QED
        BY <4>1, <4>2 DEF Holds
    <3>5. ASSUME NEW d \in Call, d # c PROVE Holds(d)'
      <4>1. pc[d] \in Working => row'[RequestOf[d]] = row[RequestOf[d]]
        BY <1>1, <3>1, <3>2
      <4>2. pc[d] \in Working => \A e \in Call : pc'[e] \in Working /\ RequestOf[e] = RequestOf[d] => pc[e] \in Working
        BY <3>2, <3>3
      <4> QED
        BY <2>1, <3>3, <3>5, <4>1, <4>2, HoldsStill DEF CallInv
    <3>6. AttendedInv'
      <4>1. pc'[c] \in Working
        BY <1>1, <3>1 DEF CallTypes, Working
      <4>2. \A q \in Request : q # r => row'[q] = row[q]
        BY <1>1, <3>1
      <4> QED
        BY <2>1, <3>2, <3>3, <4>1, <4>2 DEF AttendedInv, Attended
    <3>7. PaidInv'
      BY <1>1, <2>1 DEF PaidInv, Inserted, CallTypes
    <3>8. CallTypes'
      BY <1>1, <2>1, <3>1 DEF CallTypes, Places, Executing
    <3> QED
      BY <3>4, <3>5, <3>6, <3>7, <3>8 DEF CallInv
  <2> QED
    BY <1>8, <2>2, <2>3 DEF Claim
\* A call at work goes on working: the others see nothing of it.
<1>9. ASSUME NEW c \in Call, NEW place \in Working, pc[c] \in Working, Goto(c, place), UNCHANGED <<row, crashed>>,
             media' \in [Video -> {"NONE", "DOUBT", "DONE", "DEAD"}],
             \A v \in Video : v # VideoOf(c) => media'[v] = media[v],
             paid \subseteq paid', paid' \subseteq paid \cup {RequestOf[c]},
             passed \subseteq passed', passed' \subseteq passed \cup {RequestOf[c]},
             media'[VideoOf(c)] # "NONE" => RequestOf[c] \in paid',
             place \in {"GENERATED", "PASSED"} => media'[VideoOf(c)] = "DONE",
             place \in {"PAID", "GENERATED", "PASSED"} \/ passed' # passed => RequestOf[c] \in paid',
             place = "PASSED" => RequestOf[c] \in passed'
      PROVE  Goal
  <2>1. pc' = [pc EXCEPT ![c] = place] /\ place \in Places
    BY <1>9 DEF Goto, Places, Working, Executing
  <2>2. \A d \in Call : pc'[d] = IF d = c THEN place ELSE pc[d]
    BY <1>1, <2>1 DEF CallTypes
  <2>3. \A d \in Call : pc'[d] \in Working <=> pc[d] \in Working
    BY <1>9, <2>2
  <2>4. Holds(c)'
    <3>1. Alone(c)'
      BY <1>9, <2>3 DEF CallInv, Holds, Alone
    <3>2. media'[VideoOf(c)'] = media'[VideoOf(c)]
      BY <1>9 DEF VideoOf, PlanOf
    <3> QED
      BY <1>9, <2>2, <3>1, <3>2 DEF CallInv, Holds
  <2>5. ASSUME NEW d \in Call, d # c PROVE Holds(d)'
    <3>1. pc[d] \in Working => RequestOf[d] # RequestOf[c]
      BY <1>9, <2>5 DEF CallInv, Holds, Alone
    <3>2. pc[d] \in Working => VideoOf(d) # VideoOf(c)
      BY <3>1 DEF VideoOf
    <3>3. pc[d] \in Working => media'[VideoOf(d)] = media[VideoOf(d)]
      BY <1>2, <1>9, <3>2
    <3> QED
      BY <1>9, <2>2, <2>3, <2>5, <3>3, HoldsStill DEF CallInv
  <2>6. AttendedInv'
    BY <1>9, <2>3 DEF AttendedInv, Attended
  <2>7. PaidInv'
    <3>1. \A r \in Request, s \in Shot : media'[<<s, r>>] # "NONE" => r \in paid'
      <4> TAKE r \in Request, s \in Shot
      <4>1. CASE <<s, r>> = VideoOf(c)
        BY <1>9, <4>1 DEF VideoOf
      <4>2. CASE <<s, r>> # VideoOf(c)
        <5>1. media'[<<s, r>>] = media[<<s, r>>]
          BY <1>9, <4>2 DEF Video
        <5> QED
          BY <1>9, <5>1 DEF PaidInv
      <4> QED
        BY <4>1, <4>2
    <3>2. \A r \in paid' : Inserted(r)'
      BY <1>2, <1>9 DEF PaidInv, Inserted
    <3> QED
      BY <3>1, <3>2 DEF PaidInv
  <2>8. CallTypes'
    BY <1>1, <1>9, <2>1 DEF CallTypes
  <2> QED
    BY <2>4, <2>5, <2>6, <2>7, <2>8 DEF CallInv
<1>10. ASSUME NEW c \in Call, Generate(c) PROVE Goal
  <2> DEFINE v == VideoOf(c)
  <2>1. /\ pc[c] = "CLAIMED" /\ pc[c] \in Working /\ UNCHANGED <<row, crashed, passed>>
        /\ v \in Video /\ PlanOf(c).shot \in Shot
    BY <1>2, <1>10 DEF Generate, rowVars, Working
  <2>2. media[v] # "NONE" => RequestOf[c] \in paid
    BY <1>1, <2>1 DEF PaidInv, VideoOf
  <2>3. {"PAID", "GENERATED", "FAILING"} \subseteq Working
    BY DEF Working
  <2>4. CASE media[v] = "NONE" /\ media' = [media EXCEPT ![v] = "DOUBT"] /\ paid' = paid \cup {RequestOf[c]} /\ Goto(c, "PAID")
    BY <1>1, <1>9, <2>1, <2>3, <2>4 DEF CallTypes
  <2>5. CASE media[v] = "DONE" /\ Goto(c, "GENERATED") /\ UNCHANGED <<media, paid>>
    BY <1>1, <1>9, <2>1, <2>2, <2>3, <2>5 DEF CallTypes
  <2>6. CASE Goto(c, "FAILING") /\ UNCHANGED <<media, paid>>
    BY <1>1, <1>9, <2>1, <2>2, <2>3, <2>6 DEF CallTypes
  <2> QED
    BY <1>10, <2>4, <2>5, <2>6 DEF Generate
<1>11. ASSUME NEW c \in Call, NEW fate \in {"DONE", "DEAD", "DOUBT"}, Answer(c, fate) PROVE Goal
  <2>1. /\ pc[c] = "PAID" /\ pc[c] \in Working /\ UNCHANGED <<row, paid, passed, crashed>>
        /\ VideoOf(c) \in Video /\ media' = [media EXCEPT ![VideoOf(c)] = fate]
    BY <1>2, <1>11 DEF Answer, rowVars, history, Working
  <2>2. RequestOf[c] \in paid
    BY <2>1 DEF CallInv, Holds
  <2>3. \E place \in Working : Goto(c, place) /\ place # "PASSED" /\ (place = "GENERATED" => fate = "DONE")
    BY <1>11 DEF Answer, Working
  <2>4. /\ media' \in [Video -> {"NONE", "DOUBT", "DONE", "DEAD"}] /\ media'[VideoOf(c)] = fate
        /\ \A v \in Video : v # VideoOf(c) => media'[v] = media[v]
    BY <1>1, <2>1 DEF CallTypes
  <2> QED
    BY <1>9, <2>1, <2>2, <2>3, <2>4
<1>12. ASSUME NEW c \in Call, Judge(c) PROVE Goal
  <2>1. /\ pc[c] = "GENERATED" /\ pc[c] \in Working /\ UNCHANGED <<row, media, paid, crashed>>
        /\ VideoOf(c) \in Video
    BY <1>2, <1>12 DEF Judge, rowVars, Working
  <2>2. RequestOf[c] \in paid /\ media[VideoOf(c)] = "DONE"
    BY <2>1 DEF CallInv, Holds
  <2>3. {"PASSED", "FAILING"} \subseteq Working
    BY DEF Working
  <2>4. CASE Goto(c, "PASSED") /\ passed' = passed \cup {RequestOf[c]}
    BY <1>1, <1>9, <2>1, <2>2, <2>3, <2>4 DEF CallTypes
  <2>5. CASE Goto(c, "FAILING") /\ UNCHANGED passed
    BY <1>1, <1>9, <2>1, <2>2, <2>3, <2>5 DEF CallTypes
  <2> QED
    BY <1>12, <2>4, <2>5 DEF Judge
\* A call that stops working has ended its row, or has died.
<1>13. ASSUME NEW c \in Call, NEW place \in Places \ Working, pc[c] \in Working, Goto(c, place),
              UNCHANGED <<media, paid, passed>>, crashed \subseteq crashed', crashed' \subseteq Request,
              \A q \in Request : q # RequestOf[c] => row'[q] = row[q],
              row'[RequestOf[c]].status # "RUNNING" \/ RequestOf[c] \in crashed'
       PROVE  Goal
  <2>1. pc' = [pc EXCEPT ![c] = place]
    BY <1>13 DEF Goto
  <2>2. \A d \in Call : pc'[d] = IF d = c THEN place ELSE pc[d]
    BY <1>1, <2>1 DEF CallTypes
  <2>3. \A d \in Call : d # c /\ pc[d] \in Working => RequestOf[d] # RequestOf[c]
    BY <1>13 DEF CallInv, Holds, Alone
  <2>4. Holds(c)'
    BY <1>13, <2>2 DEF Holds, Working
  <2>5. ASSUME NEW d \in Call, d # c PROVE Holds(d)'
    <3>1. pc[d] \in Working => row'[RequestOf[d]] = row[RequestOf[d]]
      BY <1>1, <1>13, <2>3, <2>5
    <3>2. \A e \in Call : pc'[e] \in Working => pc[e] \in Working
      BY <1>13, <2>2
    <3> QED
      BY <1>13, <2>2, <2>5, <3>1, <3>2, HoldsStill DEF CallInv
  <2>6. AttendedInv'
    <3> SUFFICES ASSUME NEW r \in Request \ crashed', row'[r].status = "RUNNING"
                 PROVE  Attended(r)'
      BY DEF AttendedInv
    <3>1. r # RequestOf[c] /\ r \notin crashed /\ row[r].status = "RUNNING"
      BY <1>13
    <3>2. PICK d \in Call : RequestOf[d] = r /\ pc[d] \in Working
      BY <3>1 DEF AttendedInv, Attended
    <3> QED
      BY <2>2, <3>1, <3>2 DEF Attended
  <2>7. PaidInv'
    BY <1>1, <1>13 DEF PaidInv, Inserted, CallTypes
  <2>8. CallTypes'
    BY <1>1, <1>13, <2>1 DEF CallTypes
  <2> QED
    BY <2>4, <2>5, <2>6, <2>7, <2>8 DEF CallInv
<1>14. ASSUME NEW c \in Call, CompleteRevision(c) \/ Fail(c) \/ (Crash(c) /\ pc[c] \in Working) PROVE Goal
  <2>1. pc[c] \in Working /\ RequestOf[c] \in Request
    BY <1>1, <1>14 DEF CompleteRevision, Fail, Working
  <2>2. row[RequestOf[c]].status = "RUNNING"
    BY <2>1 DEF CallInv, Holds
  <2>3. CASE CompleteRevision(c) \/ Fail(c)
    <3>1. /\ UNCHANGED <<media, paid, passed, crashed>> /\ Goto(c, "DONE")
          /\ \E t \in {"SUCCEEDED", "FAILED", "RETRYING"} : row' = [row EXCEPT ![RequestOf[c]].status = t]
      BY <2>2, <2>3 DEF CompleteRevision, Fail, FailureStatus, SetStatus, history
    <3>2. "DONE" \in Places \ Working
      BY DEF Places, Working
    <3>3. /\ row'[RequestOf[c]].status # "RUNNING"
          /\ \A q \in Request : q # RequestOf[c] => row'[q] = row[q]
      BY <1>1, <2>1, <3>1
    <3> QED
      BY <1>1, <1>13, <2>1, <3>1, <3>2, <3>3 DEF CallTypes
  <2>4. CASE Crash(c)
    <3>1. /\ UNCHANGED <<row, media, paid, passed>> /\ Goto(c, "DEAD") /\ crashed' = crashed \cup {RequestOf[c]}
      BY <2>4 DEF Crash, rowVars
    <3>2. "DEAD" \in Places \ Working
      BY DEF Places, Working
    <3> QED
      BY <1>1, <1>13, <2>1, <3>1, <3>2 DEF CallTypes
  <2> QED
    BY <1>14, <2>3, <2>4
<1>15. ASSUME NEW c \in Call, Crash(c), pc[c] \notin Working PROVE Goal
  <2>1. /\ UNCHANGED <<row, media, paid, passed>> /\ Goto(c, "DEAD") /\ crashed' = crashed \cup {RequestOf[c]}
    BY <1>15 DEF Crash, rowVars
  <2>2. pc' = [pc EXCEPT ![c] = "DEAD"] /\ "DEAD" \in Places /\ "DEAD" \notin Working
    BY <2>1 DEF Goto, Places, Working
  <2>3. \A d \in Call : pc'[d] = IF d = c THEN "DEAD" ELSE pc[d]
    BY <1>1, <2>2 DEF CallTypes
  <2>4. ASSUME NEW d \in Call PROVE Holds(d)'
    <3>1. CASE d = c
      BY <2>2, <2>3, <3>1 DEF Holds, Working
    <3>2. CASE d # c
      BY <2>1, <2>2, <2>3, <3>2, HoldsStill DEF CallInv
    <3> QED
      BY <3>1, <3>2
  <2>5. AttendedInv'
    BY <1>15, <2>1, <2>3 DEF AttendedInv, Attended
  <2>6. PaidInv'
    BY <2>1 DEF PaidInv, Inserted
  <2>7. CallTypes'
    BY <1>1, <2>1, <2>2 DEF CallTypes
  <2> QED
    BY <2>4, <2>5, <2>6, <2>7 DEF CallInv
<1>16. ASSUME NEW c \in Call, CompleteSource(c) PROVE Goal
  <2>1. /\ pc[c] = "PASSED" /\ pc[c] \in Working /\ UNCHANGED <<media, paid, passed, crashed>>
        /\ VideoOf(c) \in Video /\ RequestOf[c] \in Request
    BY <1>1, <1>2, <1>16 DEF CompleteSource, history, Working
  <2>2. row[RequestOf[c]].status = "RUNNING" /\ RequestOf[c] \in paid /\ media[VideoOf(c)] = "DONE"
    BY <2>1 DEF CallInv, Holds
  <2>3. CASE UNCHANGED row /\ Goto(c, "FAILING")
    BY <1>1, <1>9, <2>1, <2>2, <2>3 DEF CallTypes, Working
  <2>4. CASE SetStatus(RequestOf[c], "SUCCEEDED") /\ Goto(c, "DONE")
    <3>1. "DONE" \in Places \ Working
      BY DEF Places, Working
    <3>2. /\ row'[RequestOf[c]].status # "RUNNING"
          /\ \A q \in Request : q # RequestOf[c] => row'[q] = row[q]
      BY <1>1, <2>1, <2>4 DEF SetStatus
    <3> QED
      BY <1>1, <1>13, <2>1, <2>4, <3>1, <3>2 DEF CallTypes
  <2> QED
    BY <1>16, <2>3, <2>4 DEF CompleteSource, rowVars
<1>17. ASSUME NEW c \in Call, Execute(c) PROVE Goal
  <2>1. CASE Claim(c) \/ Generate(c) \/ Judge(c)
    BY <1>8, <1>10, <1>12, <2>1
  <2>2. CASE CompleteRevision(c) \/ Fail(c)
    BY <1>14, <2>2
  <2>3. CASE CompleteSource(c)
    BY <1>16, <2>3
  <2>4. CASE \E fate \in {"DONE", "DEAD", "DOUBT"} : Answer(c, fate)
    BY <1>11, <2>4
  <2> QED
    BY <1>17, <2>1, <2>2, <2>3, <2>4 DEF Execute
<1>18. ASSUME NEW c \in Call, Crash(c) PROVE Goal
  BY <1>14, <1>15, <1>18
<1> QED
  BY <1>3, <1>5, <1>6, <1>7, <1>17, <1>18 DEF Next

JobTypes ==
  /\ job \in {"QUEUED", "RUNNING", "RETRYING", "FAILED", "COMPLETED"}
  /\ aware \in BOOLEAN /\ error \in Error
  /\ payload \in [Slot -> Request \cup Recovery \cup {None}]
  /\ scheduled \in 0..MaxRuns /\ runs \in 0..MaxRuns
  /\ shown \in Lineage
  /\ seen \in [Caller -> Error]

\* The error of the job names a shot where its class says so, whoever writes it.
LEMMA JobStep ==
  ASSUME TypeOK, JobInv, [Next]_vars
  PROVE  JobTypes' /\ JobInv'
<1>1. /\ JobTypes /\ Call \subseteq Caller /\ Recovery \subseteq Caller /\ RequestOf \in [Call -> Request]
      /\ \A c \in Call : c \notin Recovery
      /\ pc \in [Caller -> Places]
  BY DEF TypeOK, JobTypes, Caller
<1>2. NoError \in Error /\ \A class \in {"OTHER", "RECOVERED"} : [class |-> class, shot |-> None] \in Error
  BY DEF Error, NoError
<1>3. \A class \in QualityClass \cup {"DIRECT"}, s \in Shot : [class |-> class, shot |-> s] \in Error
  BY DEF Error
\* A step that is no Inspect() leaves the calls of recover() where they are, or ends them.
<1>4. CASE /\ JobTypes' /\ scheduled' + runs' <= MaxRuns
           /\ \A q \in Recovery : pc'[q] = "READ" => pc[q] = "READ" /\ seen'[q] = seen[q]
  BY <1>4 DEF JobInv
<1>5. CASE UNCHANGED <<scheduled, runs, local>> /\ JobTypes'
  BY <1>1, <1>4, <1>5 DEF JobInv, local
<1>6. CASE UNCHANGED vars
  BY <1>1, <1>5, <1>6 DEF vars, jobVars, JobTypes, local
<1>7. CASE RunStep
  <2>1. UNCHANGED <<local, aware, payload>>
    BY <1>7 DEF RunStep, StartOrRetry, Continue, ClaimRun, CompleteRun, FailRun, FailQuality, FailVideo
  <2>2. CASE StartOrRetry \/ Continue
    <3>1. UNCHANGED <<job, error, runs, shown>> /\ scheduled + runs < MaxRuns /\ scheduled' = scheduled + 1
      BY <2>2 DEF StartOrRetry, Continue, Schedule
    <3>2. scheduled' \in 0..MaxRuns /\ scheduled' + runs' <= MaxRuns
      BY <1>1, <3>1 DEF JobTypes
    <3> QED
      BY <1>1, <1>4, <2>1, <3>1, <3>2 DEF JobTypes, local
  <2>3. CASE ClaimRun
    <3>1. /\ scheduled > 0 /\ scheduled' = scheduled - 1 /\ error' = error
          /\ \/ job' = "RUNNING" /\ runs' = runs + 1 /\ shown' \in Lineage
             \/ UNCHANGED <<job, runs, shown>>
      BY <2>3 DEF ClaimRun
    <3>2. scheduled' \in 0..MaxRuns /\ runs' \in 0..MaxRuns /\ scheduled' + runs' <= MaxRuns
      BY <1>1, <3>1 DEF JobTypes, JobInv
    <3> QED
      BY <1>1, <1>4, <2>1, <3>1, <3>2 DEF JobTypes, local
  <2>4. CASE CompleteRun \/ FailRun
    BY <1>1, <1>2, <1>5, <2>1, <2>4 DEF CompleteRun, FailRun, JobTypes, local
  <2>5. ASSUME NEW s \in Shot, NEW class \in QualityClass, FailQuality(s, class)
        PROVE  JobTypes' /\ JobInv'
    BY <1>1, <1>3, <1>5, <2>1, <2>5 DEF FailQuality, JobTypes, local
  <2>6. ASSUME NEW s \in Shot, NEW fate \in {"DEAD", "DOUBT"}, FailVideo(s, fate)
        PROVE  JobTypes' /\ JobInv'
    BY <1>1, <1>2, <1>3, <1>5, <2>1, <2>6 DEF FailVideo, JobTypes, local
  <2> QED
    BY <1>7, <2>2, <2>3, <2>4, <2>5, <2>6 DEF RunStep
<1>8. ASSUME NEW c \in Call, NEW place, Goto(c, place), UNCHANGED <<aware, scheduled, runs, shown>>,
             \/ UNCHANGED <<job, error, payload>>
             \/ /\ job' = "RETRYING" /\ error' = [class |-> "RECOVERED", shot |-> None]
                /\ \E k \in Slot : payload' = [payload EXCEPT ![k] = RequestOf[c]],
             seen' = seen \/ \E e \in Error : seen' = [seen EXCEPT ![c] = e]
      PROVE  JobTypes' /\ JobInv'
  <2>1. JobTypes'
    BY <1>1, <1>2, <1>8 DEF JobTypes
  <2>2. \A q \in Recovery : pc'[q] = pc[q] /\ seen'[q] = seen[q]
    BY <1>1, <1>8 DEF Goto, JobTypes
  <2> QED
    BY <1>4, <1>8, <2>1, <2>2 DEF JobInv
<1>9. ASSUME NEW c \in Call, Operate(c) \/ Confirm(c) \/ Execute(c) \/ Crash(c)
      PROVE  JobTypes' /\ JobInv'
  <2>1. CASE Operate(c) \/ Crash(c)
    BY <1>8, <2>1 DEF Operate, Preflight, Crash, jobVars
  <2>2. CASE Confirm(c)
    <3>1. /\ UNCHANGED jobVars /\ \E place : Goto(c, place)
          /\ seen' = seen \/ \E e \in {NoError, error} : seen' = [seen EXCEPT ![c] = e]
      <4>1. CASE Look(c) \/ ReadSafety(c) \/ Prepare(c) \/ Ensure(c)
        BY <4>1 DEF Look, ReadSafety, Prepare, Ensure, Move
      <4>2. CASE ReadJob(c)
        BY <4>2 DEF ReadJob, Move
      <4> QED
        BY <2>2, <4>1, <4>2 DEF Confirm
    <3> QED
      BY <1>1, <1>2, <1>8, <3>1 DEF jobVars, JobTypes
  <2>3. CASE Execute(c)
    <3>1. CASE Claim(c) \/ Generate(c) \/ Judge(c) \/ CompleteRevision(c) \/ Fail(c)
      BY <1>8, <3>1 DEF Claim, Generate, Judge, CompleteRevision, Fail, jobVars
    <3>2. CASE \E fate \in {"DONE", "DEAD", "DOUBT"} : Answer(c, fate)
      BY <1>8, <3>2 DEF Answer, jobVars
    <3>3. CASE CompleteSource(c)
      BY <1>8, <3>3 DEF CompleteSource, Slot
    <3> QED
      BY <2>3, <3>1, <3>2, <3>3 DEF Execute
  <2> QED
    BY <1>9, <2>1, <2>2, <2>3
<1>10. ASSUME NEW q \in Recovery, Recover(q)
       PROVE  JobTypes' /\ JobInv'
  <2>1. CASE Inspect(q)
    <3>1. error.class = "EVIDENCE" => error.shot \in Shot
      BY <1>1 DEF JobTypes, Error, NoError
    <3>2. /\ UNCHANGED jobVars /\ error.class = "EVIDENCE"
          /\ seen' = [seen EXCEPT ![q] = error] /\ pc' = [pc EXCEPT ![q] = "READ"]
      BY <2>1 DEF Inspect, Goto
    <3> QED
      BY <1>1, <3>1, <3>2 DEF JobInv, JobTypes, jobVars
  <2>2. ASSUME NEW verdict \in {"ACCEPT"} \cup QualityClass, Persist(q, verdict)
        PROVE  JobTypes' /\ JobInv'
    <3>1. /\ UNCHANGED <<aware, scheduled, runs, shown>> /\ pc[q] = "READ"
          /\ seen' = [seen EXCEPT ![q] = NoError] /\ pc' = [pc EXCEPT ![q] = "DONE"]
          /\ \/ UNCHANGED <<job, error, payload>>
             \/ /\ job' = "RETRYING" /\ error' = [class |-> "RECOVERED", shot |-> None]
                /\ payload' = [payload EXCEPT !["QUALITY"] = q]
             \/ /\ job' = job /\ verdict \in QualityClass
                /\ error' = [class |-> verdict, shot |-> seen[q].shot]
                /\ payload' = [payload EXCEPT !["QUALITY"] = None]
      BY <2>2 DEF Persist, Goto
    <3>2. seen[q].shot \in Shot
      BY <3>1 DEF JobInv
    <3>3. error' \in Error
      BY <1>1, <1>2, <1>3, <3>1, <3>2 DEF JobTypes
    <3>4. JobTypes'
      BY <1>1, <1>2, <3>1, <3>3 DEF JobTypes
    <3>5. \A p \in Recovery : pc'[p] = "READ" => pc[p] = "READ" /\ seen'[p] = seen[p]
      BY <1>1, <3>1 DEF JobTypes
    <3> QED
      BY <1>4, <3>1, <3>4, <3>5 DEF JobInv
  <2> QED
    BY <1>10, <2>1, <2>2 DEF Recover
<1> QED
  BY <1>6, <1>7, <1>9, <1>10 DEF Next

(***************************************************************************)
(* The automatic replacements that have succeeded, and the keys of the job *)
(* that name them, change in one step only.                                *)
(***************************************************************************)
LEMMA AcceptedStep ==
  ASSUME TypeOK, PlanInv, CallInv, [Next]_vars
  PROVE  \/ /\ Accepted' = Accepted /\ \A k \in Bounded : payload'[k] = payload[k]
            /\ latest' = latest \/ latest' \notin Accepted
         \/ \E c \in Call :
              /\ pc[c] = "PASSED" /\ PlanOf(c).kind \in Bounded
              /\ Accepted' = Accepted \cup {RequestOf[c]} /\ latest' = RequestOf[c]
              /\ payload' = [payload EXCEPT ![PlanOf(c).kind] = RequestOf[c]] /\ job' = "RETRYING"
              /\ UNCHANGED <<media, passed>>
<1> DEFINE Same == /\ Accepted' = Accepted /\ \A k \in Bounded : payload'[k] = payload[k]
                   /\ latest' = latest \/ latest' \notin Accepted
<1>1. row \in [Request -> [status : RowStatus, plan : Plan]] /\ RequestOf \in [Call -> Request]
  BY DEF TypeOK
<1>2. CASE RunStep \/ UNCHANGED vars
  <2>1. UNCHANGED <<row, payload, latest>>
    BY <1>2 DEF RunStep, StartOrRetry, Continue, ClaimRun, CompleteRun, FailRun, FailQuality, FailVideo,
       vars, rowVars, jobVars
  <2> QED
    BY <2>1 DEF Accepted
<1>3. ASSUME NEW q \in Recovery, Recover(q) PROVE Same
  <2>1. /\ UNCHANGED <<row, latest>>
        /\ payload' = payload \/ \E v : payload' = [payload EXCEPT !["QUALITY"] = v]
    BY <1>3 DEF Recover, Inspect, Persist, rowVars, jobVars
  <2>2. "QUALITY" \notin Bounded /\ Bounded \subseteq Slot /\ payload \in [Slot -> Request \cup Recovery \cup {None}]
    BY DEF Bounded, Slot, TypeOK
  <2>3. \A k \in Bounded : payload'[k] = payload[k]
    BY <2>1, <2>2
  <2> QED
    BY <2>1, <2>3 DEF Accepted
<1>4. ASSUME UNCHANGED <<row, payload, latest>> PROVE Same
  BY <1>4 DEF Accepted
<1>5. ASSUME NEW c \in Call, UNCHANGED payload, latest' = latest \/ latest' = RequestOf[c], row[RequestOf[c]].status # "SUCCEEDED",
             NEW t, SetStatus(RequestOf[c], t), t # "SUCCEEDED" \/ PlanOf(c).kind \notin Bounded
      PROVE  Same
  <2>1. \A q \in Request : /\ row'[q].plan = row[q].plan
                          /\ row'[q].status = IF q = RequestOf[c] THEN t ELSE row[q].status
    BY <1>1, <1>5 DEF SetStatus
  <2>2. RequestOf[c] \notin Accepted
    BY <1>5 DEF Accepted
  <2> QED
    BY <1>1, <1>5, <2>1, <2>2 DEF Accepted, PlanOf
<1>6. ASSUME NEW c \in Call, Operate(c) \/ Confirm(c) \/ Crash(c) PROVE Same
  <2>1. CASE Operate(c) \/ Crash(c) \/ Look(c) \/ ReadJob(c) \/ ReadSafety(c) \/ Prepare(c)
    BY <1>4, <2>1 DEF Operate, Preflight, Crash, Look, ReadJob, ReadSafety, Prepare, rowVars, jobVars
  <2>2. CASE Ensure(c)
    <3>1. /\ UNCHANGED <<payload, latest>>
          /\ \/ UNCHANGED row
             \/ /\ row[RequestOf[c]].status = "ABSENT"
                /\ row' = [row EXCEPT ![RequestOf[c]] = [status |-> "PREPARED", plan |-> plan[c]]]
      BY <2>2 DEF Ensure, jobVars
    <3> QED
      BY <1>1, <3>1 DEF Accepted
  <2> QED
    BY <1>6, <2>1, <2>2 DEF Confirm
<1>7. ASSUME NEW c \in Call, Execute(c), ~CompleteSource(c) PROVE Same
  <2>1. CASE Generate(c) \/ Judge(c) \/ \E fate \in {"DONE", "DEAD", "DOUBT"} : Answer(c, fate)
    BY <1>4, <2>1 DEF Generate, Judge, Answer, rowVars, jobVars
  <2>2. CASE Claim(c)
    BY <1>4, <1>5, <2>2 DEF Claim, Claimable, jobVars
  <2>3. CASE CompleteRevision(c)
    <3>1. PlanOf(c).kind \notin Bounded /\ UNCHANGED payload
      BY <2>3 DEF CompleteRevision, Bounded, jobVars
    <3> QED
      BY <1>4, <1>5, <2>3, <3>1 DEF CompleteRevision, rowVars
  <2>4. CASE Fail(c)
    BY <1>4, <1>5, <2>4 DEF Fail, FailureStatus, jobVars
  <2> QED
    BY <1>7, <2>1, <2>2, <2>3, <2>4 DEF Execute
<1>8. ASSUME NEW c \in Call, CompleteSource(c)
      PROVE  \/ Same
             \/ /\ pc[c] = "PASSED" /\ PlanOf(c).kind \in Bounded
                /\ Accepted' = Accepted \cup {RequestOf[c]} /\ latest' = RequestOf[c]
                /\ payload' = [payload EXCEPT ![PlanOf(c).kind] = RequestOf[c]] /\ job' = "RETRYING"
                /\ UNCHANGED <<media, passed>>
  <2>1. CASE UNCHANGED <<rowVars, job, error, payload>>
    BY <1>4, <2>1 DEF rowVars
  <2>2. CASE /\ SetStatus(RequestOf[c], "SUCCEEDED") /\ job' = "RETRYING" /\ latest' = RequestOf[c]
             /\ payload' = [payload EXCEPT ![PlanOf(c).kind] = RequestOf[c]]
    <3>1. PlanOf(c).kind \in Bounded /\ pc[c] = "PASSED" /\ UNCHANGED <<media, passed>>
      BY <1>8 DEF CompleteSource, history
    <3>2. Accepted' = Accepted \cup {RequestOf[c]}
      BY <1>1, <2>2, <3>1 DEF Accepted, SetStatus, PlanOf
    <3> QED
      BY <2>2, <3>1, <3>2
  <2> QED
    BY <1>8, <2>1, <2>2 DEF CompleteSource
<1> QED
  BY <1>2, <1>3, <1>6, <1>7, <1>8 DEF Next

\* The video of a row that has succeeded is nobody's any more, and a verdict stays.
LEMMA MediaStays ==
  ASSUME TypeOK, RowsInv, CallInv, [Next]_vars
  PROVE  /\ \A r \in Request, s \in Shot :
              row[r].status = "SUCCEEDED" => media'[<<s, r>>] = media[<<s, r>>]
         /\ passed \subseteq passed'
<1> DEFINE Goal == /\ \A r \in Request, s \in Shot :
                        row[r].status = "SUCCEEDED" => media'[<<s, r>>] = media[<<s, r>>]
                   /\ passed \subseteq passed'
<1>1. /\ media \in [Video -> {"NONE", "DOUBT", "DONE", "DEAD"}]
      /\ \A r \in Request, s \in Shot : <<s, r>> \in Video /\ r # Original
  BY DEF TypeOK, Video, Original
<1>2. ASSUME UNCHANGED media, passed \subseteq passed' PROVE Goal
  BY <1>2
<1>3. CASE RunStep \/ UNCHANGED vars
  <2>1. UNCHANGED passed
    BY <1>3 DEF RunStep, StartOrRetry, Continue, ClaimRun, CompleteRun, FailRun, FailQuality, FailVideo, vars, history
  <2>2. CASE GenerateAll
    <3>1. media' = [v \in Video |-> IF v \in Missing \X {Original} THEN "DONE" ELSE media[v]]
      BY <2>2 DEF GenerateAll
    <3>2. \A r \in Request, s \in Shot : <<s, r>> \notin Missing \X {Original}
      BY <1>1
    <3>3. \A r \in Request, s \in Shot : media'[<<s, r>>] = media[<<s, r>>]
      BY <1>1, <3>1, <3>2
    <3> QED
      BY <2>1, <3>3
  <2>3. ASSUME NEW x \in Shot, NEW fate \in {"DEAD", "DOUBT"}, FailVideo(x, fate)
        PROVE  Goal
    <3>1. media' = [media EXCEPT ![<<x, Original>>] = fate]
      BY <2>3 DEF FailVideo
    <3>2. \A r \in Request, s \in Shot : <<s, r>> # <<x, Original>>
      BY <1>1
    <3>3. \A r \in Request, s \in Shot : media'[<<s, r>>] = media[<<s, r>>]
      BY <1>1, <3>1, <3>2
    <3> QED
      BY <2>1, <3>3
  <2>4. CASE UNCHANGED media
    BY <1>2, <2>1, <2>4
  <2> QED
    BY <1>3, <2>2, <2>3, <2>4 DEF RunStep, StartOrRetry, Continue, ClaimRun, CompleteRun, FailRun, FailQuality, vars
<1>4. ASSUME NEW c \in Call, NEW x, pc[c] \in Working, UNCHANGED passed, media' = [media EXCEPT ![VideoOf(c)] = x]
      PROVE  Goal
  <2>1. row[RequestOf[c]].status = "RUNNING"
    BY <1>4 DEF CallInv, Holds
  <2>2. \A r \in Request, s \in Shot : row[r].status = "SUCCEEDED" => <<s, r>> # VideoOf(c)
    BY <2>1 DEF VideoOf
  <2> QED
    BY <1>1, <1>4, <2>2
<1>5. ASSUME NEW c \in Call, Operate(c) \/ Confirm(c) \/ Crash(c) PROVE Goal
  BY <1>2, <1>5 DEF Operate, Preflight, Confirm, Look, ReadJob, ReadSafety, Prepare, Ensure, Crash, history
<1>6. ASSUME NEW c \in Call, Execute(c) PROVE Goal
  <2>1. CASE Claim(c) \/ Judge(c) \/ CompleteRevision(c) \/ CompleteSource(c) \/ Fail(c)
    BY <1>2, <2>1 DEF Claim, Judge, CompleteRevision, CompleteSource, Fail, history
  <2>2. CASE Generate(c)
    <3>1. UNCHANGED passed /\ pc[c] \in Working
      BY <2>2 DEF Generate, Working
    <3>2. CASE UNCHANGED media
      BY <1>2, <3>1, <3>2
    <3>3. CASE media' = [media EXCEPT ![VideoOf(c)] = "DOUBT"]
      BY <1>4, <3>1, <3>3
    <3> QED
      BY <2>2, <3>2, <3>3 DEF Generate
  <2>3. ASSUME NEW fate \in {"DONE", "DEAD", "DOUBT"}, Answer(c, fate) PROVE Goal
    <3>1. pc[c] \in Working /\ UNCHANGED passed /\ media' = [media EXCEPT ![VideoOf(c)] = fate]
      BY <2>3 DEF Answer, history, Working
    <3> QED
      BY <1>4, <3>1
  <2> QED
    BY <1>6, <2>1, <2>2, <2>3 DEF Execute
<1>7. ASSUME NEW q \in Recovery, Recover(q) PROVE Goal
  BY <1>2, <1>7 DEF Recover, Inspect, Persist, history
<1> QED
  BY <1>3, <1>5, <1>6, <1>7 DEF Next

\* The job names what has succeeded, with its video and its verdict.
LEMMA ResumedStep ==
  ASSUME TypeOK, PlanInv, RowsInv, CallInv, PaidInv, ResumedTogether, [Next]_vars
  PROVE  ResumedTogether'
<1>1. /\ row \in [Request -> [status : RowStatus, plan : Plan]] /\ RequestOf \in [Call -> Request]
      /\ payload \in [Slot -> Request \cup Recovery \cup {None}] /\ Bounded \subseteq Slot
      /\ \A k \in Bounded : payload[k] # None => payload[k] \in Accepted /\ row[payload[k]].plan.kind = k
      /\ \A r \in Accepted : /\ payload[row[r].plan.kind] # None
                             /\ media[<<row[r].plan.shot, r>>] = "DONE" /\ r \in passed
      /\ latest \in Accepted => payload[row[latest].plan.kind] = latest
  BY DEF TypeOK, ResumedTogether, Slot
<1>2. /\ \A r \in Request : Inserted(r) => row'[r].plan = row[r].plan /\ row[r].plan.shot \in Shot
      /\ \A r \in Accepted : /\ r \in Request /\ Inserted(r) /\ row[r].status = "SUCCEEDED"
                             /\ row[r].plan.kind \in Bounded
  BY RowsStay DEF RowsInv, Accepted, Inserted
<1>3. \A r \in Accepted : media'[<<row'[r].plan.shot, r>>] = "DONE" /\ r \in passed'
  BY <1>1, <1>2, MediaStays
<1>4. ASSUME Accepted' = Accepted, \A k \in Bounded : payload'[k] = payload[k],
             latest' = latest \/ latest' \notin Accepted
      PROVE  ResumedTogether'
  <2>1. \A k \in Bounded : payload'[k] # None => payload'[k] \in Accepted' /\ row'[payload'[k]].plan.kind = k
    BY <1>1, <1>2, <1>4
  <2>2. \A r \in Accepted' : payload'[row'[r].plan.kind] # None
    BY <1>1, <1>2, <1>4
  <2>3. latest' \in Accepted' => payload'[row'[latest'].plan.kind] = latest'
    BY <1>1, <1>2, <1>4
  <2> QED
    BY <1>3, <1>4, <2>1, <2>2, <2>3 DEF ResumedTogether
<1>5. ASSUME NEW c \in Call, pc[c] = "PASSED", PlanOf(c).kind \in Bounded,
             Accepted' = Accepted \cup {RequestOf[c]}, latest' = RequestOf[c],
             payload' = [payload EXCEPT ![PlanOf(c).kind] = RequestOf[c]], UNCHANGED <<media, passed>>
      PROVE  ResumedTogether'
  <2>1. /\ media[VideoOf(c)] = "DONE" /\ RequestOf[c] \in passed /\ Inserted(RequestOf[c])
    BY <1>5 DEF CallInv, Holds, Working, Inserted
  <2>2. media'[<<row'[RequestOf[c]].plan.shot, RequestOf[c]>>] = "DONE" /\ RequestOf[c] \in passed'
    BY <1>1, <1>2, <1>5, <2>1 DEF VideoOf, PlanOf
  <2>3. RequestOf[c] \in Request /\ RequestOf[c] # None /\ row'[RequestOf[c]].plan.kind = PlanOf(c).kind
    BY <1>1, <1>2, <2>1 DEF PlanOf
  <2>4. \A k \in Bounded : payload'[k] = IF k = PlanOf(c).kind THEN RequestOf[c] ELSE payload[k]
    BY <1>1, <1>5
  <2>5. \A k \in Bounded : payload'[k] # None => payload'[k] \in Accepted' /\ row'[payload'[k]].plan.kind = k
    BY <1>1, <1>2, <1>5, <2>3, <2>4
  <2>6. ASSUME NEW r \in Accepted' PROVE payload'[row'[r].plan.kind] # None
    <3>1. CASE r = RequestOf[c]
      BY <1>5, <2>3, <2>4, <3>1
    <3>2. CASE r \in Accepted
      <4>1. row'[r].plan.kind = row[r].plan.kind /\ row[r].plan.kind \in Bounded
        BY <1>2, <3>2
      <4> QED
        BY <1>1, <2>3, <2>4, <3>2, <4>1
    <3> QED
      BY <1>5, <3>1, <3>2
  <2>7. latest' \in Accepted' => payload'[row'[latest'].plan.kind] = latest'
    BY <1>5, <2>3, <2>4
  <2> QED
    BY <1>3, <1>5, <2>2, <2>5, <2>6, <2>7 DEF ResumedTogether
<1> QED
  BY <1>4, <1>5, AcceptedStep

\* Which executor runs the production is settled by its input.
LEMMA AwareStays == [Next]_vars => aware' = aware
<1> SUFFICES ASSUME [Next]_vars
             PROVE  aware' = aware
  OBVIOUS
<1>1. CASE RunStep \/ UNCHANGED vars
  BY <1>1 DEF RunStep, StartOrRetry, Continue, ClaimRun, CompleteRun, FailRun, FailQuality, FailVideo, vars, jobVars
<1>2. ASSUME NEW c \in Call, Operate(c) \/ Confirm(c) \/ Crash(c) PROVE aware' = aware
  BY <1>2 DEF Operate, Preflight, Confirm, Look, ReadJob, ReadSafety, Prepare, Ensure, Crash, jobVars
<1>3. ASSUME NEW c \in Call, Execute(c) PROVE aware' = aware
  BY <1>3 DEF Execute, Claim, Generate, Judge, Answer, CompleteRevision, CompleteSource, Fail, jobVars
<1>4. ASSUME NEW q \in Recovery, Recover(q) PROVE aware' = aware
  BY <1>4 DEF Recover, Inspect, Persist, jobVars
<1> QED
  BY <1>1, <1>2, <1>3, <1>4 DEF Next

\* What a run has found for its shots is what it would find now.
LEMMA ShownStep ==
  ASSUME TypeOK, PlanInv, RowsInv, CallInv, ShownInv, [Next]_vars
  PROVE  ShownInv'
<1>1. CASE job' \notin {"RUNNING", "COMPLETED"}
  BY <1>1 DEF ShownInv
<1>2. CASE job' \in {"RUNNING", "COMPLETED"}
  <2>1. Accepted' = Accepted
    BY <1>2, AcceptedStep
  <2>2. \A r \in Accepted : row'[r].plan = row[r].plan
    BY RowsStay DEF Accepted, Inserted
  <2>3. \A s : /\ Replacements(s) = {r \in Accepted : row[r].plan.shot = s /\ row[r].plan.base[row[r].plan.shot] = Original}
               /\ Replacements(s)' = {r \in Accepted' : row'[r].plan.shot = s /\ row'[r].plan.base[row'[r].plan.shot] = Original}
    BY DEF Replacements, Accepted, SourceOf
  <2>4. \A s : Replacements(s)' = Replacements(s)
    BY <2>1, <2>2, <2>3
  <2>5. \A s : Shown(s)' = Shown(s)
    <3>1. \A s : \A r \in Replacements(s) : row'[r].plan = row[r].plan
      BY <2>2, <2>3
    <3> TAKE s
    <3> DEFINE Last == {r \in Replacements(s) : \A q \in Replacements(s) : row[q].plan.no <= row[r].plan.no}
               LastAfter == {r \in Replacements(s) : \A q \in Replacements(s) : row'[q].plan.no <= row'[r].plan.no}
    <3>2. LastAfter = Last
      BY <3>1
    <3>3. Shown(s) = IF ~aware \/ Replacements(s) = {} THEN {Original} ELSE Last
      BY DEF Shown
    <3>4. Shown(s)' = IF ~aware' \/ Replacements(s) = {} THEN {Original} ELSE LastAfter
      BY <2>4 DEF Shown
    <3>5. aware' = aware
      BY AwareStays
    <3> HIDE DEF Last, LastAfter
    <3> QED
      BY <3>2, <3>3, <3>4, <3>5, Zenon
  <2>6. \/ job \in {"RUNNING", "COMPLETED"} /\ shown' = shown
        \/ \A s \in Shot : shown'[s] \in Shown(s)
    <3>1. CASE RunStep
      BY <1>2, <3>1 DEF RunStep, StartOrRetry, Continue, ClaimRun, CompleteRun, FailRun, FailQuality, FailVideo
    <3>2. ASSUME NEW c \in Call, Operate(c) \/ Confirm(c) \/ Execute(c) \/ Crash(c)
          PROVE  job \in {"RUNNING", "COMPLETED"} /\ shown' = shown
      <4>1. CASE Operate(c) \/ Confirm(c) \/ Crash(c)
        BY <1>2, <4>1 DEF Operate, Preflight, Confirm, Look, ReadJob, ReadSafety, Prepare, Ensure, Crash, jobVars
      <4>2. CASE Execute(c)
        BY <1>2, <4>2 DEF Execute, Claim, Generate, Judge, Answer, CompleteRevision, CompleteSource, Fail, jobVars
      <4> QED
        BY <3>2, <4>1, <4>2
    <3>3. ASSUME NEW q \in Recovery, Recover(q)
          PROVE  job \in {"RUNNING", "COMPLETED"} /\ shown' = shown
      BY <1>2, <3>3 DEF Recover, Inspect, Persist, jobVars
    <3>4. CASE UNCHANGED vars
      BY <1>2, <3>4 DEF vars, jobVars
    <3> QED
      BY <3>1, <3>2, <3>3, <3>4 DEF Next
  <2>7. \A s \in Shot : shown'[s] \in Shown(s)
    BY <2>6 DEF ShownInv
  <2> QED
    BY <2>5, <2>7 DEF ShownInv
<1> QED
  BY <1>1, <1>2

-----------------------------------------------------------------------------
LEMMA InitInv == Init => IInv
<1> SUFFICES ASSUME Init
             PROVE  IInv
  OBVIOUS
<1>1. /\ row = [r \in Request |-> Absent] /\ latest = None /\ pc = [c \in Caller |-> "IDLE"]
      /\ aware \in BOOLEAN /\ job = "QUEUED" /\ payload = [k \in Slot |-> None] /\ scheduled = 0 /\ runs = 0
      /\ media = [v \in Video |-> "NONE"]
      /\ plan = [c \in Call |-> NoPlan] /\ seen = [c \in Caller |-> NoError]
      /\ paid = {} /\ passed = {} /\ stale = {} /\ crashed = {}
      /\ shown = [s \in Shot |-> Original] /\ error = NoError
  BY DEF Init
<1>2. Cardinality(Request) \in Nat
  BY FS_CardinalityType
<1>3. NoPlan \in Plan
  <2>1. 0 \in 0..1 + Cardinality(Request)
    BY <1>2
  <2> QED
    BY <2>1 DEF NoPlan, Plan, Lineage, Kind
<1>4. \A r \in Request : row[r].status = "ABSENT" /\ ~Inserted(r)
  BY <1>1 DEF Absent, Inserted
<1>5. \A s : Rows(s) = {} /\ Replacements(s) = {} /\ Successful(s) = {}
  BY <1>4 DEF Rows, Replacements, Successful
<1>6. row \in [Request -> [status : RowStatus, plan : Plan]]
  BY <1>1, <1>3 DEF Absent, RowStatus
<1>7. \A s \in Shot : {row[r].plan.no : r \in Rows(s)} = 1..Cardinality(Rows(s))
  BY <1>5, FS_EmptySet
<1>8. \A c \in Call : pc[c] = "IDLE"
  BY <1>1 DEF Caller
<1>9. TypeOK
  <2>1. /\ 0 \in 0..MaxRuns /\ NoError \in Error /\ "IDLE" \in Places /\ [s \in Shot |-> Original] \in Lineage
    BY DEF Error, Places, Lineage
  <2> QED
    BY <1>1, <1>3, <1>6, <1>7, <2>1 DEF TypeOK
<1>10. PlanInv /\ CallInv
  BY <1>8 DEF PlanInv, WellPlanned, Planned, CallInv, Holds, Working
<1>11. RowsInv
  BY <1>1, <1>4 DEF RowsInv, Active
<1>12. BaseInv
  BY <1>1, <1>4 DEF BaseInv, Active, Current
<1>13. OneReplacementInv /\ RevisionsAccumulateUnlessStale
  BY <1>5 DEF OneReplacementInv, RevisionsAccumulateUnlessStale
<1>14. AttendedInv /\ PaidInv
  BY <1>1, <1>4 DEF AttendedInv, PaidInv, Video
<1>15. JobInv /\ ShownInv
  BY <1>1 DEF JobInv, ShownInv, Caller
<1>16. ResumedTogether
  <2>1. Accepted = {} /\ Bounded \subseteq Slot
    BY <1>4 DEF Accepted, Slot
  <2> QED
    BY <1>1, <2>1 DEF ResumedTogether
<1> QED
  BY <1>9, <1>10, <1>11, <1>12, <1>13, <1>14, <1>15, <1>16 DEF IInv

LEMMA StepInv == IInv /\ [Next]_vars => IInv'
<1> SUFFICES ASSUME IInv, [Next]_vars
             PROVE  IInv'
  OBVIOUS
<1>1. /\ TypeOK /\ PlanInv /\ RowsInv /\ BaseInv /\ OneReplacementInv /\ RevisionsAccumulateUnlessStale
      /\ CallInv /\ AttendedInv /\ PaidInv /\ JobInv /\ ResumedTogether /\ ShownInv
  BY DEF IInv
<1>2. /\ row' \in [Request -> [status : RowStatus, plan : Plan]]
      /\ latest' \in Request \cup {None} /\ stale' \subseteq Request
      /\ Numbered' /\ RowsInv'
  BY <1>1, RowsStep, Zenon
<1>3. plan' \in [Call -> Plan] /\ PlanInv'
  BY <1>1, PlanStep, Zenon
<1>4. BaseInv' /\ OneReplacementInv' /\ RevisionsAccumulateUnlessStale'
  BY <1>1, AccumulateStep, Zenon
<1>5. CallTypes' /\ CallInv' /\ AttendedInv' /\ PaidInv'
  BY <1>1, CallsStep, Zenon
<1>6. JobTypes' /\ JobInv'
  BY <1>1, JobStep, Zenon
<1>7. ResumedTogether' /\ ShownInv'
  BY <1>1, ResumedStep, ShownStep, Zenon
<1>8. TypeOK'
  BY <1>2, <1>3, <1>5, <1>6 DEF TypeOK, CallTypes, JobTypes, Numbered
<1> QED
  BY <1>2, <1>3, <1>4, <1>5, <1>6, <1>7, <1>8 DEF IInv

LEMMA Inductive == Spec => []IInv
  BY InitInv, StepInv, PTL DEF Spec

-----------------------------------------------------------------------------
\* Every variable has the values the two tables, the calls and their histories allow,
\* and the rows of a shot are numbered without gaps, although several preflights may
\* have counted the same number.
THEOREM TypeCorrect == Spec => []TypeOK
<1>1. IInv => TypeOK
  BY DEF IInv
<1> QED
  BY <1>1, Inductive, PTL

\* A RUNNING row has exactly one call that will end it, and any other has none, unless
\* the call died: two confirmations of a request never execute it twice, and no row is
\* left RUNNING.
THEOREM ExecutedOnce == Spec => []ExecutedByOne
<1>1. IInv => ExecutedByOne
  <2> SUFFICES ASSUME IInv, NEW r \in Request \ crashed
               PROVE  Cardinality({c \in Call : RequestOf[c] = r /\ pc[c] \in Working})
                        = IF row[r].status = "RUNNING" THEN 1 ELSE 0
    BY DEF ExecutedByOne
  <2> DEFINE W == {c \in Call : RequestOf[c] = r /\ pc[c] \in Working}
  <2>1. CallInv /\ AttendedInv
    BY DEF IInv
  <2>2. CASE row[r].status = "RUNNING"
    <3>1. PICK c \in Call : RequestOf[c] = r /\ pc[c] \in Working
      BY <2>1, <2>2 DEF AttendedInv, Attended
    <3>2. W = {c}
      BY <2>1, <3>1 DEF CallInv, Holds, Alone
    <3>3. Cardinality(W) = 1
      BY <3>2, FS_Singleton
    <3> QED
      BY <2>2, <3>3
  <2>3. CASE row[r].status # "RUNNING"
    <3>1. W = {}
      BY <2>1, <2>3 DEF CallInv, Holds
    <3>2. Cardinality(W) = 0
      BY <3>1, FS_EmptySet
    <3> QED
      BY <2>3, <3>2
  <2> QED
    BY <2>2, <2>3
<1> QED
  BY <1>1, Inductive, PTL

\* A key of the job's payload names an accepted replacement of its kind, every kind that
\* has one is named, and the replacement that succeeded last is: the row and the job are
\* written together.  An earlier one of the same kind is named by its row alone.
THEOREM Resumed == Spec => []ResumedTogether
<1>1. IInv => ResumedTogether
  BY DEF IInv
<1> QED
  BY <1>1, Inductive, PTL

\* The automatic route pays for one replacement of a source and a kind, whatever number
\* of requests and confirmations is sent at once.
THEOREM OneReplacement == Spec => []OneAutomaticReplacement
<1>1. IInv => OneAutomaticReplacement
  BY DEF IInv, TypeOK, PaidInv, RowsInv, OneAutomaticReplacement
<1> QED
  BY <1>1, Inductive, PTL

\* As long as no row was inserted with a plan that had been overtaken, the current input
\* shows for every shot the last replacement that succeeded.
THEOREM Accumulate == Spec => []RevisionsAccumulateUnlessStale
<1>1. IInv => RevisionsAccumulateUnlessStale
  BY DEF IInv
<1> QED
  BY <1>1, Inductive, PTL

\* Where the executor looks replacements up, the master of a completed job shows every
\* accepted automatic replacement of a first video, or a later accepted one of its shot,
\* whatever the payload still names: the run that continued left out none.
THEOREM MasterShows == Spec => []MasterShowsReplacements
<1>1. IInv => MasterShowsReplacements
  <2> SUFFICES ASSUME IInv, aware, job = "COMPLETED", NEW r \in Accepted,
                      SourceOf(row[r].plan) = Original
               PROVE  LET s == row[r].plan.shot IN
                      /\ shown[s] \in Accepted /\ row[shown[s]].plan.no >= row[r].plan.no
                      /\ stale = {} => shown[s] = r
    BY DEF MasterShowsReplacements
  <2> DEFINE s == row[r].plan.shot
  <2>1. TypeOK /\ RowsInv /\ ShownInv /\ OneReplacementInv
    BY DEF IInv
  <2>2. row[r].status = "SUCCEEDED" /\ row[r].plan.kind \in Bounded /\ r \in Request
    BY DEF Accepted
  <2>3. r \in Replacements(s) /\ s \in Shot
    BY <2>1, <2>2 DEF Replacements, RowsInv, Inserted
  <2>4. shown[s] \in Shown(s)
    BY <2>1, <2>3 DEF ShownInv
  <2>5. /\ shown[s] \in Replacements(s)
        /\ \A q \in Replacements(s) : row[q].plan.no <= row[shown[s]].plan.no
    BY <2>3, <2>4 DEF Shown
  <2>6. shown[s] \in Accepted
    BY <2>5 DEF Accepted, Replacements
  <2>7. row[shown[s]].plan.no >= row[r].plan.no
    BY <2>3, <2>5
  <2>8. stale = {} => shown[s] = r
    BY <2>1, <2>3, <2>5 DEF OneReplacementInv
  <2> QED
    BY <2>6, <2>7, <2>8
<1> QED
  BY <1>1, Inductive, PTL
=============================================================================
