----------------------------- MODULE Publication -----------------------------
(***************************************************************************)
(* The publication of one artifact version to one destination: the row of  *)
(* v2_1.publications under its unique key, the calls of                    *)
(* executePublicationWithDb() that claim it and run the publisher          *)
(* (src/v2.1/publish-executor.js), and the recovery of an UNKNOWN outcome  *)
(* (worker/v2.1-recovery-executor.js).                                     *)
(*                                                                         *)
(* The destination is taken at its weakest: it keeps one copy per call,    *)
(* as one that ignores the idempotency key does.  What it answers to a     *)
(* lookup is true.  The worker lease and the callbacks that confirm, retry *)
(* and fail are passed in by the caller of RecoveryExecutor and are        *)
(* external; they act on an UNKNOWN row only, and their write may land     *)
(* long after the lease was checked.                                       *)
(***************************************************************************)
EXTENDS Naturals

CONSTANTS Call,         \* calls of executePublication for the one key
          Reconciler,   \* recovery workers
          MaxAttempts,  \* maxAttempts given to the recovery
          None

ASSUME AttemptsAssumption == MaxAttempts \in Nat \ {0}
ASSUME NoneAssumption == None \notin Reconciler

VARIABLES
  \* the row of v2_1.publications:
  status, attempt,
  remote,  \* the calls whose publication is at the destination
  pc,      \* where each call stands
  answer,  \* what the publisher told each call
  holder,  \* the reconciler with the live worker lease
  rpc,     \* where each reconciler stands
  found,   \* what the destination told it
  budget,  \* the attempt of the publication it was given
  blind,   \* history: FAILED was written for a delivery made or in doubt
  late     \* history: a lease ran out while its SAFE_RETRY was being carried out

row == <<status, attempt>>
recovery == <<holder, rpc, found, budget>>
vars == <<row, remote, pc, answer, recovery, blind, late>>

Status == {"ABSENT", "PUBLISHING", "PUBLISHED", "FAILED", "UNKNOWN"}
Answer == {"none", "confirmed", "ambiguous", "tagged", "rejected", "thrown"}
Attempt == Nat \ {0}

TypeOK ==
  /\ status \in Status
  /\ attempt \in Attempt
  /\ remote \subseteq Call
  /\ pc \in [Call -> {"idle", "publishing", "recording", "failing",
                      "ended", "unreported", "crashed"}]
  /\ answer \in [Call -> Answer]
  /\ holder \in Reconciler \cup {None}
  /\ rpc \in [Reconciler -> {"idle", "asking", "deciding", "acting"}]
  /\ found \in [Reconciler -> {"NONE", "CONFIRMED", "NOT_FOUND"}]
  /\ budget \in [Reconciler -> Attempt]
  /\ blind \in BOOLEAN
  /\ late \in BOOLEAN

Init ==
  /\ status = "ABSENT"
  /\ attempt = 1
  /\ remote = {}
  /\ pc = [c \in Call |-> "idle"]
  /\ answer = [c \in Call |-> "none"]
  /\ holder = None
  /\ rpc = [r \in Reconciler |-> "idle"]
  /\ found = [r \in Reconciler |-> "NONE"]
  /\ budget = [r \in Reconciler |-> 1]
  /\ blind = FALSE
  /\ late = FALSE

Goto(c, l) == pc' = [pc EXCEPT ![c] = l]
RGoto(r, l) == rpc' = [rpc EXCEPT ![r] = l]

\* The run is over, and what it knew with it.
REnd(r) ==
  /\ RGoto(r, "idle")
  /\ found' = [found EXCEPT ![r] = "NONE"]
  /\ budget' = [budget EXCEPT ![r] = 1]

Reclaimable == {"FAILED"}

(***************************************************************************)
(* The gate blocks, or claim_publication() inserts the row, claims it      *)
(* again, or leaves it (PUBLISHED is reused, all else is in progress).     *)
(* When the answer of a committed claim is lost nothing is reported.       *)
(***************************************************************************)
Claim(c) ==
  /\ pc[c] = "idle"
  /\ \/ /\ status \in Reclaimable \cup {"ABSENT"}
        /\ status' = "PUBLISHING"
        /\ attempt' = IF status = "ABSENT" THEN 1 ELSE attempt + 1
        /\ Goto(c, "publishing") \/ Goto(c, "unreported")
     \/ /\ Goto(c, "ended")
        /\ UNCHANGED row
  /\ UNCHANGED <<remote, answer, recovery, blind, late>>

(***************************************************************************)
(* publisher(): delivers or not, and answers, throws an error tagged       *)
(* UNKNOWN, or throws any other (a connection that breaks, say).           *)
(***************************************************************************)
Truthful(a, delivered) ==
  CASE a = "confirmed" -> delivered
    [] a = "rejected" -> ~delivered
    [] OTHER -> TRUE

Publish(c) ==
  /\ pc[c] = "publishing"
  /\ \E a \in Answer \ {"none"}, delivered \in BOOLEAN :
       /\ Truthful(a, delivered)
       /\ answer' = [answer EXCEPT ![c] = a]
       /\ remote' = IF delivered THEN remote \cup {c} ELSE remote
  /\ Goto(c, "recording")
  /\ UNCHANGED <<row, recovery, blind, late>>

Verdict(a) ==
  CASE a = "confirmed" -> "PUBLISHED"
    [] a \in {"ambiguous", "tagged"} -> "UNKNOWN"
    [] OTHER -> "FAILED"

InDoubt == {"confirmed", "ambiguous"}   \* results: delivered, or perhaps delivered

\* The outcome is written whatever the row says: UPDATE ... WHERE publication_key.
Write(c, s) ==
  /\ status' = s
  /\ blind' = (blind \/ (s = "FAILED" /\ (c \in remote \/ answer[c] \in InDoubt)))

\* Mistake: an error is passed on without a word to the row.
RecordUncaught(c) ==
  /\ pc[c] = "recording"
  /\ IF Verdict(answer[c]) = "FAILED"
       THEN /\ UNCHANGED <<status, blind>>
            /\ Goto(c, "ended")
       ELSE /\ Write(c, Verdict(answer[c]))
            /\ Goto(c, "ended")
  /\ UNCHANGED <<attempt, remote, answer, recovery, late>>

(***************************************************************************)
(* The outcome is recorded.  For a result this is inside the try block: an *)
(* error of the database, even one that comes after the commit, is caught  *)
(* and recorded as FAILED.  In the catch block it leaves nothing recorded. *)
(***************************************************************************)
Record(c) ==
  /\ pc[c] = "recording"
  /\ LET onError == IF answer[c] \in InDoubt THEN "failing" ELSE "unreported"
     IN \/ /\ Write(c, Verdict(answer[c]))
           /\ Goto(c, "ended") \/ Goto(c, onError)
        \/ /\ UNCHANGED <<status, blind>>
           /\ Goto(c, onError)
  /\ UNCHANGED <<attempt, remote, answer, recovery, late>>

RecordFailure(c) ==
  /\ pc[c] = "failing"
  /\ \/ Write(c, "FAILED") /\ Goto(c, "ended")
     \/ UNCHANGED <<status, blind>> /\ Goto(c, "unreported")
  /\ UNCHANGED <<attempt, remote, answer, recovery, late>>

Crash(c) ==
  /\ pc[c] \in {"publishing", "recording", "failing"}
  /\ Goto(c, "crashed")
  /\ UNCHANGED <<row, remote, answer, recovery, blind, late>>

(***************************************************************************)
(* RecoveryExecutor.run: a publication in doubt, taken under the lease.    *)
(***************************************************************************)
StartRecovery(r) ==
  /\ rpc[r] = "idle"
  /\ status = "UNKNOWN"
  /\ holder = None
  /\ holder' = r
  /\ budget' = [budget EXCEPT ![r] = attempt]
  /\ RGoto(r, "asking")
  /\ UNCHANGED <<row, remote, pc, answer, found, blind, late>>

\* reconcile(publication): an answer in doubt defers, an error ends the run.
Ask(r) ==
  /\ rpc[r] = "asking"
  /\ \/ /\ found' = [found EXCEPT ![r] = IF remote = {} THEN "NOT_FOUND" ELSE "CONFIRMED"]
        /\ RGoto(r, "deciding")
        /\ UNCHANGED budget
     \/ REnd(r)
  /\ UNCHANGED <<row, remote, pc, answer, holder, blind, late>>

\* Mistake: ownership is not asserted again after the answer.
OwnsAlways(r) == TRUE
Owns(r) == holder = r

\* classifyReconciliation(), as the status that its callback leaves.
Decision(r) ==
  CASE found[r] = "CONFIRMED" -> "PUBLISHED"                       \* CONFIRM
    [] found[r] = "NOT_FOUND" /\ budget[r] < MaxAttempts -> "FAILED"  \* SAFE_RETRY
    [] OTHER -> "UNKNOWN"     \* FAIL keeps the delivery UNKNOWN for review

\* assertRecoveryOwnership() with the clock of this moment; the callback is called.
Act(r) ==
  /\ rpc[r] = "deciding"
  /\ Owns(r)
  /\ RGoto(r, "acting")
  /\ UNCHANGED <<row, remote, pc, answer, holder, found, budget, blind, late>>

\* The awaited callback's write: nothing asks for the lease again.
Settle(r) ==
  /\ rpc[r] = "acting"
  /\ status' = IF status = "UNKNOWN" THEN Decision(r) ELSE status
  /\ holder' = IF holder = r THEN None ELSE holder
  /\ REnd(r)
  /\ UNCHANGED <<attempt, remote, pc, answer, blind, late>>

\* It is no longer the owner, its callback fails, or its process dies.
GiveUp(r) ==
  /\ rpc[r] # "idle"
  /\ REnd(r)
  /\ UNCHANGED <<row, remote, pc, answer, holder, blind, late>>

Retrying(r) == rpc[r] = "acting" /\ Decision(r) = "FAILED"

ExpireLease ==
  /\ holder # None
  /\ holder' = None
  /\ late' = (late \/ Retrying(holder))
  /\ UNCHANGED <<row, remote, pc, answer, rpc, found, budget, blind>>

CallStep(c) ==
  Claim(c) \/ Publish(c) \/ Record(c) \/ RecordFailure(c)

Publishing == \E c \in Call : CallStep(c) \/ Crash(c)
Asking == ExpireLease \/ \E r \in Reconciler : StartRecovery(r) \/ Ask(r) \/ GiveUp(r)

Next == Publishing \/ Asking \/ \E r \in Reconciler : Act(r) \/ Settle(r)

Spec == Init /\ [][Next]_vars
FairSpec == Spec /\ \A c \in Call : WF_vars(CallStep(c))

-----------------------------------------------------------------------------
(***************************************************************************)
(* The key is the fence: no two calls are ever between their claim and the *)
(* end of their attempt, whatever recovery decides meanwhile, as long as   *)
(* no call has written FAILED for a delivery that was made or in doubt and *)
(* no lease has run out under a SAFE_RETRY that was still being written.   *)
(***************************************************************************)
InAttempt(c) == pc[c] \in {"publishing", "recording"}
OneExecutionUnlessBlindOrLate ==
  ~blind /\ ~late => \A c, d \in Call : InAttempt(c) /\ InAttempt(d) => c = d

(***************************************************************************)
(* Claims, recovery and the lease together deliver at most one copy, under *)
(* the same conditions: the lease is asked for again after the destination *)
(* has answered, but not when the decision is written.                     *)
(***************************************************************************)
OneCopyUnlessBlindOrLate ==
  ~blind /\ ~late => \A c, d \in remote : c = d

(***************************************************************************)
(* A publication is PUBLISHED only when the destination has it.            *)
(***************************************************************************)
PublishedIsThere == status = "PUBLISHED" => remote # {}

(***************************************************************************)
(* An attempt does not stay PUBLISHING, which nothing can claim and        *)
(* nothing reconciles, unless its process died or could not reach the      *)
(* database.                                                               *)
(***************************************************************************)
AttemptEndsUnlessCrash ==
  status = "PUBLISHING" ~>
    (status # "PUBLISHING" \/ \E c \in Call : pc[c] \in {"crashed", "unreported"})
=============================================================================
