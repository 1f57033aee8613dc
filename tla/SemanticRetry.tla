----------------------------- MODULE SemanticRetry -----------------------------
(***************************************************************************)
(* The retry of a semantic evaluation that failed for reasons of           *)
(* infrastructure (src/v2.9/semantic-evaluation-retry.js), from the        *)
(* operator's command to the completed job, for one failed production with *)
(* one source video and one voice asset.  Everything an attempt is for is  *)
(* the same here: the video, its earlier evidence and the evaluator.  The  *)
(* attempts are rows of v2_9.semantic_evaluation_attempts, in the order of *)
(* their numbers.  A statement may fail, made or not, and a call may die   *)
(* between any two.  The voice asset is the row of MediaExecution, in the  *)
(* steps that a retry can tell apart.                                      *)
(***************************************************************************)
EXTENDS Naturals, Sequences

CONSTANTS Call,          \* confirmed commands of the operator
          HistoryLimit   \* attempts that history() reads

ASSUME LimitAssumption == HistoryLimit \in Nat \ {0}

VARIABLES
  attempts,   \* rows: [status, evidence, reused], reused 0 for none
  job, production,
  voice,      \* status of the media execution of the voice
  built,      \* the master exists, validated and registered for review
  at,         \* where each call stands
  quoted,     \* the paid calls each preflight announced to the operator
  reuse,      \* the attempt whose PASS each call means to reuse, or 0
  mine,       \* the attempt each call started, or 0
  verdict,    \* the evaluation in the hands of each call
  spoken,     \* calls that reached the provider of speech
  outdated,   \* history: an attempt was started on a history no longer true
  lost        \* history: a call died, or a write of its attempt did not arrive

rows == <<attempts, job, production, voice, built>>
local == <<quoted, reuse, mine, verdict>>
history == <<outdated, lost>>
vars == <<rows, at, local, spoken, history>>

Evidence == {"none", "pass", "content", "infra"}  \* content: an authoritative FAIL
Voice == {"MISSING", "RETRYABLE", "RUNNING", "MAY_HAVE_STARTED", "NEEDS_RECONCILIATION",
          "SUCCEEDED", "FAILED"}
AMBIGUOUS == {"MAY_HAVE_STARTED", "NEEDS_RECONCILIATION"}
Location == {"idle", "quoting", "planning", "starting", "evaluating", "judging", "materializing", "loading",
             "asking", "resolving", "speaking", "building", "finishing", "completing", "closing",
             "failing", "ended"}
Number == DOMAIN attempts
PaidCall == {"evaluation", "speech"}

TypeOK ==
  /\ attempts \in Seq([status : {"RUNNING", "SUCCEEDED", "FAILED"}, evidence : Evidence, reused : Nat])
  /\ job \in {"FAILED", "COMPLETED"} /\ production \in {"FAILED", "COMPLETED"}
  /\ voice \in Voice
  /\ built \in BOOLEAN
  /\ at \in [Call -> Location]
  /\ quoted \in [Call -> SUBSET PaidCall]
  /\ reuse \in [Call -> Number \cup {0}] /\ mine \in [Call -> Number \cup {0}]
  /\ verdict \in [Call -> Evidence]
  /\ spoken \subseteq Call
  /\ outdated \in BOOLEAN /\ lost \in BOOLEAN

Init ==
  /\ attempts = <<>>
  /\ job = "FAILED" /\ production = "FAILED"
  /\ voice \in {"MISSING", "NEEDS_RECONCILIATION", "SUCCEEDED"}
  /\ built = FALSE
  /\ at = [c \in Call |-> "idle"]
  /\ quoted = [c \in Call |-> {}]
  /\ reuse = [c \in Call |-> 0]
  /\ mine = [c \in Call |-> 0]
  /\ verdict = [c \in Call |-> "none"]
  /\ spoken = {}
  /\ outdated = FALSE /\ lost = FALSE

Goto(c, l) == at' = [at EXCEPT ![c] = l]
Is(c, l) == at[c] = l

Newest(S) == CHOOSE i \in S : \A j \in S : j <= i

(***************************************************************************)
(* reusableSemanticPassFromHistory(): of the newest attempts, the first    *)
(* terminal one that says anything decides.                                *)
(***************************************************************************)
Telling == {i \in Number : /\ i + HistoryLimit > Len(attempts)
                           /\ attempts[i].status # "RUNNING"
                           /\ attempts[i].evidence \in {"pass", "content"}}
ContentFailed == Telling # {} /\ attempts[Newest(Telling)].evidence = "content"
\* Mistake: only a completed retry counts as evidence.
ReusableSucceeded ==
  LET passed == {i \in Telling : attempts[i].status = "SUCCEEDED"}
  IN IF passed = {} THEN 0 ELSE Newest(passed)
Reusable == IF Telling = {} \/ ContentFailed THEN 0 ELSE Newest(Telling)

(***************************************************************************)
(* preflightSemanticRetry(): partialMediaPlan() says whether the voice may *)
(* have to be bought, the latest attempt - no earlier one - whether an     *)
(* evaluation will.  retryPlan() looks at the error of the job, which      *)
(* completion leaves in place, not at its status.                          *)
(***************************************************************************)
MayBeSpoken == voice \in {"MISSING", "RETRYABLE", "RUNNING"}
LatestSays(e) ==
  /\ attempts # <<>>
  /\ attempts[Len(attempts)].status # "RUNNING" /\ attempts[Len(attempts)].evidence = e

QuoteMedia(c) ==
  /\ Is(c, "idle")
  /\ quoted' = [quoted EXCEPT ![c] = {k \in PaidCall : k = "speech" /\ MayBeSpoken}]
  /\ Goto(c, "quoting")
  /\ UNCHANGED <<rows, reuse, mine, verdict, spoken, history>>

\* And the operator's confirmation of what was announced.
Confirm(c) ==
  /\ Is(c, "quoting")
  /\ IF LatestSays("content")
       THEN Goto(c, "ended") /\ UNCHANGED quoted
       ELSE /\ Goto(c, "planning")
            /\ quoted' = [quoted EXCEPT ![c] = @ \cup {k \in PaidCall :
                            k = "evaluation" /\ ~LatestSays("pass")}]
  /\ UNCHANGED <<rows, reuse, mine, verdict, spoken, history>>

\* execute(): the source is loaded and the history read.
Plan(c) ==
  /\ Is(c, "planning")
  /\ \/ /\ ~ContentFailed                  \* else SEMANTIC_RETRY_CONTENT_FAILED
        /\ reuse' = [reuse EXCEPT ![c] = Reusable]
        /\ Goto(c, "starting")
     \/ Goto(c, "ended") /\ UNCHANGED reuse
  /\ UNCHANGED <<rows, quoted, mine, verdict, spoken, history>>

\* Index semantic_evaluation_attempts_one_running, and the trigger
\* enforce_semantic_resume_lineage.
NoneRunning == \A i \in Number : attempts[i].status # "RUNNING"
\* Mistake: any PASS may be resumed, that of a retry that succeeded too.
ResumableAny(r) == r # 0 => attempts[r].evidence = "pass"
Resumable(r) == r # 0 => attempts[r].status = "FAILED" /\ attempts[r].evidence = "pass"

(***************************************************************************)
(* start(): when its answer does not arrive the call has no attempt to     *)
(* finish.                                                                 *)
(***************************************************************************)
Start(c) ==
  /\ Is(c, "starting")
  /\ \/ /\ NoneRunning /\ Resumable(reuse[c])
        /\ attempts' = Append(attempts, [status |-> "RUNNING", evidence |-> "none", reused |-> reuse[c]])
        /\ outdated' = (outdated \/ ContentFailed \/ reuse[c] # Reusable)
        /\ \/ /\ mine' = [mine EXCEPT ![c] = Len(attempts) + 1]
              /\ verdict' = IF reuse[c] = 0 THEN verdict ELSE [verdict EXCEPT ![c] = "pass"]
              /\ Goto(c, IF reuse[c] = 0 THEN "evaluating" ELSE "judging")
              /\ UNCHANGED lost
           \/ Goto(c, "ended") /\ lost' = TRUE /\ UNCHANGED <<mine, verdict>>
     \/ Goto(c, "ended") /\ UNCHANGED <<attempts, mine, verdict, history>>
  /\ UNCHANGED <<job, production, voice, built, quoted, reuse, spoken>>

\* The frames are verified and the evaluator asked once.
Evaluate(c) ==
  /\ Is(c, "evaluating")
  /\ \/ \E v \in Evidence \ {"none"} : verdict' = [verdict EXCEPT ![c] = v] /\ Goto(c, "judging")
     \/ Goto(c, "failing") /\ UNCHANGED verdict
  /\ UNCHANGED <<rows, quoted, reuse, mine, spoken, history>>

(***************************************************************************)
(* finish(): fenced by the status, as is every write by the trigger.       *)
(***************************************************************************)
Open(c) == attempts[mine[c]].status = "RUNNING"
Finished(c, s) == IF ~Open(c) THEN attempts
  ELSE [attempts EXCEPT ![mine[c]].status = s, ![mine[c]].evidence = verdict[c]]

\* What is not a PASS ends the attempt.
Judge(c) ==
  /\ Is(c, "judging")
  /\ IF verdict[c] = "pass"
       THEN Goto(c, "materializing") /\ UNCHANGED attempts
       ELSE \/ attempts' = Finished(c, "FAILED") /\ (Goto(c, "ended") \/ Goto(c, "failing"))
            \/ Goto(c, "failing") /\ UNCHANGED attempts
  /\ UNCHANGED <<job, production, voice, built, local, spoken, history>>

\* Mistake: frames that cannot be read end the call, outside the try block.
MaterializeQuiet(c) ==
  /\ Is(c, "materializing")
  /\ Goto(c, "loading") \/ Goto(c, "ended")
  /\ UNCHANGED <<rows, local, spoken, history>>
\* The frames of the evidence are read for the master and their hashes compared.
Materialize(c) ==
  /\ Is(c, "materializing")
  /\ Goto(c, "loading") \/ Goto(c, "failing")
  /\ UNCHANGED <<rows, local, spoken, history>>

(***************************************************************************)
(* A voice that SUCCEEDED is reused, unless its bytes are missing.  For    *)
(* any other its row is read again: one in doubt or terminal is refused,   *)
(* the rest goes to the durable executor, whose claim decides.             *)
(***************************************************************************)
LoadExisting(c) ==
  /\ Is(c, "loading")
  /\ \/ voice = "SUCCEEDED" /\ Goto(c, "building")
     \/ Goto(c, "asking")
     \/ Goto(c, "failing")
  /\ UNCHANGED <<rows, local, spoken, history>>

Load(c) ==
  /\ Is(c, "asking")
  /\ \/ voice \notin AMBIGUOUS \cup {"SUCCEEDED", "FAILED"} /\ Goto(c, "resolving")
     \/ Goto(c, "failing")
  /\ UNCHANGED <<rows, local, spoken, history>>

Resolve(c) ==
  /\ Is(c, "resolving")
  /\ IF voice \in {"MISSING", "RETRYABLE"}
       THEN voice' = "RUNNING" /\ Goto(c, "speaking")
       ELSE Goto(c, IF voice = "SUCCEEDED" THEN "building" ELSE "failing") /\ UNCHANGED voice
  /\ UNCHANGED <<attempts, job, production, built, local, spoken, history>>

\* Mistake: an answer that does not come is taken for a call not made.
SpeakOptimistic(c) ==
  /\ Is(c, "speaking")
  /\ \/ voice' = "RETRYABLE" /\ Goto(c, "failing") /\ UNCHANGED spoken
     \/ /\ spoken' = spoken \cup {c}
        /\ \/ voice' = "SUCCEEDED" /\ Goto(c, "building")
           \/ voice' \in {"RETRYABLE", "FAILED"} /\ Goto(c, "failing")
  /\ UNCHANGED <<attempts, job, production, built, local, history>>

\* mediaExecutor.execute(): an error before its boundary, or the paid call.
Speak(c) ==
  /\ Is(c, "speaking")
  /\ \/ voice' = "RETRYABLE" /\ Goto(c, "failing") /\ UNCHANGED <<spoken, lost>>
     \/ /\ spoken' = spoken \cup {c}
        /\ \/ voice' = "SUCCEEDED" /\ Goto(c, "building") /\ UNCHANGED lost
           \/ voice' \in {"NEEDS_RECONCILIATION", "FAILED"} /\ Goto(c, "failing") /\ UNCHANGED lost
           \/ voice' = "MAY_HAVE_STARTED" /\ Goto(c, "ended") /\ lost' = TRUE   \* dies there
  /\ UNCHANGED <<attempts, job, production, built, local, outdated>>

\* Mistake: a quality report that failed ends the attempt well.
BuildUnvalidated(c) ==
  /\ Is(c, "building")
  /\ built' \in BOOLEAN
  /\ Goto(c, "finishing")
  /\ UNCHANGED <<attempts, job, production, voice, local, spoken, history>>
Build(c) ==
  /\ Is(c, "building")
  /\ \/ built' = TRUE /\ (Goto(c, "finishing") \/ Goto(c, "failing"))
     \/ Goto(c, "failing") /\ UNCHANGED built
  /\ UNCHANGED <<attempts, job, production, voice, local, spoken, history>>

Succeed(c) ==
  /\ Is(c, "finishing")
  /\ \/ attempts' = Finished(c, "SUCCEEDED") /\ (Goto(c, IF Open(c) THEN "completing" ELSE "failing")
                                                \/ Goto(c, "failing"))
     \/ Goto(c, "failing") /\ UNCHANGED attempts
  /\ UNCHANGED <<job, production, voice, built, local, spoken, history>>

\* The catch block: whatever finish() answers, the call ends with its error.
Fail(c) ==
  /\ Is(c, "failing")
  /\ \/ attempts' = Finished(c, "FAILED") /\ UNCHANGED lost
     \/ UNCHANGED attempts /\ lost' = (lost \/ Open(c))
  /\ Goto(c, "ended")
  /\ UNCHANGED <<job, production, voice, built, local, spoken, outdated>>

\* retrySemanticEvaluation(): two statements, no transaction.
CompleteJob(c) ==
  /\ Is(c, "completing")
  /\ \/ job = "FAILED" /\ job' = "COMPLETED" /\ (Goto(c, "closing") \/ Goto(c, "ended"))
     \/ Goto(c, "ended") /\ UNCHANGED job
  /\ UNCHANGED <<attempts, production, voice, built, local, spoken, history>>
CompleteProduction(c) ==
  /\ Is(c, "closing")
  /\ production' = "COMPLETED" \/ UNCHANGED production
  /\ Goto(c, "ended")
  /\ UNCHANGED <<attempts, job, voice, built, local, spoken, history>>

Crash(c) ==
  /\ at[c] \notin {"idle", "ended"}
  /\ lost' = (lost \/ mine[c] # 0)
  /\ Goto(c, "ended")
  /\ UNCHANGED <<rows, local, spoken, outdated>>

Step(c) ==
  \/ QuoteMedia(c) \/ Confirm(c) \/ Plan(c) \/ Start(c) \/ Evaluate(c) \/ Judge(c) \/ Materialize(c)
  \/ LoadExisting(c) \/ Load(c) \/ Resolve(c) \/ Speak(c) \/ Build(c)
  \/ Succeed(c) \/ Fail(c) \/ CompleteJob(c) \/ CompleteProduction(c)

Next == \E c \in Call : Step(c) \/ Crash(c)

Spec == Init /\ [][Next]_vars
-----------------------------------------------------------------------------
(***************************************************************************)
(* The evaluator is paid for one PASS and the provider of speech for one   *)
(* voice.  However the steps after them fail, a later retry reuses both,   *)
(* unless it was planned on a history that another retry has changed       *)
(* before it started.                                                      *)
(***************************************************************************)
OnePassUnlessOutdated ==
  /\ \A c, d \in spoken : c = d
  /\ ~outdated => \A i, j \in Number :
       /\ attempts[i].evidence = "pass" /\ attempts[i].reused = 0
       /\ attempts[j].evidence = "pass" /\ attempts[j].reused = 0
       => i = j

(***************************************************************************)
(* A retry pays for nothing that its preflight did not announce, although  *)
(* the preflight looks at the latest attempt and the retry at the history, *)
(* and others may have worked in between.                                  *)
(***************************************************************************)
PaidAsQuotedUnlessOutdated ==
  \A c \in Call :
    /\ c \in spoken => "speech" \in quoted[c]
    /\ ~outdated /\ at[c] = "evaluating" => "evaluation" \in quoted[c]

(***************************************************************************)
(* An authoritative FAIL, and a retry that succeeded, are the last word:   *)
(* no attempt follows them.  After a crash between the success and the     *)
(* completion of the job that holds too: nothing completes the job.        *)
(***************************************************************************)
LastWordUnlessOutdated ==
  ~outdated => \A i \in Number :
    attempts[i].evidence = "content" \/ attempts[i].status = "SUCCEEDED" => i = Len(attempts)

(***************************************************************************)
(* An attempt is left RUNNING, and so in the way of every later retry,     *)
(* only by a call that died or a write that did not arrive: each error     *)
(* path finishes what the call started.                                    *)
(***************************************************************************)
RunningIsAttended ==
  ~lost => \A i \in Number : attempts[i].status = "RUNNING" =>
    \E c \in Call : mine[c] = i /\ at[c] # "ended"

(***************************************************************************)
(* A completed job rests on a retry that succeeded with a PASS, a master   *)
(* and its voice; a completed production on a completed job.               *)
(***************************************************************************)
CompletedIsWhole ==
  /\ production = "COMPLETED" => job = "COMPLETED"
  /\ job = "COMPLETED" => built /\ voice = "SUCCEEDED"
  /\ job = "COMPLETED" =>
       \E i \in Number : attempts[i].status = "SUCCEEDED" /\ attempts[i].evidence = "pass"
=============================================================================
