---------------------------- MODULE MediaExecution ----------------------------
(***************************************************************************)
(* The durable per-asset media executor (src/v2.5/durable-media-executor.js) *)
(* together with the row it keeps in v2_5.media_executions and the         *)
(* immutable artifact it writes through ArtifactService.                   *)
(*                                                                         *)
(* One production asset is modelled: one row, one deterministic artifact   *)
(* key.  Every invocation of DurableMediaExecutor.execute for that asset   *)
(* is a Call.  Calls run concurrently, each step is one awaited statement, *)
(* and a call may die between any two steps (process crash).  Two calls    *)
(* may carry the same worker id: the dashboard and the CLI derive it from  *)
(* the process, not from the call.                                         *)
(*                                                                         *)
(* A paid generation is named by the call that submitted it, and so are    *)
(* the provider request id and the bytes that it yields.                   *)
(***************************************************************************)
CONSTANTS Call,      \* invocations of execute() for the one asset
          Worker,    \* values of workerId
          WorkerOf,  \* the worker id each call was given
          None,      \* SQL NULL / no file / nothing held
          Torn       \* the bytes of an artifact file that is not fully written

ASSUME WorkerAssumption == WorkerOf \in [Call -> Worker]
ASSUME NoneAssumption == None \notin Call \cup Worker
ASSUME TornAssumption == Torn \notin Call \cup {None}

VARIABLES
  \* the row of v2_5.media_executions:
  status, worker, request, boundary,
  adopted,   \* artifact_content_hash
  file,      \* the generation whose bytes the artifact file was created for
  whole,     \* has the artifact file been written to its end?
  provider,  \* what became of the paid generation of each call
  pc,        \* where each call stands in execute()
  seen,      \* the status each call got from ensure()
  seenRequest, \* and the provider_request_id
  media,     \* the generation (or bytes) each call is working on
  failure,   \* what the catch block of each call will report
  resets     \* history: RETRYABLE was written over a row beyond the boundary

row == <<status, worker, request, boundary, adopted>>
copy == <<seen, seenRequest>>
vars == <<row, file, whole, provider, pc, copy, media, failure, resets>>

Status == {"ABSENT", "NOT_STARTED", "RUNNING", "MAY_HAVE_STARTED", "SUCCEEDED",
           "RETRYABLE", "FAILED", "NEEDS_RECONCILIATION"}
Unresolved == {"MAY_HAVE_STARTED", "NEEDS_RECONCILIATION"}
ClaimableUnresolved == {"NOT_STARTED", "RETRYABLE", "NEEDS_RECONCILIATION"}  \* a mistake
Claimable == {"NOT_STARTED", "RETRYABLE"}
\* Statuses that a row has only once some call has marked the boundary.
Crossed == Unresolved \cup {"SUCCEEDED", "FAILED"}

Outcome == {"none", "pending", "succeeded", "failed"}
Location == {"idle", "ensured", "cached", "claiming", "claimed", "submitting",
             "recording", "polling", "inspecting", "storing", "filling",
             "documenting", "adopting", "registering", "failing",
             "done", "failed", "unreported", "crashed"}
Ended == {"idle", "done", "failed", "unreported", "crashed"}
Failure == {"none", "before", "beyond", "terminal"}

TypeOK ==
  /\ status \in Status
  /\ worker \in Worker \cup {None}
  /\ request \in Call \cup {None}
  /\ boundary \in BOOLEAN
  /\ adopted \in Call \cup {None, Torn}
  /\ file \in Call \cup {None}
  /\ whole \in BOOLEAN
  /\ provider \in [Call -> Outcome]
  /\ pc \in [Call -> Location]
  /\ seen \in [Call -> Status]
  /\ seenRequest \in [Call -> Call \cup {None}]
  /\ media \in [Call -> Call \cup {None, Torn}]
  /\ failure \in [Call -> Failure]
  /\ resets \in BOOLEAN

Init ==
  /\ status = "ABSENT"
  /\ worker = None
  /\ request = None
  /\ boundary = FALSE
  /\ adopted = None
  /\ file = None
  /\ whole = FALSE
  /\ provider = [c \in Call |-> "none"]
  /\ pc = [c \in Call |-> "idle"]
  /\ seen = [c \in Call |-> "ABSENT"]
  /\ seenRequest = [c \in Call |-> None]
  /\ media = [c \in Call |-> None]
  /\ failure = [c \in Call |-> "none"]
  /\ resets = FALSE

Goto(c, l) == pc' = [pc EXCEPT ![c] = l]
FailWith(c, f) == Goto(c, "failing") /\ failure' = [failure EXCEPT ![c] = f]
Mine(c) == worker = WorkerOf[c]
Bytes == IF whole THEN file ELSE Torn

(***************************************************************************)
(* ensure(): insert the row unless it exists, then read it back.  What is  *)
(* read here is what the rest of the call decides on.                      *)
(***************************************************************************)
Ensure(c) ==
  /\ pc[c] = "idle"
  /\ status' = IF status = "ABSENT" THEN "NOT_STARTED" ELSE status
  /\ seen' = [seen EXCEPT ![c] = status']
  /\ seenRequest' = [seenRequest EXCEPT ![c] = request]
  /\ Goto(c, "ensured") \/ Goto(c, "failed")
  /\ UNCHANGED <<worker, request, boundary, adopted, file, whole, provider, media, failure, resets>>

(***************************************************************************)
(* cached(): an artifact file under the deterministic key, complete or     *)
(* not, is read and wins over whatever the row says.                       *)
(***************************************************************************)
FindCached(c) ==
  /\ pc[c] = "ensured"
  /\ file # None
  /\ media' = [media EXCEPT ![c] = Bytes]
  /\ Goto(c, "cached")
  /\ UNCHANGED <<row, file, whole, provider, copy, failure, resets>>

(***************************************************************************)
(* No file: branch on the status that ensure() returned.                   *)
(***************************************************************************)
Branch(c) ==
  /\ pc[c] = "ensured"
  /\ file = None
  /\ \/ /\ seen[c] = "SUCCEEDED"        \* MEDIA_ARTIFACT_MISSING
        /\ Goto(c, "failed")
        /\ UNCHANGED <<media, failure>>
     \/ /\ seen[c] \in Unresolved       \* MEDIA_PROVIDER_STATE_UNRESOLVED
        /\ seenRequest[c] = None
        /\ FailWith(c, "before")
        /\ UNCHANGED media
     \/ /\ seen[c] \in Unresolved       \* poll the request already paid for
        /\ seenRequest[c] # None
        /\ media' = [media EXCEPT ![c] = seenRequest[c]]
        /\ Goto(c, "polling")
        /\ UNCHANGED failure
     \/ /\ seen[c] \notin Unresolved \cup {"SUCCEEDED"}
        /\ Goto(c, "claiming")
        /\ UNCHANGED <<media, failure>>
  /\ UNCHANGED <<row, file, whole, provider, copy, resets>>

(***************************************************************************)
(* A write to the row whose effect is committed: the call goes on, or the  *)
(* answer of the database is lost and the call fails with f.               *)
(***************************************************************************)
Written(c, l, f) ==
  \/ Goto(c, l) /\ UNCHANGED failure
  \/ FailWith(c, f)

\* Mistakes: the claim does not return its row; the mark is forgotten.
ClaimNotReturned(c) ==
  /\ pc[c] = "claiming"
  /\ status' = IF status \in Claimable THEN "RUNNING" ELSE status
  /\ worker' = IF status \in Claimable THEN WorkerOf[c] ELSE worker
  /\ Goto(c, "failed")
  /\ UNCHANGED <<request, boundary, adopted, file, whole, provider, copy, media, failure, resets>>
ClaimUnmarked(c) ==
  /\ pc[c] = "claiming"
  /\ status \in Claimable
  /\ status' = "RUNNING"
  /\ worker' = WorkerOf[c]
  /\ Goto(c, "submitting")
  /\ UNCHANGED <<request, boundary, adopted, file, whole, provider, copy, media, failure, resets>>

(***************************************************************************)
(* claim(): when no row is returned the local `row` is null, and the catch *)
(* block fails on row.id before it can report anything: nothing is written. *)
(***************************************************************************)
Claim(c) ==
  /\ pc[c] = "claiming"
  /\ \/ /\ status \in Claimable
        /\ status' = "RUNNING"
        /\ worker' = WorkerOf[c]
        /\ Written(c, "claimed", "before")
     \/ /\ status \notin Claimable
        /\ Goto(c, "failed")
        /\ UNCHANGED <<status, worker, failure>>
     \/ /\ FailWith(c, "before")
        /\ UNCHANGED <<status, worker>>
  /\ UNCHANGED <<request, boundary, adopted, file, whole, provider, copy, media, resets>>

(***************************************************************************)
(* markBoundary(): the durable mark that precedes every paid call.  It is  *)
(* fenced (MEDIA_EXECUTION_FENCED) once the row is another worker's.       *)
(***************************************************************************)
MarkBoundary(c) ==
  /\ pc[c] = "claimed"
  /\ \/ /\ Mine(c) /\ status = "RUNNING"
        /\ status' = "MAY_HAVE_STARTED"
        /\ boundary' = TRUE
        /\ Written(c, "submitting", "before")
     \/ /\ FailWith(c, "before")
        /\ UNCHANGED <<status, boundary>>
  /\ UNCHANGED <<worker, request, adopted, file, whole, provider, copy, media, resets>>

(***************************************************************************)
(* The paid request.  It may never leave, be accepted with its answer      *)
(* lost, be accepted with a request id, or (synchronous providers) be      *)
(* answered with the bytes, with or without a request id.                  *)
(***************************************************************************)
Submit(c) ==
  /\ pc[c] = "submitting"
  /\ \/ /\ FailWith(c, "beyond")
        /\ UNCHANGED <<provider, media>>
     \/ /\ provider' = [provider EXCEPT ![c] = "pending"]
        /\ FailWith(c, "beyond")
        /\ UNCHANGED media
     \/ /\ provider' = [provider EXCEPT ![c] = "pending"]
        /\ media' = [media EXCEPT ![c] = c]
        /\ Goto(c, "recording")
        /\ UNCHANGED failure
     \/ /\ provider' = [provider EXCEPT ![c] = "succeeded"]
        /\ media' = [media EXCEPT ![c] = c]
        /\ Goto(c, "recording") \/ Goto(c, "inspecting")
        /\ UNCHANGED failure
  /\ UNCHANGED <<row, file, whole, copy, resets>>

(***************************************************************************)
(* onProviderRequest -> recordProviderRequest().                           *)
(***************************************************************************)
RecordRequest(c) ==
  /\ pc[c] = "recording"
  /\ \/ /\ Mine(c) /\ status \in Unresolved
        /\ request' = c
        /\ Written(c, IF provider[c] = "succeeded" THEN "inspecting" ELSE "polling", "beyond")
     \/ /\ FailWith(c, "beyond")               \* MEDIA_EXECUTION_FENCED
        /\ UNCHANGED request
  /\ UNCHANGED <<status, worker, boundary, adopted, file, whole, provider, copy, media, resets>>

(***************************************************************************)
(* Polling and downloading, after a generate or a recover.  What became of *)
(* a request never changes once known; a timeout, a network error or a     *)
(* failed download says nothing about it.                                  *)
(***************************************************************************)
Poll(c) ==
  /\ pc[c] = "polling"
  /\ LET r == media[c] IN
     \/ /\ provider[r] \in {"pending", "succeeded"}
        /\ provider' = [provider EXCEPT ![r] = "succeeded"]
        /\ Goto(c, "inspecting")
        /\ UNCHANGED failure
     \/ /\ provider[r] \in {"pending", "failed"}
        /\ provider' = [provider EXCEPT ![r] = "failed"]
        /\ \/ FailWith(c, "terminal")          \* PREDICTION_FAILED / _CANCELED
           \/ FailWith(c, "beyond")         \* PROVIDER_FAILED
     \/ /\ FailWith(c, "beyond")
        /\ UNCHANGED provider
  /\ UNCHANGED <<row, file, whole, copy, media, resets>>

\* Mistake: the row is completed before the artifact is stored.
InspectUnstored(c) ==
  /\ pc[c] = "inspecting"
  /\ Goto(c, "adopting")
  /\ UNCHANGED <<row, file, whole, provider, copy, media, failure, resets>>

(***************************************************************************)
(* The byte check, ffprobe and the optional output validator, whose        *)
(* geometry mismatch is terminal.                                          *)
(***************************************************************************)
Inspect(c) ==
  /\ pc[c] = "inspecting"
  /\ \/ Goto(c, "storing") /\ UNCHANGED failure
     \/ FailWith(c, "beyond")
     \/ FailWith(c, "terminal")
  /\ UNCHANGED <<row, file, whole, provider, copy, media, resets>>

\* Mistake: put() writes with 'w' in place of 'wx'.
StoreOverwriting(c) ==
  /\ pc[c] = "storing"
  /\ file' = media[c]
  /\ Goto(c, "filling")
  /\ UNCHANGED <<row, whole, provider, copy, media, failure, resets>>

(***************************************************************************)
(* createVersion() of the artifact: an existing file is accepted when it   *)
(* holds the same bytes and is a conflict otherwise; put() creates the     *)
(* file exclusively ('wx') and then fills it.                              *)
(***************************************************************************)
StoreArtifact(c) ==
  /\ pc[c] = "storing"
  /\ \/ /\ file = None
        /\ file' = media[c]
        /\ Goto(c, "filling")
        /\ UNCHANGED failure
     \/ /\ file # None
        /\ Bytes = media[c]
        /\ Goto(c, "documenting")
        /\ UNCHANGED <<file, failure>>
     \/ /\ file # None
        /\ Bytes # media[c]
        /\ FailWith(c, "beyond")            \* ARTIFACT_IDEMPOTENCY_CONFLICT
        /\ UNCHANGED file
  /\ UNCHANGED <<row, whole, provider, copy, media, resets>>

FillArtifact(c) ==
  /\ pc[c] = "filling"
  /\ \/ /\ whole' = TRUE
        /\ Goto(c, "documenting")
        /\ UNCHANGED failure
     \/ /\ FailWith(c, "beyond")            \* the write itself fails
        /\ UNCHANGED whole
  /\ UNCHANGED <<row, file, provider, copy, media, resets>>

(***************************************************************************)
(* createVersion() of the provenance text.  A recovered answer need not be *)
(* the JSON of the generated one, so this may conflict too.                *)
(***************************************************************************)
StoreProvenance(c) ==
  /\ pc[c] = "documenting"
  /\ \/ Goto(c, "adopting") /\ UNCHANGED failure
     \/ FailWith(c, "beyond")
  /\ UNCHANGED <<row, file, whole, provider, copy, media, resets>>

(***************************************************************************)
(* adopt() with this call's worker id: it has no guard on the status.      *)
(***************************************************************************)
Succeed(b, ids) ==
  /\ status' = "SUCCEEDED"
  /\ worker' = None
  /\ adopted' = b
  /\ request' \in ids            \* coalesce(media.requestId, provider_request_id)
  /\ UNCHANGED boundary

Adopt(c) ==
  /\ pc[c] = "adopting"
  /\ \/ /\ Mine(c) \/ worker = None
        /\ Succeed(media[c], {request, media[c]})
        /\ Written(c, "registering", "beyond")
     \/ /\ FailWith(c, "beyond")               \* MEDIA_EXECUTION_FENCED
        /\ UNCHANGED row
  /\ UNCHANGED <<file, whole, provider, copy, media, resets>>

(***************************************************************************)
(* adopt() of a cached artifact passes no worker id and is unconditional.  *)
(* The request it writes is that of the provenance text or, without one,   *)
(* that of the row ensure() read, which may be out of date.  Its           *)
(* inspection (unless that row held a probe) and its registration in the   *)
(* asset registry are outside the try block: their errors write nothing.   *)
(***************************************************************************)
Recorded(c) == IF seenRequest[c] = None THEN request ELSE seenRequest[c]

AdoptCached(c) ==
  /\ pc[c] = "cached"
  /\ \/ /\ Succeed(media[c], {Recorded(c)} \cup ({media[c]} \ {Torn}))
        /\ \/ Goto(c, "done")
           \/ Goto(c, "failed")
     \/ /\ Goto(c, "failed")
        /\ UNCHANGED row
  /\ UNCHANGED <<file, whole, provider, copy, media, failure, resets>>

Register(c) ==
  /\ pc[c] = "registering"
  /\ \/ Goto(c, "done") /\ UNCHANGED failure
     \/ FailWith(c, "beyond")
  /\ UNCHANGED <<row, file, whole, provider, copy, media, resets>>

(***************************************************************************)
(* The catch block: markFailure() names the new status from what the call  *)
(* knows, whatever the status is now, and releases the row.  An error of   *)
(* markFailure() itself is swallowed.                                      *)
(***************************************************************************)
FailureStatus(f) ==
  CASE f = "terminal" -> "FAILED"
    [] f = "beyond" -> "NEEDS_RECONCILIATION"
    [] OTHER -> "RETRYABLE"

MarkFailure(c) ==
  /\ pc[c] = "failing"
  /\ \/ /\ Mine(c) \/ worker = None
        /\ status' = FailureStatus(failure[c])
        /\ worker' = None
        /\ resets' = (resets \/ (status \in Crossed /\ status' \notin Crossed))
        /\ Goto(c, "failed")
     \/ /\ ~(Mine(c) \/ worker = None)
        /\ Goto(c, "failed")
        /\ UNCHANGED <<status, worker, resets>>
     \/ /\ Goto(c, "unreported")
        /\ UNCHANGED <<status, worker, resets>>
  /\ UNCHANGED <<request, boundary, adopted, file, whole, provider, copy, media, failure>>

(***************************************************************************)
(* The process of a call dies; nothing of the call is left but what it     *)
(* wrote.                                                                  *)
(***************************************************************************)
Crash(c) ==
  /\ pc[c] \notin Ended
  /\ Goto(c, "crashed")
  /\ UNCHANGED <<row, file, whole, provider, copy, media, failure, resets>>

Step(c) ==
  \/ Ensure(c) \/ FindCached(c) \/ Branch(c) \/ Claim(c) \/ MarkBoundary(c)
  \/ Submit(c) \/ RecordRequest(c) \/ Poll(c) \/ Inspect(c)
  \/ StoreArtifact(c) \/ FillArtifact(c) \/ StoreProvenance(c)
  \/ Adopt(c) \/ AdoptCached(c) \/ Register(c) \/ MarkFailure(c)

Next == \E c \in Call : Step(c) \/ Crash(c)

Spec == Init /\ [][Next]_vars
FairSpec == Spec /\ \A c \in Call : WF_vars(Step(c))
-----------------------------------------------------------------------------
Paid(c) == provider[c] # "none"

(***************************************************************************)
(* Whatever the database shows after a crash, no money was spent without   *)
(* provider_boundary_at: markBoundary() commits before generate() is       *)
(* awaited, in every interleaving.                                         *)
(***************************************************************************)
BoundaryBeforePayment == (\E c \in Call : Paid(c)) => boundary

(***************************************************************************)
(* Concurrent calls, stale copies of the row, shared worker ids, crashes   *)
(* and lost answers, of the provider or of the database, never buy the     *)
(* asset twice, as long as no failing call has put a row that is beyond    *)
(* the boundary back to RETRYABLE.                                         *)
(***************************************************************************)
OnePaymentUntilReset ==
  ~resets => \A c, d \in Call : Paid(c) /\ Paid(d) => c = d

(***************************************************************************)
(* A row that says SUCCEEDED can be served again: its artifact file        *)
(* exists, and the content it names is that file's, or what was there of   *)
(* it when it was read half written.                                       *)
(***************************************************************************)
SucceededIsServable ==
  /\ status = "SUCCEEDED" => adopted # None
  /\ adopted # None => /\ file # None
                       /\ adopted \in {file, Torn}

(***************************************************************************)
(* The bytes under the artifact key are those of a generation the provider *)
(* reported as succeeded, never those of one that was only submitted.      *)
(***************************************************************************)
StoredBytesWereGenerated == file # None => provider[file] = "succeeded"

(***************************************************************************)
(* Refinement: the artifact key is a write-once register.  createVersion() *)
(* lets the first bytes win, so all calls that return complete media       *)
(* return the same media, even after a duplicate generation, and no later  *)
(* call changes what an earlier one was given.  A call that was served a   *)
(* half-written file counts as not answered.                               *)
(***************************************************************************)
Answered == [c \in Call |->
  IF pc[c] = "done" /\ media[c] # Torn THEN media[c] ELSE None]

Artifact == INSTANCE ImmutableArtifact
              WITH Client <- Call, Value <- Call, value <- file, answer <- Answered

ImplementsImmutableArtifact == Artifact!Spec

(***************************************************************************)
(* Every claim is given up or carried over the boundary, unless a process  *)
(* has died or could not report its failure: no other path leaves the row  *)
(* RUNNING, a status that nothing can claim and nothing ever recovers.     *)
(***************************************************************************)
ClaimReleasedUnlessCrash ==
  status = "RUNNING" ~>
    (status # "RUNNING" \/ \E c \in Call : pc[c] \in {"crashed", "unreported"})
=============================================================================
