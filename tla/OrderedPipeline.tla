--------------------------- MODULE OrderedPipeline ---------------------------
(***************************************************************************)
(* What a V2.1 job promises the production it belongs to: its stages are   *)
(* executed one at a time and in their order, a completed stage is never   *)
(* executed again, work in hand may be lost at any time and is taken up    *)
(* again, the job ends once and with nothing in hand, and its production   *)
(* is delivered only by a job that has completed every stage.  There are   *)
(* no workers, attempts or leases here.                                    *)
(***************************************************************************)
EXTENDS Naturals

CONSTANT N   \* number of stages

VARIABLES done,      \* how many stages are completed: the first ones
          working,   \* the stage in hand, or 0
          outcome,   \* of the job
          delivered  \* is its production completed?

vars == <<done, working, outcome, delivered>>

Init == done = 0 /\ working = 0 /\ outcome = "OPEN" /\ delivered = FALSE

Begin ==
  /\ outcome = "OPEN" /\ working = 0 /\ done < N
  /\ working' = done + 1
  /\ UNCHANGED <<done, outcome, delivered>>

Advance ==
  /\ working # 0
  /\ done' = working /\ working' = 0
  /\ UNCHANGED <<outcome, delivered>>

\* The stage fails, or whoever works on it is lost.
Abandon ==
  /\ working # 0 /\ working' = 0
  /\ UNCHANGED <<done, outcome, delivered>>

Finish ==
  /\ outcome = "OPEN" /\ done = N /\ working = 0
  /\ outcome' = "COMPLETED"
  /\ UNCHANGED <<done, working, delivered>>

GiveUp ==
  /\ outcome = "OPEN"
  /\ outcome' = "GIVEN_UP" /\ working' = 0
  /\ UNCHANGED <<done, delivered>>

Deliver ==
  /\ outcome = "COMPLETED" /\ delivered' = TRUE
  /\ UNCHANGED <<done, working, outcome>>

Next == Begin \/ Advance \/ Abandon \/ Finish \/ GiveUp \/ Deliver

Spec == Init /\ [][Next]_vars

(***************************************************************************)
(* The promise in one formula: the stage in hand is the next one of a job  *)
(* that is open, a completed job has every stage behind it, and only such  *)
(* a job has delivered.                                                    *)
(***************************************************************************)
Promise ==
  /\ done \in 0 .. N
  /\ working # 0 => outcome = "OPEN" /\ done < N /\ working = done + 1
  /\ outcome = "COMPLETED" => done = N
  /\ delivered => outcome = "COMPLETED"
=============================================================================
