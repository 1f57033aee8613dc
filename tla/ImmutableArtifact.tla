-------------------------- MODULE ImmutableArtifact --------------------------
(***************************************************************************)
(* What durable execution promises its callers: an asset identity has at   *)
(* most one value, fixed once, and whoever is answered is answered with    *)
(* that value and is never told another one.                               *)
(***************************************************************************)
CONSTANTS Client,  \* those who ask for the asset
          Value,   \* the values it could have
          None

VARIABLES value,   \* the value fixed for the asset, or None
          answer   \* what each client has been told, or None

artifactVars == <<value, answer>>

Init ==
  /\ value = None
  /\ answer = [c \in Client |-> None]

Fix(v) ==
  /\ value = None
  /\ value' = v
  /\ UNCHANGED answer

Answer(c) ==
  /\ value # None
  /\ answer[c] = None
  /\ answer' = [answer EXCEPT ![c] = value]
  /\ UNCHANGED value

Next ==
  \/ \E v \in Value : Fix(v)
  \/ \E c \in Client : Answer(c)

Spec == Init /\ [][Next]_artifactVars
=============================================================================
