------------------------------ MODULE PaidStage ------------------------------
(***************************************************************************)
(* What a paid stage of a workflow promises whoever pays the provider's    *)
(* bill: one call at a time has the stage in hand, nothing is bought       *)
(* before the row says that it may be, a preflight that was bought, or     *)
(* that ended in any way but a refusal of the operator's own file, never   *)
(* has the stage again, and a stage whose outcome is unknown stays as it   *)
(* is.  There are no calls, rows or crashes here.                          *)
(***************************************************************************)
CONSTANTS Preflight, None

VARIABLES phase,    \* of the call that has the stage in hand
          current,  \* the preflight it works on, or None
          spent,    \* the preflights that have had their try
          bought    \* those the provider was paid for

vars == <<phase, current, spent, bought>>

Init == phase = "free" /\ current = None /\ spent = {} /\ bought = {}

Claim(p) ==
  /\ phase = "free" /\ p \notin spent
  /\ phase' = "held" /\ current' = p
  /\ UNCHANGED <<spent, bought>>

Mark ==
  /\ phase = "held" /\ phase' = "marked"
  /\ UNCHANGED <<current, spent, bought>>

Pay ==
  /\ phase = "marked" /\ phase' = "paid"
  /\ bought' = bought \union {current}
  /\ UNCHANGED <<current, spent>>

\* Answered or failed, before or after the payment.
Settle ==
  /\ phase \in {"held", "marked", "paid"} /\ phase' = "free"
  /\ current' = None
  /\ spent' = spent \union {current}
  /\ UNCHANGED bought

\* The file is refused before anything can have been paid: it may be tried again.
Refuse ==
  /\ phase = "held" /\ phase' = "free"
  /\ current' = None
  /\ UNCHANGED <<spent, bought>>

Doubt ==
  /\ phase \in {"marked", "paid"} /\ phase' = "doubt"
  /\ UNCHANGED <<current, spent, bought>>

Next == (\E p \in Preflight : Claim(p)) \/ Mark \/ Pay \/ Settle \/ Refuse \/ Doubt

Spec == Init /\ [][Next]_vars

\* What has the stage in hand is a preflight.
TypeOK ==
  /\ phase \in {"free", "held", "marked", "paid", "doubt"}
  /\ current \in IF phase = "free" THEN {None} ELSE Preflight
  /\ spent \subseteq Preflight /\ bought \subseteq Preflight

(***************************************************************************)
(* What was bought has had its try, or is the one in hand, which is bought *)
(* only past the mark: so nothing is bought twice.                         *)
(***************************************************************************)
BoughtIsSpent ==
  /\ current \notin spent
  /\ bought \subseteq spent \union {current}
  /\ phase \in {"held", "marked"} => current \notin bought

(***************************************************************************)
(* Nothing happens any more to a stage in doubt.                           *)
(***************************************************************************)
DoubtIsFinal == [][phase # "doubt"]_vars
=============================================================================
