--------------------------- MODULE VerdictContract ---------------------------
(* The promise of a prepare call, whatever its workers do: it answers once,   *)
(* with the verdict that the batch alone determines.                          *)
EXTENDS PrepareVerdict

CONSTANT Verdict(_)     \* the answer due for a batch

VARIABLES batch, result

contractVars == <<batch, result>>

Init == result = Pending

Answer ==
    /\ result = Pending /\ result' # Pending
    /\ result' = Verdict(batch)
    /\ UNCHANGED batch

Answers == <>(result # Pending)

SafeSpec == Init /\ [][Answer]_contractVars

Spec == SafeSpec /\ Answers
==============================================================================
