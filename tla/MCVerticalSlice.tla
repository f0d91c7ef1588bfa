-------------------------- MODULE MCVerticalSlice --------------------------
(****************************************************************************)
(* VerticalSlice on small sets.                                             *)
(****************************************************************************)
EXTENDS VerticalSlice

CONSTANTS r1, r2, a1, a2, k1, x1, x2, i1, i2

\* Runtimes r1 and r2 mediate for agents a1 and a2.
MCAgentOf == [r \in Runtimes |-> IF r = r1 THEN a1 ELSE a2]

Attempt(x, k, i, d) ==
  [execution_id |-> x, idempotency_key |-> k, input |-> i, defect |-> d]

\* An action, the same key with another input, the same key under another
\* execution, and two requests the runtime refuses.
RetryAttempts ==
  {Attempt(x1, k1, i1, "none"), Attempt(x1, k1, i2, "none"), Attempt(x2, k1, i1, "none"),
   Attempt(x1, k1, i1, "credential")}

\* One action, repeated as it is.
RepeatAttempts == {Attempt(x1, k1, i1, "none")}

\* One action and one refused request.
LaneAttempts ==
  {Attempt(x1, k1, i1, "none"), Attempt(x1, k1, i1, "session_proof")}
=============================================================================
