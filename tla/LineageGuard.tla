---------------------------- MODULE LineageGuard ---------------------------
(***************************************************************************)
(* What the safety store promises of a lineage, without grants, sessions,  *)
(* generations and transactions: it is opened once with a limit, is spent  *)
(* one admission at a time, and is closed for good by the first attempt    *)
(* beyond the limit.                                                       *)
(***************************************************************************)
EXTENDS Naturals

CONSTANTS Lineages, Limits, None

VARIABLE lineage      \* lineage -> None or what is left of it

Init == lineage = [l \in Lineages |-> None]

Open(l, n) ==
  /\ lineage[l] = None
  /\ lineage' = [lineage EXCEPT ![l] = [left |-> n, closed |-> FALSE]]

Spend(l) ==
  /\ lineage[l] # None /\ ~lineage[l].closed /\ lineage[l].left > 0
  /\ lineage' =
       [lineage EXCEPT ![l] = [left |-> lineage[l].left - 1, closed |-> FALSE]]

Close(l) ==
  /\ lineage[l] # None /\ ~lineage[l].closed /\ lineage[l].left = 0
  /\ lineage' = [lineage EXCEPT ![l] = [left |-> 0, closed |-> TRUE]]

Next ==
  \E l \in Lineages :
    (\E n \in Limits : Open(l, n)) \/ Spend(l) \/ Close(l)

Spec == Init /\ [][Next]_lineage
=============================================================================
