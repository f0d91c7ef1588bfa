--------------------------- MODULE MCSafetyStore ---------------------------
(***************************************************************************)
(* Instances of SafetyStore: two connections, two grants, two lineages.    *)
(***************************************************************************)
EXTENDS SafetyStore, TLC

CONSTANTS c1, c2, g1, g2, h1, h2, l1, l2, s1, s2, s3

Two == Permutations({c1, c2})

Seeded(g, l, s, n) ==
  [operation |-> "seed", grant_id |-> g, grant_hash |-> h1, lineage_id |-> l,
   session_id |-> s, hard_limit |-> n]
Admission(s, n, g, h) ==
  [operation |-> "admit", session_id |-> s, generation |-> n, grant_id |-> g,
   grant_hash |-> h]
Created(s, l, g, h) ==
  [operation |-> "new_session", session_id |-> s, lineage_id |-> l,
   grant_id |-> g, grant_hash |-> h]

\* g1 opens l1 with the limit 1 or 2, g2 opens l2 with the limit 0; seeding
\* again must be refused.  The session s2 is created under g1, in its own
\* lineage or in the other, or with a hash that is not the grant's.
MCRequests ==
  {Seeded(g1, l1, s1, 1), Seeded(g1, l1, s1, 2), Seeded(g2, l2, s3, 0)}
    \cup {[operation |-> "revoke", grant_id |-> g1],
          [operation |-> "interrupt", session_id |-> s1],
          [operation |-> "resume", session_id |-> s1, generation |-> 1]}
    \cup {Admission(s1, 1, g1, h1), Admission(s1, 2, g1, h1),
          Admission(s1, 1, g1, h2), Admission(s2, 1, g1, h1),
          Admission(s3, 1, g2, h1)}
    \cup {Created(s2, l1, g1, h1), Created(s2, l2, g1, h1),
          Created(s2, l1, g1, h2)}
=============================================================================
