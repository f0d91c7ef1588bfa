---------------------------- MODULE SafetyStore ----------------------------
(***************************************************************************)
(* The safety-state store of the calcu study (safety_spike/spike.py): one  *)
(* SQLite database, opened by several connections, that decides whether a  *)
(* session of a grant may do one more unit of work in its lineage.         *)
(*                                                                         *)
(* Every operation of SafetyStore is one transaction between BEGIN         *)
(* IMMEDIATE and COMMIT or ROLLBACK.  Begin takes the write lock and the   *)
(* view of the database the transaction will read, Commit writes what it   *)
(* decided on that view, Fail is an error of SQLite in between.  A         *)
(* connection's process may die at any moment.  What SQLite guarantees (one *)
(* writer at a time, all or nothing, durable once committed) is external.  *)
(*                                                                         *)
(* The columns revision (never read) and valid (always 1) are left out.    *)
(***************************************************************************)
EXTENDS Naturals, FiniteSets

CONSTANTS
  GrantIds, Hashes, Lineages, SessionIds,
  Limits,          \* the hard limits a lineage may be seeded with
  Generations,     \* the generations a caller may expect
  Connections,
  Requests,        \* the operations callers ask for
  None

Grants == [grant_hash : Hashes, revoked : BOOLEAN, lineage_id : Lineages]
Sessions ==
  [lineage_id : Lineages, grant_id : GrantIds, grant_hash : Hashes,
   generation : Nat, state : {"active", "interrupted"}]
Guards ==
  [hard_limit : Nat, count : Nat, fenced : BOOLEAN, fence_id : Nat]

Databases ==
  [grants : [GrantIds -> Grants \cup {None}],
   sessions : [SessionIds -> Sessions \cup {None}],
   guards : [Lineages -> Guards \cup {None}]]

SeedRequests ==
  [operation : {"seed"}, grant_id : GrantIds, grant_hash : Hashes,
   lineage_id : Lineages, session_id : SessionIds, hard_limit : Limits]
RevokeRequests == [operation : {"revoke"}, grant_id : GrantIds]
InterruptRequests == [operation : {"interrupt"}, session_id : SessionIds]
ResumeRequests ==
  [operation : {"resume"}, session_id : SessionIds, generation : Generations]
AdmitRequests ==
  [operation : {"admit"}, session_id : SessionIds, generation : Generations,
   grant_id : GrantIds, grant_hash : Hashes]
NewSessionRequests ==
  [operation : {"new_session"}, session_id : SessionIds,
   lineage_id : Lineages, grant_id : GrantIds, grant_hash : Hashes]
AllRequests ==
  SeedRequests \cup RevokeRequests \cup InterruptRequests
    \cup ResumeRequests \cup AdmitRequests \cup NewSessionRequests

ASSUME StoreAssumption ==
  /\ Limits \subseteq Nat /\ Generations \subseteq Nat
  /\ Requests \subseteq AllRequests
  /\ None \notin Grants \cup Sessions \cup Guards \cup AllRequests \cup SessionIds
  /\ None \notin [left : Nat, closed : BOOLEAN]

VARIABLES
  db,         \* the committed database
  request,    \* connection -> the operation of its open transaction, or None
  view,       \* connection -> the database its transaction reads
  answer      \* connection -> the outcome on its way to the caller, or None

\* History: every admission, with its number in its lineage, and how many
\* fence ids were drawn.
VARIABLES admitted, fences

vars == <<db, request, view, answer, admitted, fences>>

EmptyDatabase ==
  [grants |-> [g \in GrantIds |-> None],
   sessions |-> [s \in SessionIds |-> None],
   guards |-> [l \in Lineages |-> None]]

Init ==
  /\ db = EmptyDatabase
  /\ request = [c \in Connections |-> None]
  /\ view = [c \in Connections |-> EmptyDatabase]
  /\ answer = [c \in Connections |-> None]
  /\ admitted = {} /\ fences = 0

-----------------------------------------------------------------------------
(* What each operation answers from the database d: its early returns in   *)
(* their order.  "refused" stands for the False of seed, revoke and        *)
(* interrupt.                                                              *)

SeedOutcome(d, q) ==
  IF /\ d.grants[q.grant_id] = None
     /\ d.guards[q.lineage_id] = None
     /\ d.sessions[q.session_id] = None
    THEN "seeded" ELSE "refused"

RevokeOutcome(d, q) ==
  IF d.grants[q.grant_id] = None THEN "refused" ELSE "revoked"

InterruptOutcome(d, q) ==
  LET s == d.sessions[q.session_id]
  IN  IF s # None /\ s.state = "active" THEN "interrupted" ELSE "refused"

(* The grant g covers work under the hash h.                               *)
Covers(g, h) == ~g.revoked /\ g.grant_hash = h

(* Mutated form: the fence is not looked at.                               *)
ResumeOutcomeUnfenced(d, q) ==
  LET s == d.sessions[q.session_id]
  IN  IF /\ s # None /\ q.generation = s.generation
         /\ s.state = "interrupted" /\ Covers(d.grants[s.grant_id], s.grant_hash)
        THEN "resumed" ELSE "denied_fenced"

ResumeOutcome(d, q) ==
  LET s == d.sessions[q.session_id]
      g == d.grants[s.grant_id]
      guard == d.guards[s.lineage_id]
  IN  IF s = None THEN "session_missing"
      ELSE IF g = None \/ guard = None THEN "storage_unavailable"
      ELSE IF g.lineage_id # s.lineage_id THEN "denied_lineage_mismatch"
      ELSE IF ~Covers(g, s.grant_hash) THEN "denied_grant_revoked"
      ELSE IF guard.fenced THEN "denied_fenced"
      ELSE IF q.generation # s.generation THEN "generation_invalid"
      ELSE IF s.state # "interrupted" THEN "session_state_invalid"
      ELSE "resumed"

(* Mutated form: a fenced lineage is judged by its count like any other.   *)
LimitOutcomeUnfenced(guard) ==
  IF guard = None THEN "storage_unavailable"
  ELSE IF guard.count >= guard.hard_limit THEN "guard_triggered" ELSE "admitted"

(* Mutated form: one admission more than the limit.                        *)
LimitOutcomeOneMore(guard) ==
  IF guard = None THEN "storage_unavailable"
  ELSE IF guard.fenced THEN "denied_fenced"
  ELSE IF guard.count > guard.hard_limit THEN "guard_triggered" ELSE "admitted"

LimitOutcome(guard) ==
  IF guard = None THEN "storage_unavailable"
  ELSE IF guard.fenced THEN "denied_fenced"
  ELSE IF guard.count >= guard.hard_limit THEN "guard_triggered"
  ELSE "admitted"

(* Mutated form: whoever expects an earlier generation is served.          *)
ExpectsEarlier(s, q) == q.generation <= s.generation

Expects(s, q) == q.generation = s.generation

AdmitOutcome(d, q) ==
  LET s == d.sessions[q.session_id]
      g == d.grants[q.grant_id]
  IN  IF s = None \/ g = None THEN "denied_authority"
      ELSE IF g.lineage_id # s.lineage_id THEN "denied_lineage_mismatch"
      ELSE IF \/ <<s.grant_id, s.grant_hash>> # <<q.grant_id, q.grant_hash>>
              \/ g.grant_hash # q.grant_hash THEN "denied_authority"
      ELSE IF g.revoked THEN "denied_grant_revoked"
      ELSE IF ~Expects(s, q) THEN "denied_generation_invalid"
      ELSE IF s.state # "active" THEN "denied_session_state"
      ELSE LimitOutcome(d.guards[s.lineage_id])

(* Mutated forms: the grant's own lineage, or its revocation, is not asked. *)
NewSessionOutcomeAnyLineage(d, q) ==
  LET g == d.grants[q.grant_id]
      guard == d.guards[q.lineage_id]
  IN  IF g = None \/ guard = None THEN "storage_unavailable"
      ELSE IF guard.fenced THEN "denied_fenced"
      ELSE IF ~Covers(g, q.grant_hash) THEN "denied_grant_revoked"
      ELSE IF d.sessions[q.session_id] # None THEN "storage_unavailable"
      ELSE "session_created"
NewSessionOutcomeRevoked(d, q) ==
  LET g == d.grants[q.grant_id]
      guard == d.guards[q.lineage_id]
  IN  IF g = None \/ guard = None THEN "storage_unavailable"
      ELSE IF g.lineage_id # q.lineage_id THEN "denied_lineage_mismatch"
      ELSE IF guard.fenced THEN "denied_fenced"
      ELSE IF g.grant_hash # q.grant_hash THEN "denied_grant_revoked"
      ELSE IF d.sessions[q.session_id] # None THEN "storage_unavailable"
      ELSE "session_created"

NewSessionOutcome(d, q) ==
  LET g == d.grants[q.grant_id]
      guard == d.guards[q.lineage_id]
  IN  IF g = None \/ guard = None THEN "storage_unavailable"
      ELSE IF g.lineage_id # q.lineage_id THEN "denied_lineage_mismatch"
      ELSE IF guard.fenced THEN "denied_fenced"
      ELSE IF ~Covers(g, q.grant_hash) THEN "denied_grant_revoked"
      ELSE IF d.sessions[q.session_id] # None THEN "storage_unavailable"
      ELSE "session_created"

-----------------------------------------------------------------------------
(* Transactions                                                            *)

Holds(c) == request[c] # None
Idle(c) == request[c] = None /\ answer[c] = None

Outcomes ==
  {"seeded", "revoked", "interrupted", "resumed", "session_created",
   "admitted", "guard_triggered", "refused", "storage_unavailable",
   "session_missing", "generation_invalid", "session_state_invalid",
   "denied_authority", "denied_lineage_mismatch", "denied_grant_revoked",
   "denied_generation_invalid", "denied_session_state", "denied_fenced"}

(* What a caller hears when SQLite fails: _run returns None.               *)
Unavailable(q) ==
  IF q.operation \in {"seed", "revoke", "interrupt"}
    THEN "refused" ELSE "storage_unavailable"

(* An Admission names its session; the other operations answer a word.     *)
Reply(q, outcome, fence) ==
  [session_id |-> IF q.operation = "admit" THEN q.session_id ELSE None,
   outcome |-> outcome, fence_id |-> fence]

(* Mutated form: the transaction reads before it takes the write lock.     *)
BeginUnlocked(c, q) ==
  /\ Idle(c)
  /\ request' = [request EXCEPT ![c] = q]
  /\ view' = [view EXCEPT ![c] = db]
  /\ UNCHANGED <<db, answer, admitted, fences>>

(* BEGIN IMMEDIATE                                                         *)
Begin(c, q) ==
  /\ Idle(c)
  /\ \A other \in Connections : ~Holds(other)
  /\ request' = [request EXCEPT ![c] = q]
  /\ view' = [view EXCEPT ![c] = db]
  /\ UNCHANGED <<db, answer, admitted, fences>>

(* The transaction of c ends and its caller will hear the outcome.         *)
Ends(c, outcome, fence) ==
  /\ request' = [request EXCEPT ![c] = None]
  /\ view' = [view EXCEPT ![c] = EmptyDatabase]
  /\ answer' = [answer EXCEPT ![c] = Reply(request[c], outcome, fence)]

(* Another connection keeps the lock for longer than the timeout, or the   *)
(* file cannot be opened: there is no transaction at all.                  *)
Locked(c, q) ==
  /\ Idle(c)
  /\ answer' = [answer EXCEPT ![c] = Reply(q, Unavailable(q), 0)]
  /\ UNCHANGED <<db, request, view, admitted, fences>>

(* An error of SQLite inside the transaction, and the rollback of _run.    *)
Fail(c) ==
  /\ Holds(c)
  /\ Ends(c, Unavailable(request[c]), 0)
  /\ UNCHANGED <<db, admitted, fences>>

(* The process of c dies: its transaction is rolled back by the next one   *)
(* that takes the lock, and an answer on its way is lost.                  *)
Crash(c) ==
  /\ ~Idle(c)
  /\ request' = [request EXCEPT ![c] = None]
  /\ view' = [view EXCEPT ![c] = EmptyDatabase]
  /\ answer' = [answer EXCEPT ![c] = None]
  /\ UNCHANGED <<db, admitted, fences>>

(* The caller hears the answer.                                            *)
Hear(c) ==
  /\ answer[c] # None
  /\ answer' = [answer EXCEPT ![c] = None]
  /\ UNCHANGED <<db, request, view, admitted, fences>>

-----------------------------------------------------------------------------
(* One action per operation: what it writes, or the refusal it answers     *)

Asks(c, operation) == Holds(c) /\ request[c].operation = operation

NewSession(q, generation) ==
  [lineage_id |-> q.lineage_id, grant_id |-> q.grant_id,
   grant_hash |-> q.grant_hash, generation |-> generation, state |-> "active"]

(* c wrote the database d, or rolls back with the answer of outcome.       *)
Writes(c, outcome, d) ==
  /\ db' = d /\ Ends(c, outcome, 0) /\ UNCHANGED <<admitted, fences>>
RollsBack(c, outcome, fence) ==
  Ends(c, outcome, fence) /\ UNCHANGED <<db, admitted, fences>>

Seed(c) ==
  LET q == request[c]
      outcome == SeedOutcome(view[c], q)
  IN  /\ Asks(c, "seed")
      /\ \/ /\ outcome = "seeded"
            /\ Writes(c, outcome,
                 [grants |-> [db.grants EXCEPT ![q.grant_id] =
                    [grant_hash |-> q.grant_hash, revoked |-> FALSE,
                     lineage_id |-> q.lineage_id]],
                  guards |-> [db.guards EXCEPT ![q.lineage_id] =
                    [hard_limit |-> q.hard_limit, count |-> 0,
                     fenced |-> FALSE, fence_id |-> 0]],
                  sessions |-> [db.sessions EXCEPT ![q.session_id] =
                    NewSession(q, 1)]])
         \/ outcome # "seeded" /\ RollsBack(c, outcome, 0)

Revoke(c) ==
  LET q == request[c]
      outcome == RevokeOutcome(view[c], q)
  IN  /\ Asks(c, "revoke")
      /\ \/ /\ outcome = "revoked"
            /\ Writes(c, outcome,
                      [db EXCEPT !.grants[q.grant_id].revoked = TRUE])
         \/ outcome # "revoked" /\ RollsBack(c, outcome, 0)

Interrupt(c) ==
  LET q == request[c]
      outcome == InterruptOutcome(view[c], q)
  IN  /\ Asks(c, "interrupt")
      /\ \/ /\ outcome = "interrupted"
            /\ Writes(c, outcome,
                 [db EXCEPT !.sessions[q.session_id].state = "interrupted"])
         \/ outcome # "interrupted" /\ RollsBack(c, outcome, 0)

Resume(c) ==
  LET q == request[c]
      outcome == ResumeOutcome(view[c], q)
  IN  /\ Asks(c, "resume")
      /\ \/ /\ outcome = "resumed"
            /\ Writes(c, outcome,
                 [db EXCEPT !.sessions[q.session_id] =
                    [@ EXCEPT !.generation =
                         view[c].sessions[q.session_id].generation + 1,
                       !.state = "active"]])
         \/ outcome # "resumed" /\ RollsBack(c, outcome, 0)

CreateSession(c) ==
  LET q == request[c]
      outcome == NewSessionOutcome(view[c], q)
  IN  /\ Asks(c, "new_session")
      /\ \/ /\ outcome = "session_created"
            /\ Writes(c, outcome,
                 [db EXCEPT !.sessions[q.session_id] = NewSession(q, 1)])
         \/ outcome # "session_created" /\ RollsBack(c, outcome, 0)

(* admit either spends one of the lineage, or raises its fence, or refuses. *)
Admit(c) ==
  LET q == request[c]
      lineage == view[c].sessions[q.session_id].lineage_id
      outcome == AdmitOutcome(view[c], q)
  IN  /\ Asks(c, "admit")
      /\ \/ /\ outcome = "admitted"
            /\ db' = [db EXCEPT !.guards[lineage].count = @ + 1]
            /\ admitted' = admitted \cup
                 {[lineage |-> lineage, number |-> db.guards[lineage].count + 1,
                   session |-> q.session_id, generation |-> q.generation,
                   grant |-> q.grant_id]}
            /\ Ends(c, outcome, 0)
            /\ UNCHANGED fences
         \/ /\ outcome = "guard_triggered"
            /\ fences' = fences + 1
            /\ db' = [db EXCEPT !.guards[lineage] =
                        [@ EXCEPT !.fenced = TRUE, !.fence_id = fences + 1]]
            /\ Ends(c, outcome, fences + 1)
            /\ UNCHANGED admitted
         \/ /\ outcome = "denied_fenced"
            /\ RollsBack(c, outcome, view[c].guards[lineage].fence_id)
         \/ /\ outcome \notin {"admitted", "guard_triggered", "denied_fenced"}
            /\ RollsBack(c, outcome, 0)

Next ==
  \E c \in Connections :
    \/ \E q \in Requests : Begin(c, q) \/ Locked(c, q)
    \/ Seed(c) \/ Revoke(c) \/ Interrupt(c) \/ Resume(c)
    \/ CreateSession(c) \/ Admit(c)
    \/ Fail(c) \/ Crash(c) \/ Hear(c)

Spec == Init /\ [][Next]_vars

-----------------------------------------------------------------------------
(* Properties                                                              *)

(* Types, and the lock: one transaction at a time, which sees the database *)
(* as it is.                                                               *)
Answers ==
  [session_id : SessionIds \cup {None}, outcome : Outcomes, fence_id : Nat]
StoreTypeOK ==
  /\ db \in Databases
  /\ request \in [Connections -> Requests \cup {None}]
  /\ view \in [Connections -> Databases]
  /\ answer \in [Connections -> Answers \cup {None}]
  /\ \A c \in Connections : Holds(c) =>
       /\ view[c] = db /\ answer[c] = None
       /\ \A other \in Connections : Holds(other) => other = c
  /\ fences \in Nat
  /\ admitted \subseteq
       [lineage : Lineages, number : Nat, session : SessionIds,
        generation : Nat, grant : GrantIds]

(* However many connections, sessions and generations share a lineage, its *)
(* admissions are numbered 1 to count without a repetition, and never more *)
(* than the hard limit.  README: the concurrent test admits exactly two.   *)
LimitHolds ==
  /\ \A l \in Lineages :
       LET of == {a \in admitted : a.lineage = l}
           guard == db.guards[l]
       IN  IF guard = None THEN of = {}
           ELSE /\ {a.number : a \in of} = 1 .. guard.count
                /\ guard.count <= guard.hard_limit
  /\ \A a, b \in admitted :
       a.lineage = b.lineage /\ a.number = b.number => a = b

(* A caller that holds on to an old generation is not admitted after one   *)
(* that knows a newer: in the order of a lineage, the generations of one   *)
(* session never go back.                                                  *)
AdmissionsFollowGenerations ==
  \A a, b \in admitted :
    /\ a.lineage = b.lineage /\ a.number < b.number
    /\ a.session = b.session
    => a.generation <= b.generation

(* A session stays in the lineage of its grant, and that lineage has a     *)
(* guard: no grant can spend the limit of another lineage.                 *)
SessionsKeepTheirLineage ==
  \A s \in SessionIds :
    LET session == db.sessions[s]
        grant == db.grants[session.grant_id]
    IN  session # None =>
          /\ grant # None
          /\ grant.lineage_id = session.lineage_id
          /\ grant.grant_hash = session.grant_hash
          /\ db.guards[session.lineage_id] # None

(* An answer that names a fence names the one that is stored for good,     *)
(* whoever raised it: a caller never hears of a second fence of a lineage. *)
AnswersNameTheFence ==
  \A c \in Connections :
    LET a == answer[c]
        s == db.sessions[a.session_id]
        guard == db.guards[s.lineage_id]
    IN  /\ a # None
        /\ a.session_id # None
        /\ a.outcome \in {"guard_triggered", "denied_fenced"}
        => guard.fenced /\ guard.fence_id = a.fence_id

(* What a step did to the session s: gave it authority it did not have.    *)
Enlivens(s) ==
  LET before == db.sessions[s]
      after == db'.sessions[s]
  IN  /\ after # None /\ after.state = "active"
      /\ before = None \/ before.state # "active"

(* Once a lineage is fenced nothing is admitted in it, no session of it is *)
(* created or resumed, and the fence and the count stand.                  *)
FenceIsFinal ==
  [][\A l \in Lineages :
       db.guards[l] # None /\ db.guards[l].fenced =>
         /\ db'.guards[l] = db.guards[l]
         /\ \A a \in admitted' \ admitted : a.lineage # l
         /\ \A s \in SessionIds :
              Enlivens(s) => db'.sessions[s].lineage_id # l]_vars

(* Once a grant is revoked it stays so, nothing is admitted under it, and  *)
(* no session of it is created or resumed; what was admitted before stays. *)
RevocationIsFinal ==
  [][/\ admitted \subseteq admitted'
     /\ \A g \in GrantIds :
          db.grants[g] # None /\ db.grants[g].revoked =>
            /\ db'.grants[g] = db.grants[g]
            /\ \A a \in admitted' \ admitted : a.grant # g
            /\ \A s \in SessionIds :
                 Enlivens(s) => db'.sessions[s].grant_id # g]_vars

(* Neither of the two ways to stop work can be undone or outrun by another *)
(* connection: what is fenced stays fenced, what is revoked stays revoked. *)
StopsAreFinal == FenceIsFinal /\ RevocationIsFinal

(* Seen from outside the store is one guard per lineage: opened once,      *)
(* spent one by one, closed by the first attempt beyond the limit, and     *)
(* untouched by everything else that happens to grants and sessions.       *)
WhatIsLeft(l) ==
  IF db.guards[l] = None THEN None
  ELSE [left |-> db.guards[l].hard_limit - db.guards[l].count,
        closed |-> db.guards[l].fenced]
Lineage == [l \in Lineages |-> WhatIsLeft(l)]

Abstract == INSTANCE LineageGuard WITH lineage <- Lineage
ImplementsLineageGuard == Abstract!Spec
=============================================================================
