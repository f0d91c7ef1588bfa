------------------------- MODULE SafetyStoreProofs -------------------------
(***************************************************************************)
(* Theorems about SafetyStore, for any sets of connections, grants,        *)
(* lineages, sessions, limits and requests.                                *)
(***************************************************************************)
EXTENDS SafetyStore, FiniteSetTheorems, TLAPS

(* The transaction a connection holds is the only one and sees the          *)
(* database, so what it decides it decides on what it then changes.        *)
LEMMA HolderSees ==
  ASSUME StoreTypeOK, NEW c \in Connections, Holds(c)
  PROVE  /\ view[c] = db /\ request[c] \in Requests /\ request[c] \in AllRequests
         /\ \A other \in Connections : Holds(other) => other = c
BY StoreAssumption DEF StoreTypeOK, Holds

(* After the end of its transaction no connection holds one.               *)
LEMMA EndsFreesTheLock ==
  ASSUME StoreTypeOK, NEW c \in Connections, Holds(c),
         NEW o \in Outcomes, NEW f \in Nat, Ends(c, o, f)
  PROVE  /\ request' \in [Connections -> Requests \cup {None}]
         /\ view' \in [Connections -> Databases]
         /\ answer' \in [Connections -> Answers \cup {None}]
         /\ \A other \in Connections : ~Holds(other)'
  <1>1. EmptyDatabase \in Databases
    BY DEF EmptyDatabase, Databases
  <1>2. Reply(request[c], o, f) \in Answers
    <2>1. request[c].operation = "admit" => request[c].session_id \in SessionIds
      BY HolderSees DEF AllRequests, SeedRequests, RevokeRequests,
         InterruptRequests, ResumeRequests, AdmitRequests, NewSessionRequests
    <2> QED BY <2>1 DEF Reply, Answers
  <1>3. request' = [request EXCEPT ![c] = None]
    BY DEF Ends
  <1>4. \A other \in Connections : ~Holds(other)'
    BY <1>3, HolderSees DEF Holds, StoreTypeOK
  <1> QED BY <1>1, <1>2, <1>3, <1>4 DEF Ends, StoreTypeOK

-----------------------------------------------------------------------------
(* The steps of the tables                                                 *)

TablesStay == UNCHANGED <<db, admitted, fences>>

Seeds(g, h, l, s, n) ==
  /\ db.grants[g] = None /\ db.guards[l] = None /\ db.sessions[s] = None
  /\ db' = [grants |-> [db.grants EXCEPT ![g] =
                [grant_hash |-> h, revoked |-> FALSE, lineage_id |-> l]],
            sessions |-> [db.sessions EXCEPT ![s] =
                [lineage_id |-> l, grant_id |-> g, grant_hash |-> h,
                 generation |-> 1, state |-> "active"]],
            guards |-> [db.guards EXCEPT ![l] =
                [hard_limit |-> n, count |-> 0, fenced |-> FALSE,
                 fence_id |-> 0]]]
  /\ UNCHANGED <<admitted, fences>>

(* The grant g still stands, and the lineage l is not fenced.              *)
Stands(g) == db.grants[g] # None /\ ~db.grants[g].revoked
Open(l) == db.guards[l] # None /\ ~db.guards[l].fenced

Revokes(g) ==
  /\ db.grants[g] # None
  /\ db' = [db EXCEPT !.grants =
              [db.grants EXCEPT ![g] = [db.grants[g] EXCEPT !.revoked = TRUE]]]
  /\ UNCHANGED <<admitted, fences>>

Interrupts(s) ==
  /\ db.sessions[s] # None
  /\ db' = [db EXCEPT !.sessions = [db.sessions EXCEPT ![s] =
              [db.sessions[s] EXCEPT !.state = "interrupted"]]]
  /\ UNCHANGED <<admitted, fences>>

Resumes(s) ==
  /\ db.sessions[s] # None
  /\ Stands(db.sessions[s].grant_id) /\ Open(db.sessions[s].lineage_id)
  /\ db' = [db EXCEPT !.sessions = [db.sessions EXCEPT ![s] =
              [db.sessions[s] EXCEPT !.generation = db.sessions[s].generation + 1,
                                     !.state = "active"]]]
  /\ UNCHANGED <<admitted, fences>>

Creates(s, l, g, h) ==
  /\ db.sessions[s] = None /\ Stands(g) /\ Open(l)
  /\ db.grants[g].lineage_id = l /\ db.grants[g].grant_hash = h
  /\ db' = [db EXCEPT !.sessions = [db.sessions EXCEPT ![s] =
              [lineage_id |-> l, grant_id |-> g, grant_hash |-> h,
               generation |-> 1, state |-> "active"]]]
  /\ UNCHANGED <<admitted, fences>>

Admits(s, l, g) ==
  /\ db.sessions[s] # None
  /\ db.sessions[s].lineage_id = l /\ db.sessions[s].grant_id = g
  /\ Stands(g) /\ Open(l) /\ db.guards[l].count < db.guards[l].hard_limit
  /\ db' = [db EXCEPT !.guards = [db.guards EXCEPT ![l] =
              [db.guards[l] EXCEPT !.count = db.guards[l].count + 1]]]
  /\ admitted' = admitted \cup
       {[lineage |-> l, number |-> db.guards[l].count + 1, session |-> s,
         generation |-> db.sessions[s].generation, grant |-> g]}
  /\ UNCHANGED fences

RaisesFence(l) ==
  /\ Open(l) /\ db.guards[l].count >= db.guards[l].hard_limit
  /\ fences' = fences + 1
  /\ db' = [db EXCEPT !.guards = [db.guards EXCEPT ![l] =
              [db.guards[l] EXCEPT !.fenced = TRUE, !.fence_id = fences + 1]]]
  /\ UNCHANGED admitted

TablesStep ==
  \/ TablesStay
  \/ \E g \in GrantIds, h \in Hashes, l \in Lineages, s \in SessionIds, n \in Limits :
       Seeds(g, h, l, s, n)
  \/ \E g \in GrantIds : Revokes(g)
  \/ \E s \in SessionIds : Interrupts(s) \/ Resumes(s)
  \/ \E s \in SessionIds, l \in Lineages, g \in GrantIds, h \in Hashes :
       Creates(s, l, g, h)
  \/ \E s \in SessionIds, l \in Lineages, g \in GrantIds : Admits(s, l, g)
  \/ \E l \in Lineages : RaisesFence(l)

(* The members a request of each kind carries.                             *)
LEMMA RequestMembers ==
  ASSUME NEW q \in AllRequests
  PROVE  /\ q.operation = "seed" =>
               /\ q.grant_id \in GrantIds /\ q.grant_hash \in Hashes
               /\ q.lineage_id \in Lineages /\ q.session_id \in SessionIds
               /\ q.hard_limit \in Limits
         /\ q.operation = "revoke" => q.grant_id \in GrantIds
         /\ q.operation \in {"interrupt", "resume", "admit", "new_session"} =>
               q.session_id \in SessionIds
         /\ q.operation = "new_session" => q.lineage_id \in Lineages
         /\ q.operation \in {"admit", "new_session"} =>
               q.grant_id \in GrantIds /\ q.grant_hash \in Hashes
BY DEF AllRequests, SeedRequests, RevokeRequests, InterruptRequests,
       ResumeRequests, AdmitRequests, NewSessionRequests

(* The rows of the database.                                               *)
LEMMA Rows ==
  ASSUME db \in Databases
  PROVE  /\ db = [grants |-> db.grants, sessions |-> db.sessions, guards |-> db.guards]
         /\ db.grants \in [GrantIds -> Grants \cup {None}]
         /\ db.sessions \in [SessionIds -> Sessions \cup {None}]
         /\ db.guards \in [Lineages -> Guards \cup {None}]
         /\ \A g \in GrantIds : db.grants[g] # None => db.grants[g] \in Grants
         /\ \A s \in SessionIds : db.sessions[s] # None => db.sessions[s] \in Sessions
         /\ \A l \in Lineages : db.guards[l] # None => db.guards[l] \in Guards
BY DEF Databases

LEMMA SeedTables ==
  ASSUME StoreTypeOK, NEW c \in Connections, Seed(c)
  PROVE  TablesStep
  <1> DEFINE q == request[c]
  <1>1. Holds(c) /\ q.operation = "seed"
    BY DEF Seed, Asks
  <1>2. q \in AllRequests /\ view[c] = db
    BY <1>1, HolderSees
  <1>3. CASE SeedOutcome(view[c], q) = "seeded"
    <2>1. db.grants[q.grant_id] = None /\ db.guards[q.lineage_id] = None
          /\ db.sessions[q.session_id] = None
      BY <1>2, <1>3 DEF SeedOutcome
    <2>2. Seeds(q.grant_id, q.grant_hash, q.lineage_id, q.session_id, q.hard_limit)
      BY <2>1, <1>3 DEF Seed, Seeds, Writes, NewSession
    <2> QED BY <2>2, <1>1, <1>2, RequestMembers DEF TablesStep
  <1>4. CASE SeedOutcome(view[c], q) # "seeded"
    BY <1>4 DEF Seed, RollsBack, TablesStep, TablesStay
  <1> QED BY <1>3, <1>4

LEMMA RevokeTables ==
  ASSUME StoreTypeOK, NEW c \in Connections, Revoke(c)
  PROVE  TablesStep
  <1> DEFINE q == request[c]
  <1>1. Holds(c) /\ q.operation = "revoke"
    BY DEF Revoke, Asks
  <1>2. q \in AllRequests /\ view[c] = db
    BY <1>1, HolderSees
  <1>3. CASE RevokeOutcome(view[c], q) = "revoked"
    <2>1. db.grants[q.grant_id] # None
      BY <1>2, <1>3 DEF RevokeOutcome
    <2>2. db' = [db EXCEPT !.grants[q.grant_id].revoked = TRUE]
          /\ UNCHANGED <<admitted, fences>>
      BY <1>3 DEF Revoke, Writes
    <2>3. Revokes(q.grant_id)
      BY <2>1, <2>2, Zenon DEF Revokes
    <2> QED BY <2>3, <1>1, <1>2, RequestMembers DEF TablesStep
  <1>4. CASE RevokeOutcome(view[c], q) # "revoked"
    BY <1>4 DEF Revoke, RollsBack, TablesStep, TablesStay
  <1> QED BY <1>3, <1>4

LEMMA InterruptTables ==
  ASSUME StoreTypeOK, NEW c \in Connections, Interrupt(c)
  PROVE  TablesStep
  <1> DEFINE q == request[c]
  <1>1. Holds(c) /\ q.operation = "interrupt"
    BY DEF Interrupt, Asks
  <1>2. q \in AllRequests /\ view[c] = db
    BY <1>1, HolderSees
  <1>3. CASE InterruptOutcome(view[c], q) = "interrupted"
    <2>1. db.sessions[q.session_id] # None
      BY <1>2, <1>3 DEF InterruptOutcome
    <2>2. db' = [db EXCEPT !.sessions[q.session_id].state = "interrupted"]
          /\ UNCHANGED <<admitted, fences>>
      BY <1>3 DEF Interrupt, Writes
    <2>3. Interrupts(q.session_id)
      BY <2>1, <2>2, Zenon DEF Interrupts
    <2> QED BY <2>3, <1>1, <1>2, RequestMembers DEF TablesStep
  <1>4. CASE InterruptOutcome(view[c], q) # "interrupted"
    BY <1>4 DEF Interrupt, RollsBack, TablesStep, TablesStay
  <1> QED BY <1>3, <1>4

(* A resumed session has a standing grant and an unfenced lineage.         *)
LEMMA ResumeAdmitted ==
  ASSUME NEW q, ResumeOutcome(db, q) = "resumed"
  PROVE  LET s == db.sessions[q.session_id]
         IN  s # None /\ Stands(s.grant_id) /\ Open(s.lineage_id)
BY DEF ResumeOutcome, Covers, Stands, Open

LEMMA ResumeTables ==
  ASSUME StoreTypeOK, NEW c \in Connections, Resume(c)
  PROVE  TablesStep
  <1> DEFINE q == request[c]
  <1>1. Holds(c) /\ q.operation = "resume"
    BY DEF Resume, Asks
  <1>2. q \in AllRequests /\ view[c] = db
    BY <1>1, HolderSees
  <1>3. CASE ResumeOutcome(view[c], q) = "resumed"
    <2> DEFINE s == q.session_id
    <2>1. /\ db.sessions[s] # None /\ Stands(db.sessions[s].grant_id)
          /\ Open(db.sessions[s].lineage_id)
      BY <1>2, <1>3, ResumeAdmitted
    <2>2. db' = [db EXCEPT !.sessions[s] =
                   [db.sessions[s] EXCEPT !.generation = db.sessions[s].generation + 1,
                                          !.state = "active"]]
          /\ UNCHANGED <<admitted, fences>>
      BY <1>2, <1>3, Zenon DEF Resume, Writes
    <2>3. Resumes(s)
      BY <2>1, <2>2, Zenon DEF Resumes
    <2> QED BY <2>3, <1>1, <1>2, RequestMembers DEF TablesStep
  <1>4. CASE ResumeOutcome(view[c], q) # "resumed"
    BY <1>4 DEF Resume, RollsBack, TablesStep, TablesStay
  <1> QED BY <1>3, <1>4

LEMMA NewSessionAdmitted ==
  ASSUME NEW q, NewSessionOutcome(db, q) = "session_created"
  PROVE  /\ db.sessions[q.session_id] = None
         /\ Stands(q.grant_id) /\ Open(q.lineage_id)
         /\ db.grants[q.grant_id].lineage_id = q.lineage_id
         /\ db.grants[q.grant_id].grant_hash = q.grant_hash
BY DEF NewSessionOutcome, Covers, Stands, Open

LEMMA CreateSessionTables ==
  ASSUME StoreTypeOK, NEW c \in Connections, CreateSession(c)
  PROVE  TablesStep
  <1> DEFINE q == request[c]
  <1>1. Holds(c) /\ q.operation = "new_session"
    BY DEF CreateSession, Asks
  <1>2. q \in AllRequests /\ view[c] = db
    BY <1>1, HolderSees
  <1>3. CASE NewSessionOutcome(view[c], q) = "session_created"
    <2>1. /\ db.sessions[q.session_id] = None
          /\ Stands(q.grant_id) /\ Open(q.lineage_id)
          /\ db.grants[q.grant_id].lineage_id = q.lineage_id
          /\ db.grants[q.grant_id].grant_hash = q.grant_hash
      BY <1>2, <1>3, NewSessionAdmitted
    <2>2. db' = [db EXCEPT !.sessions[q.session_id] = NewSession(q, 1)]
          /\ UNCHANGED <<admitted, fences>>
      BY <1>3 DEF CreateSession, Writes
    <2>3. Creates(q.session_id, q.lineage_id, q.grant_id, q.grant_hash)
      BY <2>1, <2>2, Zenon DEF Creates, NewSession
    <2> QED BY <2>3, <1>1, <1>2, RequestMembers DEF TablesStep
  <1>4. CASE NewSessionOutcome(view[c], q) # "session_created"
    BY <1>4 DEF CreateSession, RollsBack, TablesStep, TablesStay
  <1> QED BY <1>3, <1>4

(* What admit has seen of the session and the grant when it gets as far as  *)
(* the guard.                                                              *)
LEMMA AdmitReachesGuard ==
  ASSUME NEW q, AdmitOutcome(db, q) \in {"admitted", "guard_triggered"}
  PROVE  LET s == db.sessions[q.session_id]
         IN  /\ s # None /\ s.grant_id = q.grant_id /\ Stands(q.grant_id)
             /\ s.generation = q.generation
             /\ Open(s.lineage_id)
             /\ AdmitOutcome(db, q) = "admitted" =>
                  ~(db.guards[s.lineage_id].count >= db.guards[s.lineage_id].hard_limit)
             /\ AdmitOutcome(db, q) = "guard_triggered" =>
                  db.guards[s.lineage_id].count >= db.guards[s.lineage_id].hard_limit
BY DEF AdmitOutcome, LimitOutcome, Expects, Stands, Open

LEMMA AdmitTables ==
  ASSUME StoreTypeOK, NEW c \in Connections, Admit(c)
  PROVE  TablesStep
  <1> DEFINE q == request[c]
             s == q.session_id
             l == db.sessions[s].lineage_id
             outcome == AdmitOutcome(db, q)
  <1>1. Holds(c) /\ q.operation = "admit"
    BY DEF Admit, Asks
  <1>2. q \in AllRequests /\ view[c] = db /\ s \in SessionIds /\ q.grant_id \in GrantIds
    BY <1>1, HolderSees, RequestMembers
  <1>3. outcome \in {"admitted", "guard_triggered"} =>
          l \in Lineages /\ db.guards[l] \in Guards
    BY <1>2, AdmitReachesGuard, Rows DEF StoreTypeOK, Sessions, Open
  <1>4. CASE outcome = "admitted"
    <2>1. /\ db.sessions[s] # None /\ db.sessions[s].grant_id = q.grant_id
          /\ Stands(q.grant_id) /\ Open(l) /\ q.generation = db.sessions[s].generation
      BY <1>4, AdmitReachesGuard
    <2>2. db.guards[l].count < db.guards[l].hard_limit
      BY <1>3, <1>4, AdmitReachesGuard DEF Guards
    <2>3. /\ db' = [db EXCEPT !.guards[l].count = @ + 1]
          /\ admitted' = admitted \cup
               {[lineage |-> l, number |-> db.guards[l].count + 1, session |-> s,
                 generation |-> q.generation, grant |-> q.grant_id]}
          /\ UNCHANGED fences
      BY <1>2, <1>4 DEF Admit
    <2>4. Admits(s, l, q.grant_id)
      BY <2>1, <2>2, <2>3, Zenon DEF Admits
    <2> QED BY <2>4, <1>2, <1>3, <1>4 DEF TablesStep
  <1>5. CASE outcome = "guard_triggered"
    <2>1. Open(l) /\ db.guards[l].count >= db.guards[l].hard_limit
      BY <1>5, AdmitReachesGuard
    <2>2. /\ db' = [db EXCEPT !.guards[l] =
                      [@ EXCEPT !.fenced = TRUE, !.fence_id = fences + 1]]
          /\ fences' = fences + 1 /\ UNCHANGED admitted
      BY <1>2, <1>5 DEF Admit
    <2>3. RaisesFence(l)
      BY <2>1, <2>2, Zenon DEF RaisesFence
    <2> QED BY <2>3, <1>3, <1>5 DEF TablesStep
  <1>6. CASE outcome \notin {"admitted", "guard_triggered"}
    BY <1>2, <1>6 DEF Admit, RollsBack, TablesStep, TablesStay
  <1> QED BY <1>4, <1>5, <1>6

(* Every step changes the tables in one of these ways or not at all.       *)
LEMMA NextTables ==
  ASSUME StoreTypeOK, [Next]_vars
  PROVE  TablesStep
  <1>1. CASE UNCHANGED vars
    BY <1>1 DEF vars, TablesStep, TablesStay
  <1>2. ASSUME NEW c \in Connections, NEW q \in Requests, Begin(c, q) \/ Locked(c, q)
        PROVE  TablesStep
    BY <1>2 DEF Begin, Locked, TablesStep, TablesStay
  <1>3. ASSUME NEW c \in Connections, Fail(c) \/ Crash(c) \/ Hear(c)
        PROVE  TablesStep
    BY <1>3 DEF Fail, Crash, Hear, TablesStep, TablesStay
  <1> QED BY <1>1, <1>2, <1>3, SeedTables, RevokeTables, InterruptTables,
             ResumeTables, CreateSessionTables, AdmitTables DEF Next

-----------------------------------------------------------------------------
(* Types, and the lock                                                     *)

Admissions ==
  [lineage : Lineages, number : Nat, session : SessionIds,
   generation : Nat, grant : GrantIds]

LEMMA TablesType ==
  ASSUME StoreTypeOK, TablesStep
  PROVE  db' \in Databases /\ fences' \in Nat /\ admitted' \subseteq Admissions
  <1> USE DEF Admissions
  <1>1. db \in Databases /\ fences \in Nat /\ admitted \subseteq Admissions
    BY DEF StoreTypeOK
  <1>2. CASE TablesStay
    BY <1>1, <1>2 DEF TablesStay
  <1>3. ASSUME NEW g \in GrantIds, NEW h \in Hashes, NEW l \in Lineages,
               NEW s \in SessionIds, NEW n \in Limits, Seeds(g, h, l, s, n)
        PROVE  db' \in Databases /\ fences' \in Nat /\ admitted' \subseteq Admissions
    <2>1. [grant_hash |-> h, revoked |-> FALSE, lineage_id |-> l] \in Grants
      BY DEF Grants
    <2>2. [lineage_id |-> l, grant_id |-> g, grant_hash |-> h, generation |-> 1,
           state |-> "active"] \in Sessions
      BY DEF Sessions
    <2>3. [hard_limit |-> n, count |-> 0, fenced |-> FALSE, fence_id |-> 0] \in Guards
      BY StoreAssumption DEF Guards
    <2> QED BY <1>1, <1>3, <2>1, <2>2, <2>3 DEF Seeds, Databases
  <1>4. ASSUME NEW g \in GrantIds, Revokes(g)
        PROVE  db' \in Databases /\ fences' \in Nat /\ admitted' \subseteq Admissions
    <2>1. [db.grants[g] EXCEPT !.revoked = TRUE] \in Grants
      BY <1>1, <1>4, Rows DEF Revokes, Grants
    <2> QED BY <1>1, <1>4, <2>1 DEF Revokes, Databases
  <1>5. ASSUME NEW s \in SessionIds, Interrupts(s)
        PROVE  db' \in Databases /\ fences' \in Nat /\ admitted' \subseteq Admissions
    <2>1. [db.sessions[s] EXCEPT !.state = "interrupted"] \in Sessions
      BY <1>1, <1>5, Rows DEF Interrupts, Sessions
    <2> QED BY <1>1, <1>5, <2>1 DEF Interrupts, Databases
  <1>6. ASSUME NEW s \in SessionIds, Resumes(s)
        PROVE  db' \in Databases /\ fences' \in Nat /\ admitted' \subseteq Admissions
    <2>1. [db.sessions[s] EXCEPT !.generation = db.sessions[s].generation + 1,
                                 !.state = "active"] \in Sessions
      <3>1. db.sessions[s] \in Sessions
        BY <1>1, <1>6, Rows DEF Resumes
      <3>2. db.sessions[s].generation + 1 \in Nat
        BY <3>1 DEF Sessions
      <3> QED BY <3>1, <3>2 DEF Sessions
    <2> QED BY <1>1, <1>6, <2>1 DEF Resumes, Databases
  <1>7. ASSUME NEW s \in SessionIds, NEW l \in Lineages, NEW g \in GrantIds,
               NEW h \in Hashes, Creates(s, l, g, h)
        PROVE  db' \in Databases /\ fences' \in Nat /\ admitted' \subseteq Admissions
    <2>1. [lineage_id |-> l, grant_id |-> g, grant_hash |-> h, generation |-> 1,
           state |-> "active"] \in Sessions
      BY DEF Sessions
    <2> QED BY <1>1, <1>7, <2>1 DEF Creates, Databases
  <1>8. ASSUME NEW s \in SessionIds, NEW l \in Lineages, NEW g \in GrantIds,
               Admits(s, l, g)
        PROVE  db' \in Databases /\ fences' \in Nat /\ admitted' \subseteq Admissions
    <2>1. db.guards[l] \in Guards /\ db.sessions[s] \in Sessions
      BY <1>1, <1>8, Rows DEF Admits, Open
    <2>2. [db.guards[l] EXCEPT !.count = db.guards[l].count + 1] \in Guards
      BY <2>1 DEF Guards
    <2>3. db' \in Databases
      BY <1>1, <1>8, <2>2 DEF Admits, Databases
    <2>4. [lineage |-> l, number |-> db.guards[l].count + 1, session |-> s,
           generation |-> db.sessions[s].generation, grant |-> g] \in Admissions
      BY <2>1 DEF Guards, Sessions
    <2> QED BY <1>1, <1>8, <2>3, <2>4 DEF Admits
  <1>9. ASSUME NEW l \in Lineages, RaisesFence(l)
        PROVE  db' \in Databases /\ fences' \in Nat /\ admitted' \subseteq Admissions
    <2>1. [db.guards[l] EXCEPT !.fenced = TRUE, !.fence_id = fences + 1] \in Guards
      <3>1. db.guards[l] \in Guards
        BY <1>1, <1>9, Rows DEF RaisesFence, Open
      <3>2. fences + 1 \in Nat
        BY <1>1
      <3> QED BY <3>1, <3>2 DEF Guards
    <2> QED BY <1>1, <1>9, <2>1 DEF RaisesFence, Databases
  <1> QED BY <1>2, <1>3, <1>4, <1>5, <1>6, <1>7, <1>8, <1>9 DEF TablesStep

(* Every step of a connection leaves the lock in order.                    *)
LockInOrder ==
  /\ request \in [Connections -> Requests \cup {None}]
  /\ view \in [Connections -> Databases]
  /\ answer \in [Connections -> Answers \cup {None}]
  /\ \A c \in Connections : Holds(c) =>
       /\ view[c] = db /\ answer[c] = None
       /\ \A other \in Connections : Holds(other) => other = c

LEMMA OutcomesAreWords ==
  ASSUME NEW d, NEW q
  PROVE  /\ SeedOutcome(d, q) \in Outcomes /\ RevokeOutcome(d, q) \in Outcomes
         /\ InterruptOutcome(d, q) \in Outcomes /\ ResumeOutcome(d, q) \in Outcomes
         /\ NewSessionOutcome(d, q) \in Outcomes /\ AdmitOutcome(d, q) \in Outcomes
         /\ Unavailable(q) \in Outcomes
  <1>1. SeedOutcome(d, q) \in Outcomes /\ RevokeOutcome(d, q) \in Outcomes
    BY DEF SeedOutcome, RevokeOutcome, Outcomes
  <1>2. InterruptOutcome(d, q) \in Outcomes /\ Unavailable(q) \in Outcomes
    BY DEF InterruptOutcome, Unavailable, Outcomes
  <1>3. ResumeOutcome(d, q) \in Outcomes
    BY DEF ResumeOutcome, Outcomes
  <1>4. NewSessionOutcome(d, q) \in Outcomes
    BY DEF NewSessionOutcome, Outcomes
  <1>5. \A guard : LimitOutcome(guard) \in Outcomes
    BY DEF LimitOutcome, Outcomes
  <1>6. AdmitOutcome(d, q) \in Outcomes
    BY <1>5 DEF AdmitOutcome, Outcomes
  <1> QED BY <1>1, <1>2, <1>3, <1>4, <1>6

LEMMA OperationEnds ==
  ASSUME StoreTypeOK, NEW c \in Connections,
         \/ Seed(c) \/ Revoke(c) \/ Interrupt(c) \/ Resume(c)
         \/ CreateSession(c) \/ Admit(c) \/ Fail(c)
  PROVE  Holds(c) /\ \E o \in Outcomes, f \in Nat : Ends(c, o, f)
  <1>1. Holds(c)
    BY DEF Seed, Revoke, Interrupt, Resume, CreateSession, Admit, Fail, Asks
  <1>2. view[c] = db /\ request[c] \in AllRequests /\ 0 \in Nat /\ fences + 1 \in Nat
    BY <1>1, HolderSees DEF StoreTypeOK
  <1>3. CASE Seed(c)
    BY <1>1, <1>2, <1>3, OutcomesAreWords, Zenon DEF Seed, Writes, RollsBack
  <1>4. CASE Revoke(c)
    BY <1>1, <1>2, <1>4, OutcomesAreWords, Zenon DEF Revoke, Writes, RollsBack
  <1>5. CASE Interrupt(c)
    BY <1>1, <1>2, <1>5, OutcomesAreWords, Zenon DEF Interrupt, Writes, RollsBack
  <1>6. CASE Resume(c)
    BY <1>1, <1>2, <1>6, OutcomesAreWords, Zenon DEF Resume, Writes, RollsBack
  <1>7. CASE CreateSession(c)
    BY <1>1, <1>2, <1>7, OutcomesAreWords, Zenon DEF CreateSession, Writes, RollsBack
  <1>8. CASE Fail(c)
    BY <1>1, <1>2, <1>8, OutcomesAreWords, Zenon DEF Fail
  <1>9. CASE Admit(c)
    <2> DEFINE q == request[c]
               l == db.sessions[q.session_id].lineage_id
    <2>1. AdmitOutcome(db, q) = "denied_fenced" => db.guards[l].fence_id \in Nat
      <3> SUFFICES ASSUME AdmitOutcome(db, q) = "denied_fenced"
                   PROVE  db.guards[l].fence_id \in Nat
        OBVIOUS
      <3>1. db.sessions[q.session_id] # None /\ db.guards[l] # None
        BY DEF AdmitOutcome, LimitOutcome
      <3>2. q.session_id \in SessionIds
        BY <1>2, <1>9, RequestMembers DEF Admit, Asks
      <3> QED BY <3>1, <3>2, Rows DEF StoreTypeOK, Sessions, Guards
    <2>2. \/ Ends(c, AdmitOutcome(db, q), 0)
          \/ Ends(c, AdmitOutcome(db, q), fences + 1)
          \/ /\ AdmitOutcome(db, q) = "denied_fenced"
             /\ Ends(c, AdmitOutcome(db, q), db.guards[l].fence_id)
      BY <1>2, <1>9, Zenon DEF Admit, RollsBack
    <2> QED BY <1>1, <1>2, <2>1, <2>2, OutcomesAreWords, Zenon
  <1> QED BY <1>3, <1>4, <1>5, <1>6, <1>7, <1>8, <1>9

LEMMA LockStep ==
  ASSUME StoreTypeOK, [Next]_vars
  PROVE  LockInOrder'
  <1> SUFFICES ASSUME Next PROVE LockInOrder'
    BY DEF vars, StoreTypeOK, LockInOrder, Holds
  <1>1. ASSUME NEW c \in Connections, NEW q \in Requests, Begin(c, q)
        PROVE  LockInOrder'
    BY <1>1 DEF Begin, Idle, Holds, StoreTypeOK, LockInOrder
  <1>2. ASSUME NEW c \in Connections, NEW q \in Requests, Locked(c, q)
        PROVE  LockInOrder'
    <2>1. Reply(q, Unavailable(q), 0) \in Answers
      <3>1. q \in AllRequests
        BY StoreAssumption
      <3> QED BY <3>1, RequestMembers, OutcomesAreWords DEF Reply, Answers
    <2> QED BY <1>2, <2>1 DEF Locked, Idle, Holds, StoreTypeOK, LockInOrder
  <1>3. ASSUME NEW c \in Connections,
               \/ Seed(c) \/ Revoke(c) \/ Interrupt(c) \/ Resume(c)
               \/ CreateSession(c) \/ Admit(c) \/ Fail(c)
        PROVE  LockInOrder'
    BY <1>3, OperationEnds, EndsFreesTheLock DEF LockInOrder
  <1>4. ASSUME NEW c \in Connections, Crash(c)
        PROVE  LockInOrder'
    <2>1. EmptyDatabase \in Databases
      BY DEF EmptyDatabase, Databases
    <2> QED BY <1>4, <2>1 DEF Crash, Holds, StoreTypeOK, LockInOrder
  <1>5. ASSUME NEW c \in Connections, Hear(c)
        PROVE  LockInOrder'
    BY <1>5 DEF Hear, Holds, StoreTypeOK, LockInOrder
  <1> QED BY <1>1, <1>2, <1>3, <1>4, <1>5 DEF Next

LEMMA TypeInit == Init => StoreTypeOK
BY DEF Init, StoreTypeOK, EmptyDatabase, Databases, Holds

LEMMA TypeNext == StoreTypeOK /\ [Next]_vars => StoreTypeOK'
BY NextTables, TablesType, LockStep DEF StoreTypeOK, LockInOrder, Admissions

(* The tables, the transactions and the answers keep their types, and there *)
(* is never more than one transaction, which sees the database as it is.   *)
THEOREM StoreTypeCorrect == Spec => []StoreTypeOK
BY TypeInit, TypeNext, PTL DEF Spec

-----------------------------------------------------------------------------
(* Rows: none is deleted or bound to something else                        *)

GrantStays(g) ==
  db.grants[g] # None =>
    /\ db'.grants[g] # None
    /\ db'.grants[g].lineage_id = db.grants[g].lineage_id
    /\ db'.grants[g].grant_hash = db.grants[g].grant_hash
    /\ db.grants[g].revoked => db'.grants[g] = db.grants[g]

SessionStays(s) ==
  db.sessions[s] # None =>
    /\ db'.sessions[s] # None
    /\ db'.sessions[s].lineage_id = db.sessions[s].lineage_id
    /\ db'.sessions[s].grant_id = db.sessions[s].grant_id
    /\ db'.sessions[s].grant_hash = db.sessions[s].grant_hash
    /\ db.sessions[s].generation <= db'.sessions[s].generation

GuardStays(l) ==
  db.guards[l] # None =>
    /\ db'.guards[l] # None
    /\ db.guards[l].fenced => db'.guards[l] = db.guards[l]

RowsStay ==
  /\ \A g \in GrantIds : GrantStays(g)
  /\ \A s \in SessionIds : SessionStays(s)
  /\ \A l \in Lineages : GuardStays(l)

LEMMA StepKeepsRows ==
  ASSUME StoreTypeOK, TablesStep
  PROVE  RowsStay
  <1>1. /\ db \in Databases
        /\ \A g \in GrantIds : db.grants[g] # None => db.grants[g] \in Grants
        /\ \A s \in SessionIds : db.sessions[s] # None => db.sessions[s] \in Sessions
        /\ \A l \in Lineages : db.guards[l] # None => db.guards[l] \in Guards
    BY Rows DEF StoreTypeOK
  <1>n. None \notin Grants /\ None \notin Sessions /\ None \notin Guards
    BY StoreAssumption
  <1>m. \A s \in SessionIds : db.sessions[s] # None =>
          db.sessions[s].generation <= db.sessions[s].generation
    BY <1>1 DEF Sessions
  <1> USE DEF RowsStay, GrantStays, SessionStays, GuardStays
  <1>2. CASE TablesStay
    BY <1>m, <1>2 DEF TablesStay
  <1>3. ASSUME NEW g \in GrantIds, NEW h \in Hashes, NEW l \in Lineages,
               NEW s \in SessionIds, NEW n \in Limits, Seeds(g, h, l, s, n)
        PROVE  RowsStay
    BY <1>1, <1>m, <1>3 DEF Seeds, Databases
  <1>4. ASSUME NEW g \in GrantIds, Revokes(g)
        PROVE  RowsStay
    <2>1. [db.grants[g] EXCEPT !.revoked = TRUE] \in Grants
      BY <1>1, <1>4 DEF Revokes, Grants
    <2>2. /\ db'.grants = [db.grants EXCEPT ![g] = [db.grants[g] EXCEPT !.revoked = TRUE]]
          /\ db'.sessions = db.sessions /\ db'.guards = db.guards
      BY <1>1, <1>4 DEF Revokes, Databases
    <2>3. db.grants \in [GrantIds -> Grants \cup {None}] /\ db.grants[g] \in Grants
      BY <1>1, <1>4 DEF Databases, Revokes
    <2>4. \A x \in GrantIds : x # g => db'.grants[x] = db.grants[x]
      BY <2>2, <2>3
    <2>5. db'.grants[g] = [db.grants[g] EXCEPT !.revoked = TRUE]
      BY <2>2, <2>3
    <2>6. db.grants[g].revoked => db'.grants[g] = db.grants[g]
      BY <2>3, <2>5 DEF Grants
    <2>7. /\ db'.grants[g].lineage_id = db.grants[g].lineage_id
          /\ db'.grants[g].grant_hash = db.grants[g].grant_hash
      BY <2>3, <2>5 DEF Grants
    <2>8. db'.grants[g] # None
      BY <1>n, <2>1, <2>5
    <2> QED BY <1>m, <2>2, <2>4, <2>6, <2>7, <2>8
  <1>5. ASSUME NEW s \in SessionIds, Interrupts(s)
        PROVE  RowsStay
    <2>1. [db.sessions[s] EXCEPT !.state = "interrupted"] \in Sessions
      BY <1>1, <1>5 DEF Interrupts, Sessions
    <2>2. /\ db'.sessions = [db.sessions EXCEPT ![s] =
                               [db.sessions[s] EXCEPT !.state = "interrupted"]]
          /\ db'.grants = db.grants /\ db'.guards = db.guards
      BY <1>1, <1>5 DEF Interrupts, Databases
    <2>3. db.sessions \in [SessionIds -> Sessions \cup {None}] /\ db.sessions[s] \in Sessions
      BY <1>1, <1>5 DEF Databases, Interrupts
    <2>4. \A x \in SessionIds : SessionStays(x)
      BY <1>n, <1>m, <2>1, <2>2, <2>3 DEF Sessions
    <2> QED BY <2>2, <2>4
  <1>6. ASSUME NEW s \in SessionIds, Resumes(s)
        PROVE  RowsStay
    <2>1. db.sessions \in [SessionIds -> Sessions \cup {None}] /\ db.sessions[s] \in Sessions
      BY <1>1, <1>6 DEF Databases, Resumes
    <2>2. db.sessions[s].generation + 1 \in Nat
          /\ db.sessions[s].generation <= db.sessions[s].generation + 1
      BY <2>1 DEF Sessions
    <2>3. [db.sessions[s] EXCEPT !.generation = db.sessions[s].generation + 1,
                                 !.state = "active"] \in Sessions
      BY <2>1, <2>2 DEF Sessions
    <2>4. /\ db'.sessions = [db.sessions EXCEPT ![s] =
               [db.sessions[s] EXCEPT !.generation = db.sessions[s].generation + 1,
                                      !.state = "active"]]
          /\ db'.grants = db.grants /\ db'.guards = db.guards
      BY <1>1, <1>6 DEF Resumes, Databases
    <2>5. \A x \in SessionIds : x # s => db'.sessions[x] = db.sessions[x]
      BY <2>1, <2>4
    <2>6. db'.sessions[s] =
            [db.sessions[s] EXCEPT !.generation = db.sessions[s].generation + 1,
                                   !.state = "active"]
      BY <2>1, <2>4
    <2>7. /\ db'.sessions[s].lineage_id = db.sessions[s].lineage_id
          /\ db'.sessions[s].grant_id = db.sessions[s].grant_id
          /\ db'.sessions[s].grant_hash = db.sessions[s].grant_hash
          /\ db'.sessions[s].generation = db.sessions[s].generation + 1
      BY <2>1, <2>6 DEF Sessions
    <2>8. db'.sessions[s] # None
      BY <1>n, <2>3, <2>6
    <2> QED BY <1>m, <2>2, <2>4, <2>5, <2>7, <2>8
  <1>7. ASSUME NEW s \in SessionIds, NEW l \in Lineages, NEW g \in GrantIds,
               NEW h \in Hashes, Creates(s, l, g, h)
        PROVE  RowsStay
    BY <1>1, <1>m, <1>7 DEF Creates, Databases
  <1>8. ASSUME NEW s \in SessionIds, NEW l \in Lineages, NEW g \in GrantIds,
               Admits(s, l, g)
        PROVE  RowsStay
    <2>1. db.guards \in [Lineages -> Guards \cup {None}] /\ db.guards[l] \in Guards
      BY <1>1, <1>8 DEF Databases, Admits, Open
    <2>2. [db.guards[l] EXCEPT !.count = db.guards[l].count + 1] \in Guards
      BY <2>1 DEF Guards
    <2>3. /\ db'.guards = [db.guards EXCEPT ![l] =
                             [db.guards[l] EXCEPT !.count = db.guards[l].count + 1]]
          /\ db'.grants = db.grants /\ db'.sessions = db.sessions
      BY <1>1, <1>8 DEF Admits, Databases
    <2>4. \A x \in Lineages : GuardStays(x)
      BY <1>n, <1>8, <2>1, <2>2, <2>3 DEF Guards, Admits, Open
    <2> QED BY <1>m, <2>3, <2>4
  <1>9. ASSUME NEW l \in Lineages, RaisesFence(l)
        PROVE  RowsStay
    <2>1. db.guards \in [Lineages -> Guards \cup {None}] /\ db.guards[l] \in Guards
      BY <1>1, <1>9 DEF Databases, RaisesFence, Open
    <2>2. fences + 1 \in Nat
      BY DEF StoreTypeOK
    <2>3. [db.guards[l] EXCEPT !.fenced = TRUE, !.fence_id = fences + 1] \in Guards
      BY <2>1, <2>2 DEF Guards
    <2>4. /\ db'.guards = [db.guards EXCEPT ![l] =
               [db.guards[l] EXCEPT !.fenced = TRUE, !.fence_id = fences + 1]]
          /\ db'.grants = db.grants /\ db'.sessions = db.sessions
      BY <1>1, <1>9 DEF RaisesFence, Databases
    <2>5. \A x \in Lineages : x # l => db'.guards[x] = db.guards[x]
      BY <2>1, <2>4
    <2>6. db'.guards[l] # None
      BY <1>n, <2>1, <2>3, <2>4
    <2>7. ~db.guards[l].fenced
      BY <1>9 DEF RaisesFence, Open
    <2> QED BY <1>m, <2>4, <2>5, <2>6, <2>7
  <1> QED BY <1>2, <1>3, <1>4, <1>5, <1>6, <1>7, <1>8, <1>9 DEF TablesStep

LEMMA KeepsStep ==
  ASSUME StoreTypeOK, SessionsKeepTheirLineage, TablesStep
  PROVE  SessionsKeepTheirLineage'
  <1> DEFINE Kept(s) ==
        LET session == db.sessions[s]
            grant == db.grants[session.grant_id]
        IN  session # None =>
              /\ grant # None
              /\ grant.lineage_id = session.lineage_id
              /\ grant.grant_hash = session.grant_hash
              /\ db.guards[session.lineage_id] # None
  <1>1. ASSUME NEW s \in SessionIds, db.sessions[s] # None
        PROVE  Kept(s)'
    <2>1. db.sessions[s].grant_id \in GrantIds /\ db.sessions[s].lineage_id \in Lineages
      BY <1>1, Rows DEF StoreTypeOK, Sessions
    <2>2. Kept(s)
      BY <1>1 DEF SessionsKeepTheirLineage
    <2> QED BY <1>1, <2>1, <2>2, StepKeepsRows
            DEF RowsStay, GrantStays, SessionStays, GuardStays
  <1>2. ASSUME NEW s \in SessionIds, db.sessions[s] = None
        PROVE  Kept(s)'
    <2>1. CASE TablesStay
      BY <1>2, <2>1 DEF TablesStay
    <2>2. ASSUME NEW g \in GrantIds, NEW h \in Hashes, NEW l \in Lineages,
                 NEW r \in SessionIds, NEW n \in Limits, Seeds(g, h, l, r, n)
          PROVE  Kept(s)'
      <3>1. db'.sessions[s] # None => s = r
        BY <1>2, <2>2 DEF Seeds, StoreTypeOK, Databases
      <3>2. /\ db'.sessions[r] = [lineage_id |-> l, grant_id |-> g, grant_hash |-> h,
                                  generation |-> 1, state |-> "active"]
            /\ db'.grants[g] = [grant_hash |-> h, revoked |-> FALSE, lineage_id |-> l]
            /\ db'.guards[l] = [hard_limit |-> n, count |-> 0, fenced |-> FALSE,
                                fence_id |-> 0]
        BY <2>2 DEF Seeds, StoreTypeOK, Databases
      <3>3. db'.grants[g] # None /\ db'.guards[l] # None
        <4>1. db' \in Databases /\ None \notin Grants /\ None \notin Guards
          BY TablesType, StoreAssumption
        <4>2. /\ [grant_hash |-> h, revoked |-> FALSE, lineage_id |-> l] \in Grants
              /\ [hard_limit |-> n, count |-> 0, fenced |-> FALSE, fence_id |-> 0] \in Guards
          BY StoreAssumption DEF Grants, Guards
        <4> QED BY <3>2, <4>1, <4>2
      <3> QED BY <3>1, <3>2, <3>3
    <2>3. ASSUME NEW r \in SessionIds, NEW l \in Lineages, NEW g \in GrantIds,
                 NEW h \in Hashes, Creates(r, l, g, h)
          PROVE  Kept(s)'
      BY <1>2, <2>3 DEF Creates, Stands, Open, StoreTypeOK, Databases
    <2>4. ASSUME NEW r \in SessionIds, Interrupts(r) \/ Resumes(r)
          PROVE  Kept(s)'
      BY <1>2, <2>4 DEF Interrupts, Resumes, StoreTypeOK, Databases
    <2>5. ASSUME \/ \E g \in GrantIds : Revokes(g)
                 \/ \E r \in SessionIds, l \in Lineages, g \in GrantIds : Admits(r, l, g)
                 \/ \E l \in Lineages : RaisesFence(l)
          PROVE  Kept(s)'
      BY <1>2, <2>5 DEF Revokes, Admits, RaisesFence, StoreTypeOK, Databases
    <2> QED BY <2>1, <2>2, <2>3, <2>4, <2>5 DEF TablesStep
  <1>3. \A s \in SessionIds : Kept(s)'
    BY <1>1, <1>2
  <1> QED BY <1>3 DEF SessionsKeepTheirLineage

-----------------------------------------------------------------------------
(* The limit                                                               *)

(* Every admission belongs to the lineage its session is in, and expected   *)
(* a generation the session had reached by then.                           *)
AdmissionsMatchSessions ==
  \A a \in admitted :
    LET s == db.sessions[a.session]
    IN  s # None /\ s.lineage_id = a.lineage /\ a.generation <= s.generation

StoreInv ==
  /\ StoreTypeOK /\ SessionsKeepTheirLineage /\ AdmissionsMatchSessions
  /\ LimitHolds /\ AdmissionsFollowGenerations

(* A step that admits nothing leaves the numbers and the counts alone.     *)
CountsStay ==
  /\ admitted' = admitted
  /\ \A l \in Lineages :
       \/ db'.guards[l] = db.guards[l]
       \/ db.guards[l] = None /\ db'.guards[l] # None /\ db'.guards[l].count = 0
            /\ db'.guards[l].hard_limit \in Nat
       \/ /\ db.guards[l] # None /\ db'.guards[l] # None
          /\ db'.guards[l].count = db.guards[l].count
          /\ db'.guards[l].hard_limit = db.guards[l].hard_limit

LEMMA OnlyAdmissionsCount ==
  ASSUME StoreTypeOK, TablesStep
  PROVE  \/ CountsStay
         \/ \E s \in SessionIds, l \in Lineages, g \in GrantIds : Admits(s, l, g)
  <1>1. /\ db \in Databases /\ fences + 1 \in Nat
        /\ None \notin Grants /\ None \notin Guards
    BY StoreAssumption DEF StoreTypeOK
  <1>2. ASSUME \/ TablesStay
               \/ \E g \in GrantIds : Revokes(g)
               \/ \E s \in SessionIds : Interrupts(s) \/ Resumes(s)
               \/ \E s \in SessionIds, l \in Lineages, g \in GrantIds, h \in Hashes :
                    Creates(s, l, g, h)
        PROVE  CountsStay
    <2>1. admitted' = admitted /\ db'.guards = db.guards
      BY <1>1, <1>2 DEF TablesStay, Revokes, Interrupts, Resumes, Creates, Databases
    <2> QED BY <2>1 DEF CountsStay
  <1>3. ASSUME NEW g \in GrantIds, NEW h \in Hashes, NEW l \in Lineages,
               NEW s \in SessionIds, NEW n \in Limits, Seeds(g, h, l, s, n)
        PROVE  CountsStay
    <2> DEFINE new == [hard_limit |-> n, count |-> 0, fenced |-> FALSE, fence_id |-> 0]
    <2>1. new \in Guards /\ new.count = 0 /\ new.hard_limit \in Nat
      BY StoreAssumption DEF Guards
    <2>2. /\ admitted' = admitted /\ db.guards[l] = None
          /\ db'.guards = [db.guards EXCEPT ![l] = new]
          /\ db.guards \in [Lineages -> Guards \cup {None}]
      BY <1>1, <1>3 DEF Seeds, Databases
    <2>3. /\ db'.guards[l] = new
          /\ \A x \in Lineages : x # l => db'.guards[x] = db.guards[x]
      BY <2>2
    <2> HIDE DEF new
    <2>4. db'.guards[l] # None
      BY <1>1, <2>1, <2>3
    <2> QED BY <2>1, <2>2, <2>3, <2>4 DEF CountsStay
  <1>4. ASSUME NEW l \in Lineages, RaisesFence(l)
        PROVE  CountsStay
    <2> DEFINE new == [db.guards[l] EXCEPT !.fenced = TRUE, !.fence_id = fences + 1]
    <2>1. /\ db.guards[l] \in Guards /\ db.guards[l] # None
          /\ db.guards \in [Lineages -> Guards \cup {None}]
      BY <1>1, <1>4, Rows DEF RaisesFence, Open
    <2>2. /\ new \in Guards /\ new.count = db.guards[l].count
          /\ new.hard_limit = db.guards[l].hard_limit
      BY <1>1, <2>1 DEF Guards
    <2>3. admitted' = admitted /\ db'.guards = [db.guards EXCEPT ![l] = new]
      BY <1>1, <1>4 DEF RaisesFence, Databases
    <2>4. /\ db'.guards[l] = new
          /\ \A x \in Lineages : x # l => db'.guards[x] = db.guards[x]
      BY <2>1, <2>3
    <2> HIDE DEF new
    <2>5. db'.guards[l] # None
      BY <1>1, <2>2, <2>4
    <2> QED BY <2>1, <2>2, <2>3, <2>4, <2>5 DEF CountsStay
  <1> QED BY <1>2, <1>3, <1>4 DEF TablesStep

(* What LimitHolds says of one lineage.                                    *)
Numbers(l) == {a.number : a \in {b \in admitted : b.lineage = l}}
Counted(l) ==
  IF db.guards[l] = None THEN Numbers(l) = {}
  ELSE /\ Numbers(l) = 1 .. db.guards[l].count
       /\ db.guards[l].count <= db.guards[l].hard_limit
NumbersAreUnique ==
  \A a, b \in admitted : a.lineage = b.lineage /\ a.number = b.number => a = b

LEMMA LimitParts ==
  LimitHolds <=> (\A l \in Lineages : Counted(l)) /\ NumbersAreUnique
  <1>1. \A l : {a.number : a \in {b \in admitted : b.lineage = l}} = {}
                 <=> {b \in admitted : b.lineage = l} = {}
    OBVIOUS
  <1> QED BY <1>1 DEF LimitHolds, Counted, Numbers, NumbersAreUnique

LEMMA LimitPartsNext ==
  LimitHolds' <=> (\A l \in Lineages : Counted(l)') /\ NumbersAreUnique'
  <1>1. \A l : {a.number : a \in {b \in admitted' : b.lineage = l}} = {}
                 <=> {b \in admitted' : b.lineage = l} = {}
    OBVIOUS
  <1> QED BY <1>1 DEF LimitHolds, Counted, Numbers, NumbersAreUnique

LEMMA AdmitsWrites ==
  ASSUME StoreTypeOK, NEW s \in SessionIds, NEW l \in Lineages, NEW g \in GrantIds,
         Admits(s, l, g)
  PROVE  /\ db.guards[l] \in Guards /\ db.guards[l] # None
         /\ db.sessions[s] \in Sessions /\ db.sessions[s] # None
         /\ db'.guards[l] # None /\ db'.sessions = db.sessions
         /\ db'.guards[l].count = db.guards[l].count + 1
         /\ db'.guards[l].hard_limit = db.guards[l].hard_limit
         /\ db'.guards[l].fenced = db.guards[l].fenced
         /\ db.guards[l].count < db.guards[l].hard_limit
         /\ \A x \in Lineages : x # l => db'.guards[x] = db.guards[x]
  <1>1. /\ db.guards[l] \in Guards /\ db.guards[l] # None
        /\ db.sessions[s] \in Sessions /\ db.sessions[s] # None
        /\ db.guards \in [Lineages -> Guards \cup {None}]
    BY Rows DEF StoreTypeOK, Admits, Open
  <1> DEFINE new == [db.guards[l] EXCEPT !.count = db.guards[l].count + 1]
  <1>2. /\ new \in Guards /\ new.count = db.guards[l].count + 1
        /\ new.hard_limit = db.guards[l].hard_limit /\ new.fenced = db.guards[l].fenced
    BY <1>1 DEF Guards
  <1>3. db'.guards = [db.guards EXCEPT ![l] = new] /\ db'.sessions = db.sessions
    BY DEF Admits, StoreTypeOK, Databases
  <1>4. /\ db'.guards[l] = new
        /\ \A x \in Lineages : x # l => db'.guards[x] = db.guards[x]
    BY <1>1, <1>3
  <1> HIDE DEF new
  <1>5. db'.guards[l] # None
    BY <1>2, <1>4, StoreAssumption
  <1> QED BY <1>1, <1>2, <1>3, <1>4, <1>5 DEF Admits

LEMMA LimitStep ==
  ASSUME StoreTypeOK, LimitHolds, TablesStep
  PROVE  LimitHolds'
  <1>1. (\A l \in Lineages : Counted(l)) /\ NumbersAreUnique
    BY LimitParts
  <1>2. CASE CountsStay
    <2>1. \A l \in Lineages : Counted(l)'
      <3> TAKE l \in Lineages
      <3>1. Numbers(l)' = Numbers(l)
        BY <1>2 DEF CountsStay, Numbers
      <3>2. Counted(l)
        BY <1>1
      <3>3. CASE db'.guards[l] = db.guards[l]
        BY <3>1, <3>2, <3>3 DEF Counted
      <3>4. CASE /\ db.guards[l] = None /\ db'.guards[l] # None
                 /\ db'.guards[l].count = 0 /\ db'.guards[l].hard_limit \in Nat
        <4>1. Numbers(l)' = 1 .. 0
          BY <3>1, <3>2, <3>4 DEF Counted
        <4> QED BY <3>4, <4>1 DEF Counted
      <3>5. CASE /\ db.guards[l] # None /\ db'.guards[l] # None
                 /\ db'.guards[l].count = db.guards[l].count
                 /\ db'.guards[l].hard_limit = db.guards[l].hard_limit
        BY <3>1, <3>2, <3>5 DEF Counted
      <3> QED BY <1>2, <3>3, <3>4, <3>5 DEF CountsStay
    <2>2. NumbersAreUnique'
      BY <1>1, <1>2 DEF CountsStay, NumbersAreUnique
    <2> QED BY <2>1, <2>2, LimitPartsNext
  <1>3. ASSUME NEW s \in SessionIds, NEW l \in Lineages, NEW g \in GrantIds,
               Admits(s, l, g)
        PROVE  LimitHolds'
    <2> DEFINE n == db.guards[l].count
               new == [lineage |-> l, number |-> n + 1, session |-> s,
                       generation |-> db.sessions[s].generation, grant |-> g]
    <2>1. /\ new.lineage = l /\ new.number = n + 1
          /\ admitted' = admitted \cup {new}
      BY <1>3 DEF Admits
    <2>2. n \in Nat /\ db.guards[l].hard_limit \in Nat
      BY <1>3, AdmitsWrites DEF Guards
    <2>3. Numbers(l) = 1 .. n
      BY <1>1, <1>3, AdmitsWrites DEF Counted
    <2> HIDE DEF new
    <2>4. Numbers(l)' = Numbers(l) \cup {n + 1}
      BY <2>1 DEF Numbers
    <2>5. (1 .. n) \cup {n + 1} = 1 .. (n + 1)
      BY <2>2
    <2>6. \A x \in Lineages : Counted(x)'
      <3> TAKE x \in Lineages
      <3>1. CASE x = l
        <4>1. Numbers(l)' = 1 .. (n + 1)
          BY <2>3, <2>4, <2>5
        <4>2. /\ db'.guards[l] # None /\ db'.guards[l].count = n + 1
              /\ db'.guards[l].hard_limit = db.guards[l].hard_limit
              /\ n < db.guards[l].hard_limit
          BY <1>3, AdmitsWrites
        <4>3. n + 1 <= db.guards[l].hard_limit
          BY <2>2, <4>2
        <4> QED BY <3>1, <4>1, <4>2, <4>3 DEF Counted
      <3>2. CASE x # l
        <4>1. Numbers(x)' = Numbers(x)
          BY <2>1, <3>2 DEF Numbers
        <4> QED BY <1>1, <1>3, <3>2, <4>1, AdmitsWrites DEF Counted
      <3> QED BY <3>1, <3>2
    <2>7. \A a \in admitted : a.lineage = l => a.number # n + 1
      BY <2>2, <2>3 DEF Numbers
    <2>8. NumbersAreUnique'
      BY <1>1, <2>1, <2>7 DEF NumbersAreUnique
    <2> QED BY <2>6, <2>8, LimitPartsNext
  <1> QED BY <1>2, <1>3, OnlyAdmissionsCount

LEMMA GenerationsStep ==
  ASSUME StoreInv, TablesStep
  PROVE  AdmissionsMatchSessions' /\ AdmissionsFollowGenerations'
  <1>1. /\ StoreTypeOK /\ AdmissionsMatchSessions /\ AdmissionsFollowGenerations
        /\ \A l \in Lineages : Counted(l)
    BY LimitParts DEF StoreInv
  <1>2. \A a \in admitted :
          LET s == db'.sessions[a.session]
          IN  s # None /\ s.lineage_id = a.lineage /\ a.generation <= s.generation
    <2> TAKE a \in admitted
    <2>1. a.session \in SessionIds /\ a.generation \in Nat
      BY <1>1 DEF StoreTypeOK
    <2>2. SessionStays(a.session)
      BY <1>1, <2>1, StepKeepsRows DEF RowsStay
    <2>3. /\ db.sessions[a.session] # None
          /\ db.sessions[a.session].lineage_id = a.lineage
          /\ a.generation <= db.sessions[a.session].generation
      BY <1>1 DEF AdmissionsMatchSessions
    <2>4. db.sessions[a.session].generation \in Nat
      BY <1>1, <2>1, <2>3, Rows DEF StoreTypeOK, Sessions
    <2>5. db'.sessions[a.session].generation \in Nat
      <3>1. db' \in Databases
        BY <1>1, TablesType
      <3> QED BY <2>1, <2>2, <2>3, <3>1 DEF SessionStays, Databases, Sessions
    <2> QED BY <2>1, <2>2, <2>3, <2>4, <2>5 DEF SessionStays
  <1>3. CASE CountsStay
    BY <1>1, <1>2, <1>3
       DEF CountsStay, AdmissionsMatchSessions, AdmissionsFollowGenerations
  <1>4. ASSUME NEW s \in SessionIds, NEW l \in Lineages, NEW g \in GrantIds,
               Admits(s, l, g)
        PROVE  AdmissionsMatchSessions' /\ AdmissionsFollowGenerations'
    <2> DEFINE n == db.guards[l].count
               new == [lineage |-> l, number |-> n + 1, session |-> s,
                       generation |-> db.sessions[s].generation, grant |-> g]
    <2>1. /\ new.lineage = l /\ new.number = n + 1 /\ new.session = s
          /\ new.generation = db.sessions[s].generation
          /\ db.sessions[s].lineage_id = l /\ admitted' = admitted \cup {new}
      BY <1>4 DEF Admits
    <2>2. /\ n \in Nat /\ db.sessions[s].generation \in Nat
          /\ db'.sessions = db.sessions /\ db.sessions[s] # None
      BY <1>1, <1>4, AdmitsWrites DEF Guards, Sessions
    <2>3. Numbers(l) = 1 .. n
      BY <1>1, <1>4, AdmitsWrites DEF Counted
    <2> HIDE DEF new
    <2>4. AdmissionsMatchSessions'
      BY <1>2, <2>1, <2>2 DEF AdmissionsMatchSessions
    <2>5. \A a \in admitted : a.lineage = l => a.number \in 1 .. n
      BY <2>3 DEF Numbers
    <2>6. \A a \in admitted : a.session = s => a.generation <= new.generation
      BY <1>1, <2>1 DEF AdmissionsMatchSessions
    <2>7. AdmissionsFollowGenerations'
      <3> SUFFICES ASSUME NEW a \in admitted', NEW b \in admitted',
                          a.lineage = b.lineage, a.number < b.number,
                          a.session = b.session
                   PROVE  a.generation <= b.generation
        BY DEF AdmissionsFollowGenerations
      <3>1. CASE a \in admitted /\ b \in admitted
        BY <1>1, <3>1 DEF AdmissionsFollowGenerations
      <3>2. CASE a \in admitted /\ b = new
        BY <2>1, <2>6, <3>2
      <3>3. CASE a = new
        <4>1. b = new \/ b.number \in 1 .. n
          BY <2>1, <2>5, <3>3
        <4> QED BY <2>1, <2>2, <3>3, <4>1
      <3> QED BY <2>1, <3>1, <3>2, <3>3
    <2> QED BY <2>4, <2>7
  <1> QED BY <1>1, <1>3, <1>4, OnlyAdmissionsCount

LEMMA InvInit == Init => StoreInv
  <1> SUFFICES ASSUME Init PROVE StoreInv
    OBVIOUS
  <1>1. StoreTypeOK
    BY TypeInit
  <1>2. admitted = {} /\ db.sessions = [s \in SessionIds |-> None]
        /\ db.guards = [l \in Lineages |-> None]
    BY DEF Init, EmptyDatabase
  <1>3. SessionsKeepTheirLineage
    BY <1>2 DEF SessionsKeepTheirLineage
  <1> QED BY <1>1, <1>2, <1>3
          DEF StoreInv, LimitHolds, AdmissionsMatchSessions, AdmissionsFollowGenerations

LEMMA InvNext == StoreInv /\ [Next]_vars => StoreInv'
  <1> SUFFICES ASSUME StoreInv, [Next]_vars PROVE StoreInv'
    OBVIOUS
  <1>1. StoreTypeOK /\ SessionsKeepTheirLineage /\ LimitHolds
    BY DEF StoreInv
  <1>2. TablesStep /\ StoreTypeOK'
    BY <1>1, NextTables, TypeNext
  <1> QED BY <1>1, <1>2, KeepsStep, LimitStep, GenerationsStep DEF StoreInv

LEMMA StoreInvariant == Spec => []StoreInv
BY InvInit, InvNext, PTL DEF Spec

(* However many connections admit at once, a lineage never has more        *)
(* admissions than its limit, and counts each of them once.                *)
THEOREM LimitAlwaysHolds == Spec => []LimitHolds
  <1>1. StoreInv => LimitHolds
    BY DEF StoreInv
  <1> QED BY <1>1, StoreInvariant, PTL

(* No session and no grant ever spends the limit of another lineage.       *)
THEOREM LineagesAreKept == Spec => []SessionsKeepTheirLineage
  <1>1. StoreInv => SessionsKeepTheirLineage
    BY DEF StoreInv
  <1> QED BY <1>1, StoreInvariant, PTL

(* Within a session, admissions are in the order of its generations.       *)
THEOREM GenerationsInOrder == Spec => []AdmissionsFollowGenerations
  <1>1. StoreInv => AdmissionsFollowGenerations
    BY DEF StoreInv
  <1> QED BY <1>1, StoreInvariant, PTL

-----------------------------------------------------------------------------
(* What a fence and a revocation end                                       *)

(* Authority comes only from a standing grant in an open lineage, or from  *)
(* a seed that finds neither.                                              *)
LEMMA WhoEnlivens ==
  ASSUME StoreTypeOK, TablesStep, NEW s \in SessionIds, Enlivens(s)
  PROVE  LET l == db'.sessions[s].lineage_id
             g == db'.sessions[s].grant_id
         IN  (db.guards[l] = None \/ Open(l)) /\ (db.grants[g] = None \/ Stands(g))
  <1> DEFINE l == db'.sessions[s].lineage_id
             g == db'.sessions[s].grant_id
             Goal == (db.guards[l] = None \/ Open(l)) /\ (db.grants[g] = None \/ Stands(g))
  <1>1. /\ db \in Databases /\ db.sessions \in [SessionIds -> Sessions \cup {None}]
    BY DEF StoreTypeOK, Databases
  <1>2. db'.sessions # db.sessions
    BY DEF Enlivens
  <1>3. ASSUME NEW g1 \in GrantIds, NEW h \in Hashes, NEW l1 \in Lineages,
               NEW s1 \in SessionIds, NEW n \in Limits, Seeds(g1, h, l1, s1, n)
        PROVE  Goal
    <2>1. /\ db'.sessions = [db.sessions EXCEPT ![s1] =
              [lineage_id |-> l1, grant_id |-> g1, grant_hash |-> h,
               generation |-> 1, state |-> "active"]]
          /\ db.grants[g1] = None /\ db.guards[l1] = None
      BY <1>3 DEF Seeds
    <2>2. s = s1
      BY <1>1, <2>1 DEF Enlivens
    <2> QED BY <1>1, <2>1, <2>2
  <1>4. ASSUME NEW s1 \in SessionIds, NEW l1 \in Lineages, NEW g1 \in GrantIds,
               NEW h \in Hashes, Creates(s1, l1, g1, h)
        PROVE  Goal
    <2>1. /\ db'.sessions = [db.sessions EXCEPT ![s1] =
              [lineage_id |-> l1, grant_id |-> g1, grant_hash |-> h,
               generation |-> 1, state |-> "active"]]
          /\ Stands(g1) /\ Open(l1)
      BY <1>1, <1>4 DEF Creates, Databases
    <2>2. s = s1
      BY <1>1, <2>1 DEF Enlivens
    <2> QED BY <1>1, <2>1, <2>2
  <1>5. ASSUME NEW s1 \in SessionIds, Resumes(s1)
        PROVE  Goal
    <2>1. /\ db'.sessions = [db.sessions EXCEPT ![s1] =
               [db.sessions[s1] EXCEPT !.generation = db.sessions[s1].generation + 1,
                                       !.state = "active"]]
          /\ Stands(db.sessions[s1].grant_id) /\ Open(db.sessions[s1].lineage_id)
          /\ db.sessions[s1] # None
      BY <1>1, <1>5 DEF Resumes, Databases
    <2>2. s = s1
      BY <1>1, <2>1 DEF Enlivens
    <2>3. SessionStays(s)
      BY StepKeepsRows DEF RowsStay
    <2> QED BY <2>1, <2>2, <2>3 DEF SessionStays
  <1>6. ASSUME NEW s1 \in SessionIds, Interrupts(s1)
        PROVE  FALSE
    <2>1. /\ db'.sessions = [db.sessions EXCEPT ![s1] =
              [db.sessions[s1] EXCEPT !.state = "interrupted"]]
          /\ db.sessions[s1] \in Sessions
      BY <1>1, <1>6, Rows DEF Interrupts, Databases
    <2>2. s = s1
      BY <1>1, <2>1 DEF Enlivens
    <2>3. db'.sessions[s].state = "interrupted"
      BY <1>1, <2>1, <2>2 DEF Sessions
    <2> QED BY <2>3 DEF Enlivens
  <1>7. ~TablesStay /\ (\A g1 \in GrantIds : ~Revokes(g1))
        /\ (\A s1 \in SessionIds, l1 \in Lineages, g1 \in GrantIds : ~Admits(s1, l1, g1))
        /\ (\A l1 \in Lineages : ~RaisesFence(l1))
    BY <1>1, <1>2 DEF TablesStay, Revokes, Admits, RaisesFence, Databases
  <1> QED BY <1>3, <1>4, <1>5, <1>6, <1>7 DEF TablesStep

LEMMA EnlivenedIsTyped ==
  ASSUME StoreTypeOK, TablesStep, NEW s \in SessionIds, Enlivens(s)
  PROVE  db'.sessions[s].lineage_id \in Lineages /\ db'.sessions[s].grant_id \in GrantIds
BY TablesType DEF Enlivens, Databases, Sessions

(* A fenced lineage stays fenced, and neither admission nor session nor    *)
(* resume follows, under any interleaving, failure or crash.               *)
THEOREM FenceHolds == Spec => FenceIsFinal
  <1> DEFINE Final ==
        \A l \in Lineages :
          db.guards[l] # None /\ db.guards[l].fenced =>
            /\ db'.guards[l] = db.guards[l]
            /\ \A a \in admitted' \ admitted : a.lineage # l
            /\ \A s \in SessionIds :
                 Enlivens(s) => db'.sessions[s].lineage_id # l
  <1>1. ASSUME StoreInv, [Next]_vars PROVE Final
    <2> SUFFICES ASSUME NEW l \in Lineages, db.guards[l] # None, db.guards[l].fenced
                 PROVE  /\ db'.guards[l] = db.guards[l]
                        /\ \A a \in admitted' \ admitted : a.lineage # l
                        /\ \A s \in SessionIds :
                             Enlivens(s) => db'.sessions[s].lineage_id # l
      OBVIOUS
    <2>1. StoreTypeOK /\ TablesStep
      BY <1>1, NextTables DEF StoreInv
    <2>2. db'.guards[l] = db.guards[l]
      BY <2>1, StepKeepsRows DEF RowsStay, GuardStays
    <2>3. \A a \in admitted' \ admitted : a.lineage # l
      <3>1. CASE CountsStay
        BY <3>1 DEF CountsStay
      <3>2. ASSUME NEW s \in SessionIds, NEW k \in Lineages, NEW g \in GrantIds,
                   Admits(s, k, g)
            PROVE  \A a \in admitted' \ admitted : a.lineage # l
        <4>1. k # l
          BY <3>2 DEF Admits, Open
        <4> QED BY <3>2, <4>1 DEF Admits
      <3> QED BY <2>1, <3>1, <3>2, OnlyAdmissionsCount
    <2>4. \A s \in SessionIds : Enlivens(s) => db'.sessions[s].lineage_id # l
      BY <2>1, WhoEnlivens DEF Open
    <2> QED BY <2>2, <2>3, <2>4
  <1>2. StoreInv /\ [Next]_vars => [Final]_vars
    BY <1>1
  <1> QED BY <1>2, StoreInvariant, PTL DEF Spec, FenceIsFinal

(* A revocation is final in the same way, and takes nothing back.          *)
THEOREM RevocationHolds == Spec => RevocationIsFinal
  <1> DEFINE Ended(g) ==
        /\ db'.grants[g] = db.grants[g]
        /\ \A a \in admitted' \ admitted : a.grant # g
        /\ \A s \in SessionIds : Enlivens(s) => db'.sessions[s].grant_id # g
      Final ==
        /\ admitted \subseteq admitted'
        /\ \A g \in GrantIds :
             db.grants[g] # None /\ db.grants[g].revoked => Ended(g)
  <1>1. ASSUME StoreInv, [Next]_vars PROVE Final
    <2>1. StoreTypeOK /\ TablesStep
      BY <1>1, NextTables DEF StoreInv
    <2>2. admitted \subseteq admitted'
      BY <2>1, OnlyAdmissionsCount DEF CountsStay, Admits
    <2>3. ASSUME NEW g \in GrantIds, db.grants[g] # None, db.grants[g].revoked
          PROVE  Ended(g)
      <3>1. db'.grants[g] = db.grants[g]
        BY <2>1, <2>3, StepKeepsRows DEF RowsStay, GrantStays
      <3>2. \A a \in admitted' \ admitted : a.grant # g
        <4>1. CASE CountsStay
          BY <4>1 DEF CountsStay
        <4>2. ASSUME NEW s \in SessionIds, NEW l \in Lineages, NEW h \in GrantIds,
                     Admits(s, l, h)
              PROVE  \A a \in admitted' \ admitted : a.grant # g
          <5>1. h # g
            BY <2>3, <4>2 DEF Admits, Stands
          <5> QED BY <4>2, <5>1 DEF Admits
        <4> QED BY <2>1, <4>1, <4>2, OnlyAdmissionsCount
      <3>3. \A s \in SessionIds : Enlivens(s) => db'.sessions[s].grant_id # g
        BY <2>1, <2>3, WhoEnlivens DEF Stands
      <3> QED BY <3>1, <3>2, <3>3
    <2> QED BY <2>2, <2>3
  <1>2. StoreInv /\ [Next]_vars => [Final]_vars
    BY <1>1
  <1> QED BY <1>2, StoreInvariant, PTL DEF Spec, RevocationIsFinal

(* The two together.                                                       *)
THEOREM StopsHold == Spec => StopsAreFinal
  BY FenceHolds, RevocationHolds DEF StopsAreFinal

-----------------------------------------------------------------------------
(* Answers name the fence that is stored                                   *)

(* The answer a names a fence, and it is the one of its session's lineage. *)
NamesAFence(a) ==
  /\ a # None /\ a.session_id # None
  /\ a.outcome \in {"guard_triggered", "denied_fenced"}
Stored(a) ==
  LET s == db.sessions[a.session_id]
      guard == db.guards[s.lineage_id]
  IN  s # None /\ guard # None /\ guard.fenced /\ guard.fence_id = a.fence_id

(* What AnswersNameTheFence needs to be inductive: the rows it reads are   *)
(* there, so that no later step can put others in their place.             *)
FencesAreStored ==
  \A c \in Connections : NamesAFence(answer[c]) => Stored(answer[c])

(* What is stored stays: rows are not deleted and a fence is final.        *)
LEMMA StoredStays ==
  ASSUME StoreTypeOK, RowsStay, NEW a \in Answers, a.session_id # None, Stored(a)
  PROVE  Stored(a)'
  <1>1. a.session_id \in SessionIds
    BY DEF Answers
  <1>2. db.sessions[a.session_id].lineage_id \in Lineages
    BY <1>1, Rows DEF StoreTypeOK, Stored, Sessions
  <1> QED BY <1>1, <1>2 DEF Stored, RowsStay, SessionStays, GuardStays

(* What admit answers about a fence is what its transaction leaves behind. *)
LEMMA AdmitAnswers ==
  ASSUME StoreTypeOK, NEW c \in Connections, Admit(c), NamesAFence(answer'[c])
  PROVE  Stored(answer[c])'
  <1> DEFINE q == request[c]
             s == q.session_id
             l == db.sessions[s].lineage_id
             outcome == AdmitOutcome(db, q)
  <1>1. Holds(c) /\ q.operation = "admit"
    BY DEF Admit, Asks
  <1>2. q \in AllRequests /\ view[c] = db /\ s \in SessionIds
    BY <1>1, HolderSees, RequestMembers
  <1>3. ASSUME NEW f, Ends(c, outcome, f)
        PROVE  /\ answer'[c].session_id = s /\ answer'[c].outcome = outcome
               /\ answer'[c].fence_id = f
    BY <1>1, <1>3 DEF Ends, Reply, StoreTypeOK
  <1>4. CASE outcome = "guard_triggered"
    <2>1. db.sessions[s] # None /\ Open(l)
      BY <1>4, AdmitReachesGuard
    <2>2. db.sessions[s] \in Sessions /\ l \in Lineages /\ db.guards[l] \in Guards
      BY <1>2, <2>1, Rows DEF StoreTypeOK, Sessions, Open
    <2>3. /\ db' = [db EXCEPT !.guards[l] =
                      [@ EXCEPT !.fenced = TRUE, !.fence_id = fences + 1]]
          /\ Ends(c, outcome, fences + 1)
      BY <1>2, <1>4 DEF Admit
    <2>4. fences + 1 \in Nat
      BY DEF StoreTypeOK
    <2>5. /\ db'.sessions = db.sessions
          /\ db'.guards[l] = [db.guards[l] EXCEPT !.fenced = TRUE,
                                                  !.fence_id = fences + 1]
      BY <2>2, <2>3 DEF StoreTypeOK, Databases
    <2>6. /\ db'.guards[l] \in Guards
          /\ db'.guards[l].fenced /\ db'.guards[l].fence_id = fences + 1
      BY <2>2, <2>4, <2>5 DEF Guards
    <2>7. db'.guards[l] # None
      BY <2>6, StoreAssumption
    <2> QED BY <1>3, <2>1, <2>3, <2>5, <2>6, <2>7 DEF Stored
  <1>5. CASE outcome = "denied_fenced"
    <2>1. db.sessions[s] # None /\ db.guards[l] # None /\ db.guards[l].fenced
      BY <1>5 DEF AdmitOutcome, LimitOutcome
    <2>2. db' = db /\ Ends(c, outcome, db.guards[l].fence_id)
      BY <1>2, <1>5 DEF Admit, RollsBack
    <2> QED BY <1>3, <2>1, <2>2 DEF Stored
  <1>6. CASE outcome \notin {"guard_triggered", "denied_fenced"}
    <2>1. Ends(c, outcome, 0)
      BY <1>2, <1>6 DEF Admit, RollsBack
    <2> QED BY <1>3, <1>6, <2>1 DEF NamesAFence
  <1> QED BY <1>4, <1>5, <1>6

(* No other step answers anything about a fence.                           *)
LEMMA OthersNameNone ==
  ASSUME StoreTypeOK, NEW c \in Connections, Next, NamesAFence(answer'[c]),
         answer'[c] # answer[c]
  PROVE  Admit(c)
  <1>1. \A q \in AllRequests :
          q.operation = "admit" => Unavailable(q) = "storage_unavailable"
    BY DEF Unavailable
  <1>2. ASSUME NEW d \in Connections, NEW q \in Requests, Locked(d, q)
        PROVE  FALSE
    <2>1. d = c /\ answer'[c] = Reply(q, Unavailable(q), 0)
      BY <1>2 DEF Locked, StoreTypeOK
    <2>2. q \in AllRequests
      BY StoreAssumption
    <2> QED BY <1>1, <2>1, <2>2 DEF NamesAFence, Reply
  <1>3. ASSUME NEW d \in Connections, Fail(d)
        PROVE  FALSE
    <2>1. d = c /\ answer'[c] = Reply(request[d], Unavailable(request[d]), 0)
      BY <1>3 DEF Fail, Ends, StoreTypeOK
    <2>2. request[d] \in AllRequests
      BY <1>3, HolderSees DEF Fail
    <2> QED BY <1>1, <2>1, <2>2 DEF NamesAFence, Reply
  <1>4. ASSUME NEW d \in Connections,
               \/ Seed(d) \/ Revoke(d) \/ Interrupt(d) \/ Resume(d)
               \/ CreateSession(d)
        PROVE  FALSE
    <2>1. request[d].operation # "admit"
      BY <1>4 DEF Seed, Revoke, Interrupt, Resume, CreateSession, Asks
    <2>2. PICK o, f : Ends(d, o, f)
      BY <1>4, OperationEnds
    <2>3. d = c /\ answer'[c] = Reply(request[d], o, f)
      BY <2>2 DEF Ends, StoreTypeOK
    <2> QED BY <2>1, <2>3 DEF NamesAFence, Reply
  <1>5. ASSUME NEW d \in Connections, NEW q \in Requests, Begin(d, q)
        PROVE  FALSE
    BY <1>5 DEF Begin
  <1>6. ASSUME NEW d \in Connections, Crash(d) \/ Hear(d)
        PROVE  FALSE
    BY <1>6 DEF Crash, Hear, StoreTypeOK, NamesAFence
  <1>7. ASSUME NEW d \in Connections, Admit(d)
        PROVE  d = c
    <2>1. PICK o, f : Ends(d, o, f)
      BY <1>7, OperationEnds
    <2> QED BY <2>1 DEF Ends, StoreTypeOK
  <1> QED BY <1>2, <1>3, <1>4, <1>5, <1>6, <1>7 DEF Next

LEMMA FencesNext ==
  ASSUME StoreInv, FencesAreStored, [Next]_vars
  PROVE  FencesAreStored'
  <1>1. StoreTypeOK /\ StoreTypeOK' /\ RowsStay
    BY InvNext, NextTables, StepKeepsRows DEF StoreInv
  <1> SUFFICES ASSUME NEW c \in Connections, NamesAFence(answer'[c])
               PROVE  Stored(answer[c])'
    BY DEF FencesAreStored, NamesAFence
  <1>2. CASE answer'[c] = answer[c]
    <2>1. answer[c] \in Answers /\ answer[c].session_id # None /\ Stored(answer[c])
      BY <1>1, <1>2 DEF StoreTypeOK, FencesAreStored, NamesAFence
    <2>2. \A a \in Answers : a.session_id # None /\ Stored(a) =>
            LET s == db'.sessions[a.session_id]
                guard == db'.guards[s.lineage_id]
            IN  s # None /\ guard # None /\ guard.fenced /\ guard.fence_id = a.fence_id
      BY <1>1, StoredStays DEF Stored
    <2> QED BY <1>2, <2>1, <2>2 DEF Stored
  <1>3. CASE answer'[c] # answer[c]
    <2>1. Next
      BY <1>3 DEF vars
    <2> QED BY <1>1, <1>3, <2>1, OthersNameNone, AdmitAnswers
  <1> QED BY <1>2, <1>3

(* Whoever hears of a fence, by raising it or by being refused because of  *)
(* it, hears the id that is stored, however many connections, crashes and  *)
(* failures lie between the transaction and its answer.                    *)
THEOREM FenceIsNamed == Spec => []AnswersNameTheFence
  <1>1. Init => FencesAreStored
    BY DEF Init, FencesAreStored, NamesAFence
  <1>2. FencesAreStored => AnswersNameTheFence
    BY DEF FencesAreStored, NamesAFence, Stored, AnswersNameTheFence
  <1>3. StoreInv /\ StoreInv' /\ FencesAreStored /\ [Next]_vars => FencesAreStored'
    BY FencesNext
  <1> QED BY <1>1, <1>2, <1>3, StoreInvariant, PTL DEF Spec

-----------------------------------------------------------------------------
(* Refinement                                                              *)

LEMMA LineageInit == Init => Abstract!Init
BY DEF Init, EmptyDatabase, Abstract!Init, Lineage, WhatIsLeft

(* The lineages after a step that changes the guard of l at most.          *)
LEMMA OneLineage ==
  ASSUME NEW l \in Lineages,
         \A x \in Lineages : x # l => db'.guards[x] = db.guards[x]
  PROVE  Lineage' = [Lineage EXCEPT ![l] = WhatIsLeft(l)']
BY DEF Lineage, WhatIsLeft

LEMMA LineageNext ==
  ASSUME StoreInv, [Next]_vars
  PROVE  Abstract!Next \/ UNCHANGED Lineage
  <1>1. StoreTypeOK /\ TablesStep /\ (\A l \in Lineages : Counted(l))
    BY NextTables, LimitParts DEF StoreInv
  <1>2. ASSUME db'.guards = db.guards PROVE UNCHANGED Lineage
    BY <1>2 DEF Lineage, WhatIsLeft
  <1>3. ASSUME \/ TablesStay
               \/ \E g \in GrantIds : Revokes(g)
               \/ \E s \in SessionIds : Interrupts(s) \/ Resumes(s)
               \/ \E s \in SessionIds, l \in Lineages, g \in GrantIds, h \in Hashes :
                    Creates(s, l, g, h)
        PROVE  UNCHANGED Lineage
    <2>1. db'.guards = db.guards
      BY <1>1, <1>3
         DEF StoreTypeOK, TablesStay, Revokes, Interrupts, Resumes, Creates, Databases
    <2> QED BY <1>2, <2>1
  <1>4. ASSUME NEW g \in GrantIds, NEW h \in Hashes, NEW l \in Lineages,
               NEW s \in SessionIds, NEW n \in Limits, Seeds(g, h, l, s, n)
        PROVE  Abstract!Next
    <2> DEFINE new == [hard_limit |-> n, count |-> 0, fenced |-> FALSE, fence_id |-> 0]
    <2>1. /\ db.guards[l] = None /\ db'.guards = [db.guards EXCEPT ![l] = new]
          /\ db.guards \in [Lineages -> Guards \cup {None}]
      BY <1>1, <1>4 DEF Seeds, StoreTypeOK, Databases
    <2>2. /\ new \in Guards /\ new.hard_limit - new.count = n /\ new.fenced = FALSE
      BY StoreAssumption DEF Guards
    <2>3. /\ db'.guards[l] = new
          /\ \A x \in Lineages : x # l => db'.guards[x] = db.guards[x]
      BY <2>1
    <2> HIDE DEF new
    <2>4. db'.guards[l] # None
      BY <2>2, <2>3, StoreAssumption
    <2>5. WhatIsLeft(l)' = [left |-> n, closed |-> FALSE]
      BY <2>2, <2>3, <2>4 DEF WhatIsLeft
    <2>6. Lineage[l] = None
      BY <2>1 DEF Lineage, WhatIsLeft
    <2>7. Abstract!Open(l, n)
      BY <2>3, <2>5, <2>6, OneLineage DEF Abstract!Open
    <2> QED BY <2>7 DEF Abstract!Next
  <1>5. ASSUME NEW s \in SessionIds, NEW l \in Lineages, NEW g \in GrantIds,
               Admits(s, l, g)
        PROVE  Abstract!Next
    <2>1. /\ db.guards[l].count \in Nat /\ db.guards[l].hard_limit \in Nat
          /\ db.guards[l].count < db.guards[l].hard_limit
          /\ db.guards[l] # None /\ db.guards[l].fenced = FALSE
      BY <1>1, <1>5, AdmitsWrites DEF Guards, Admits, Open
    <2>2. Lineage[l] = [left |-> db.guards[l].hard_limit - db.guards[l].count,
                        closed |-> FALSE]
      BY <2>1 DEF Lineage, WhatIsLeft
    <2>3. WhatIsLeft(l)' =
            [left |-> db.guards[l].hard_limit - (db.guards[l].count + 1),
             closed |-> FALSE]
      BY <1>1, <1>5, <2>1, AdmitsWrites DEF WhatIsLeft
    <2>4. Lineage' = [Lineage EXCEPT ![l] = WhatIsLeft(l)']
      BY <1>1, <1>5, AdmitsWrites, OneLineage
    <2>5. db.guards[l].hard_limit - (db.guards[l].count + 1)
            = (db.guards[l].hard_limit - db.guards[l].count) - 1
      BY <2>1
    <2>6. Lineage[l].left > 0
      BY <2>1, <2>2
    <2>7. Lineage[l] # None
      <3>1. [left |-> db.guards[l].hard_limit - db.guards[l].count, closed |-> FALSE]
              \in [left : Nat, closed : BOOLEAN]
        BY <2>1
      <3> QED BY <2>2, <3>1, StoreAssumption
    <2>8. Abstract!Spend(l)
      <3>1. ~Lineage[l].closed /\ Lineage[l].left > 0
        BY <2>2, <2>6
      <3>2. WhatIsLeft(l)' = [left |-> Lineage[l].left - 1, closed |-> FALSE]
        <4>1. Lineage[l].left = db.guards[l].hard_limit - db.guards[l].count
          <5>1. \A r, n : r = [left |-> n, closed |-> FALSE] => r.left = n
            OBVIOUS
          <5> QED BY <2>2, <5>1, Zenon
        <4> QED BY <2>3, <2>5, <4>1, Zenon
      <3> QED BY <2>4, <2>7, <3>1, <3>2 DEF Abstract!Spend
    <2> QED BY <2>8 DEF Abstract!Next
  <1>6. ASSUME NEW l \in Lineages, RaisesFence(l)
        PROVE  Abstract!Next
    <2> DEFINE new == [db.guards[l] EXCEPT !.fenced = TRUE, !.fence_id = fences + 1]
    <2>1. /\ db.guards[l] \in Guards /\ db.guards[l] # None /\ fences + 1 \in Nat
          /\ db.guards \in [Lineages -> Guards \cup {None}]
          /\ db.guards[l].fenced = FALSE /\ db.guards[l].count >= db.guards[l].hard_limit
          /\ db'.guards = [db.guards EXCEPT ![l] = new]
      BY <1>1, <1>6, Rows DEF RaisesFence, Open, StoreTypeOK, Databases, Guards
    <2>2. db.guards[l].count <= db.guards[l].hard_limit
      BY <1>1, <2>1 DEF Counted
    <2>3. db.guards[l].hard_limit - db.guards[l].count = 0
      BY <2>1, <2>2 DEF Guards
    <2>4. /\ new \in Guards /\ new.fenced = TRUE
          /\ new.hard_limit = db.guards[l].hard_limit /\ new.count = db.guards[l].count
      BY <2>1 DEF Guards
    <2>5. /\ db'.guards[l] = new
          /\ \A x \in Lineages : x # l => db'.guards[x] = db.guards[x]
      BY <2>1
    <2> HIDE DEF new
    <2>6. db'.guards[l] # None
      BY <2>4, <2>5, StoreAssumption
    <2>7. Lineage[l] = [left |-> 0, closed |-> FALSE]
      BY <2>1, <2>3 DEF Lineage, WhatIsLeft
    <2>8. WhatIsLeft(l)' = [left |-> 0, closed |-> TRUE]
      BY <2>3, <2>4, <2>5, <2>6 DEF WhatIsLeft
    <2>9. Lineage[l] # None /\ ~Lineage[l].closed /\ Lineage[l].left = 0
      <3>1. [left |-> 0, closed |-> FALSE] \in [left : Nat, closed : BOOLEAN]
        OBVIOUS
      <3>2. Lineage[l] # None
        BY <2>7, <3>1, StoreAssumption
      <3>3. Lineage[l].left = 0 /\ ~Lineage[l].closed
        <4>1. \A r : r = [left |-> 0, closed |-> FALSE] => r.left = 0 /\ ~r.closed
          OBVIOUS
        <4> QED BY <2>7, <4>1, Zenon
      <3> QED BY <3>2, <3>3
    <2>10. Abstract!Close(l)
      BY <2>5, <2>8, <2>9, OneLineage DEF Abstract!Close
    <2> QED BY <2>10 DEF Abstract!Next
  <1> QED BY <1>1, <1>3, <1>4, <1>5, <1>6 DEF TablesStep

(* From outside, the store is one guard per lineage.                       *)
THEOREM StoreImplementsGuard == Spec => ImplementsLineageGuard
  <1>1. StoreInv /\ [Next]_vars => [Abstract!Next]_Lineage
    BY LineageNext
  <1> QED BY <1>1, LineageInit, StoreInvariant, PTL
          DEF Spec, ImplementsLineageGuard, Abstract!Spec
=============================================================================
