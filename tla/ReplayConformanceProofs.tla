------------------------ MODULE ReplayConformanceProofs -----------------------
(***************************************************************************)
(* The incremental validator decides exactly the rules of                  *)
(* ReplayConformance, for every set of records, bundles of any length and  *)
(* every bound on the diagnostics.                                         *)
(*                                                                         *)
(* The rules speak of the whole sequence of records, the validator keeps a *)
(* state, a few flags and epochs.  The inductive invariant, ConformanceInv, *)
(* says what each of them stands for in the records read so far, as long   *)
(* as these break no rule: the state is the one of the last transition, an  *)
(* epoch newer than a stream's is a gap behind its last first transmission, *)
(* and so on (Reflects).  A record then breaks a rule exactly when the      *)
(* reducer reports an error for it, and a rule once broken stays broken,    *)
(* because no rule about a record depends on a later one.                   *)
(***************************************************************************)
EXTENDS ReplayReducerProofs

(* What the validator's state says of the records it has read.             *)

Initial(g) == IF g > 1 THEN "interrupted" ELSE "absent"

(* The last of the positions in T; before the first record there is none.  *)
LastOf(T) == IF T = {} THEN 0 ELSE Max(T)

(* Gaps after position p.                                                  *)
CaptureGapAfter(h, p) == \E c \in At(h, "capture_gap") : p < c
EventGapAfter(h, s, p) == \E c \in At(h, "event_gap") : p < c /\ h[c].subscription = s

(* The first transmissions in stream k, and the terminal answers to d.      *)
Firsts(h, k) == {j \in At(h, "event_delivery") : Key(h[j]) = k /\ IsFirst(h, j)}
Terminals(h, d) ==
  {j \in At(h, "event_ack") : /\ Min(Transmissions(h, d)) < j
                              /\ h[j].delivery = d
                              /\ h[j].outcome \in TerminalOutcomes}

SessionReflects(h) ==
  LET T == At(h, "session_transition")
  IN  /\ session_transitions = 0 <=> T = {}
      /\ session_state = IF T = {} THEN Initial(session_generation) ELSE h[Max(T)].next
      /\ session_gap_pending <=> CaptureGapAfter(h, LastOf(T))

OccurrencesReflect(h) ==
  /\ \A o \in DOMAIN occurrence_hashes :
       \E j \in At(h, "event_delivery") : h[j].occurrence = o
  /\ \A j \in At(h, "event_delivery") :
       /\ h[j].occurrence \in DOMAIN occurrence_hashes
       /\ occurrence_hashes[h[j].occurrence] = h[j].hash

DeliveryReflects(h, d) ==
  LET T == Transmissions(h, d)
  IN  /\ \A j \in T : Identity(deliveries[d]) = Identity(h[j])
      /\ deliveries[d].last_attempt = h[Max(T)].attempt
      /\ deliveries[d].terminal_ack = None <=> Terminals(h, d) = {}
      /\ \A j \in Terminals(h, d) : deliveries[d].terminal_ack = Answer(h[j])

DeliveriesReflect(h) ==
  /\ \A d \in Deliveries : d \in DOMAIN deliveries <=> Transmissions(h, d) # {}
  /\ \A d \in DOMAIN deliveries : DeliveryReflects(h, d)

StreamReflects(h, k) ==
  LET p == Max(Firsts(h, k))
  IN  /\ streams[k].sequence = h[p].sequence
      /\ streams[k].delivery = h[p].delivery
      /\ capture_gap_epoch > streams[k].capture_gap_epoch <=> CaptureGapAfter(h, p)
      /\ protocol_gap_epochs[k[1]] > streams[k].protocol_gap_epoch
           <=> EventGapAfter(h, k[1], p)

StreamsReflect(h) ==
  /\ \A k \in StreamKeys : k \in DOMAIN streams <=> Firsts(h, k) # {}
  /\ \A k \in DOMAIN streams : StreamReflects(h, k)

GapsReflect(h) ==
  /\ capture_gaps > 0 <=> CaptureGapAfter(h, 0)
  /\ validated_capture_gaps > 0 <=> CaptureGapAfter(h, 0)
  /\ capture_gap_epoch > 0 <=> CaptureGapAfter(h, 0)
  /\ \A s \in Subscriptions : protocol_gap_epochs[s] > 0 <=> EventGapAfter(h, s, 0)

Waits(h, d) ==
  \E j \in At(h, "event_ack") :
    h[j].delivery = d /\ \A m \in Transmissions(h, d) : j < m

PendingReflects(h) ==
  \A d \in Deliveries : (\E i \in 1..Len(pending) : pending[i] = d) <=> Waits(h, d)

ReportReflects(h) ==
  /\ report.incomplete <=> capture.partial \/ Gaps(h) # {}
  /\ Gaps(h) # {} => report.summaries["GAP"]["incomplete"] > 0

Reflects(h) ==
  /\ SessionReflects(h) /\ OccurrencesReflect(h) /\ DeliveriesReflect(h)
  /\ StreamsReflect(h) /\ GapsReflect(h) /\ PendingReflects(h)
  /\ ReportReflects(h) /\ ~initial_session_error_reported

Finished ==
  \/ preflight_failed
  \/ /\ report.has_errors <=> ~Acceptable(read, session_generation, capture)
     /\ ~report.has_errors => ReportReflects(read)

ConformanceInv ==
  /\ validated_capture_gaps \in Nat /\ read \in Seq(Records)
  /\ phase \in {"preflight", "records", "done"} /\ capture.partial \in BOOLEAN
  /\ phase # "done" => ~preflight_failed
  /\ phase = "preflight" => read = <<>> /\ ~report.has_errors
  /\ phase # "done" /\ ~report.has_errors => Reflects(read)
  /\ phase # "done" => (report.has_errors <=> ~LegalSoFar(read, session_generation))
  /\ phase = "done" => Finished /\ (preflight_failed => report.has_errors)

(* The rule of the one record at position i.                               *)
RecordLegal(h, g, i) ==
  /\ h[i].kind = "session_transition" => TransitionLegal(h, g, i)
  /\ h[i].kind = "event_delivery" => DeliveryLegal(h, i)
  /\ h[i].kind = "event_ack" => AckLegal(h, i)
  /\ h[i].kind = "event_gap" => h[i].form = "exact" /\ Begun(h, i)
  /\ h[i].kind = "capture_gap" => h[i].form = "exact"

-------------------------------------------------------------------------------
(* Positions in a history                                                  *)

(* The first and the last of some positions, and how they move with one
   more. *)
LEMMA Extremes ==
  ASSUME NEW n \in Nat, NEW T \in SUBSET (1..n)
  PROVE  /\ T # {} => /\ Max(T) \in T /\ \A y \in T : y <= Max(T)
                      /\ Min(T) \in T /\ \A y \in T : Min(T) <= y
                      /\ Min(T \cup {n + 1}) = Min(T)
         /\ Max(T \cup {n + 1}) = n + 1
         /\ Min({n + 1}) = n + 1
         /\ LastOf(T) \in 0..n
         /\ \A x \in T : (\A y \in T : x <= y) => Min(T) = x
  <1>1. ASSUME NEW m \in Nat, NEW U \in SUBSET (1..m), U # {}
        PROVE  /\ Max(U) \in U /\ \A y \in U : y <= Max(U)
               /\ Min(U) \in U /\ \A y \in U : Min(U) <= y
    <2>1. U \in SUBSET (0..m) /\ U \in SUBSET Nat /\ \A y \in U : y \in Nat
      OBVIOUS
    <2>2. PICK x \in U : \A y \in U : x >= y
      BY <1>1, <2>1, GreatestNumber
    <2>3. PICK z \in U : \A y \in U : z <= y
      BY <1>1, <2>1, LeastNumber
    <2>4. Max(U) \in U /\ \A y \in U : Max(U) >= y
      BY <2>2 DEF Max
    <2>5. Min(U) \in U /\ \A y \in U : Min(U) <= y
      BY <2>3 DEF Min
    <2> QED BY <2>1, <2>4, <2>5
  <1> DEFINE m == n + 1
             U == T \cup {m}
             W == {m}
  <1>2. /\ m \in Nat /\ \A y \in T : y \in Nat /\ y < m
        /\ U \in SUBSET (1..m) /\ U # {} /\ W \in SUBSET (1..m) /\ W # {}
        /\ \A y : y \in U <=> y \in T \/ y = m
        /\ \A y : y \in W <=> y = m
    OBVIOUS
  <1>t. \A y \in T : y \in 1..n
    OBVIOUS
  <1> HIDE DEF U, W, m
  <1>3. /\ Max(U) \in U /\ \A y \in U : y <= Max(U)
        /\ Min(U) \in U /\ \A y \in U : Min(U) <= y
    BY <1>1, <1>2
  <1>4. Max(U) = m
    <2>1. m \in U /\ (Max(U) \in T \/ Max(U) = m)
      BY <1>2, <1>3
    <2>2. m <= Max(U)
      BY <1>3, <2>1
    <2>3. Max(U) \in T => Max(U) \in Nat /\ Max(U) < m
      BY <1>2
    <2> DEFINE x == Max(U)
    <2> HIDE DEF x
    <2>4. m \in Nat /\ m <= x /\ (x \in T => x \in Nat /\ x < m) /\ (x \in T \/ x = m)
      BY <1>2, <2>1, <2>2, <2>3 DEF x
    <2>5. x = m
      BY <2>4
    <2> QED BY <2>5 DEF x
  <1>5. Min(W) = m
    <2>1. Min(W) \in W
      BY <1>1, <1>2
    <2> QED BY <1>2, <2>1
  <1>6. ASSUME T # {}
        PROVE  /\ Max(T) \in T /\ \A y \in T : y <= Max(T)
               /\ Min(T) \in T /\ \A y \in T : Min(T) <= y
    BY <1>1, <1>6
  <1>7. ASSUME T # {}
        PROVE  Min(U) = Min(T)
    <2> DEFINE x == Min(U)
               z == Min(T)
    <2>1. z \in T /\ z \in U /\ x \in U /\ z \in Nat /\ z < m /\ m \in Nat
      BY <1>2, <1>3, <1>6, <1>7
    <2>2. x <= z /\ (x \in T => z <= x /\ x \in Nat)
      BY <1>2, <1>3, <1>6, <1>7, <2>1
    <2>3. x \in T \/ x = m
      BY <1>2, <2>1
    <2> HIDE DEF x, z
    <2>4. x = z
      BY <2>1, <2>2, <2>3
    <2> QED BY <2>4 DEF x, z
  <1>8. LastOf(T) \in 0..n
    <2>1. CASE T = {}
      BY <2>1 DEF LastOf
    <2>2. CASE T # {}
      <3>1. LastOf(T) \in T
        BY <1>6, <2>2 DEF LastOf
      <3>2. \A y \in T : y \in 0..n
        BY <1>t
      <3> QED BY <3>1, <3>2
    <2> QED BY <2>1, <2>2
  <1>9. ASSUME NEW x \in T, \A y \in T : x <= y
        PROVE  Min(T) = x
    <2> DEFINE z == Min(T)
    <2>1. z \in T /\ z <= x /\ x <= z /\ x \in Nat /\ z \in Nat
      BY <1>2, <1>6, <1>9
    <2> HIDE DEF z
    <2>2. z = x
      BY <2>1
    <2> QED BY <2>2 DEF z
  <1> QED
    BY <1>4, <1>5, <1>6, <1>7, <1>8, <1>9 DEF U, W, m

(* Where things stand in a history, and how they move with one more record. *)
IsHistory(h) == h \in Seq(Records)
Grows(h, r, H) == IsHistory(h) /\ r \in Records /\ H = Append(h, r)

(* Every set of positions a rule looks at lies within the history.         *)
LEMMA Positions ==
  ASSUME NEW h, IsHistory(h)
  PROVE  /\ Len(h) \in Nat /\ DOMAIN h = 1..Len(h)
         /\ \A i \in 1..Len(h) : h[i] \in Records
         /\ \A k : At(h, k) \in SUBSET (1..Len(h)) /\ \A i \in At(h, k) : h[i].kind = k
         /\ \A d : /\ Transmissions(h, d) \in SUBSET (1..Len(h))
                   /\ Transmissions(h, d) \in SUBSET At(h, "event_delivery")
         /\ \A k : Firsts(h, k) \in SUBSET (1..Len(h))
         /\ \A d : Terminals(h, d) \in SUBSET (1..Len(h))
  BY DEF IsHistory, At, Transmissions, Firsts, Terminals

(* One more record adds its own position to those of its kind and its
   delivery. *)
LEMMA Appended ==
  ASSUME NEW h, NEW r, NEW H, Grows(h, r, H)
  PROVE  /\ IsHistory(H) /\ Len(H) = Len(h) + 1
         /\ H[Len(h) + 1] = r
         /\ \A i \in 1..Len(h) : H[i] = h[i]
         /\ \A k : At(H, k) = IF r.kind = k THEN At(h, k) \cup {Len(h) + 1} ELSE At(h, k)
         /\ \A d : Transmissions(H, d) =
              IF r.kind = "event_delivery" /\ r.delivery = d
                THEN Transmissions(h, d) \cup {Len(h) + 1} ELSE Transmissions(h, d)
  <1>1. /\ h \in Seq(Records) /\ r \in Records /\ H = Append(h, r)
        /\ Len(h) \in Nat /\ DOMAIN h = 1..Len(h)
    BY DEF Grows, IsHistory
  <1>2. /\ H \in Seq(Records) /\ Len(H) = Len(h) + 1 /\ DOMAIN H = 1..(Len(h) + 1)
        /\ H[Len(h) + 1] = r
        /\ \A i \in 1..Len(h) : H[i] = h[i]
    BY <1>1
  <1>3. \A i : i \in 1..(Len(h) + 1) <=> i \in 1..Len(h) \/ i = Len(h) + 1
    BY <1>1
  <1>4. ASSUME NEW k
        PROVE  At(H, k) = IF r.kind = k THEN At(h, k) \cup {Len(h) + 1} ELSE At(h, k)
    BY <1>1, <1>2, <1>3 DEF At
  <1>5. ASSUME NEW d
        PROVE  Transmissions(H, d) =
                 IF r.kind = "event_delivery" /\ r.delivery = d
                   THEN Transmissions(h, d) \cup {Len(h) + 1} ELSE Transmissions(h, d)
    <2>1. \A i \in At(h, "event_delivery") : H[i] = h[i]
      BY <1>1, <1>2 DEF At
    <2> QED BY <1>2, <1>4, <2>1 DEF Transmissions
  <1> QED BY <1>2, <1>4, <1>5 DEF IsHistory

(* What a rule about position i asks of a history is about its past: one    *)
(* more record changes none of it.                                         *)
LEMMA SamePast ==
  ASSUME NEW h, NEW r, NEW H, Grows(h, r, H), NEW i \in 1..Len(h)
  PROVE  /\ H[i] = h[i]
         /\ \A k : {j \in At(H, k) : j < i} = {j \in At(h, k) : j < i}
         /\ \A k : {j \in At(H, k) : j <= i} = {j \in At(h, k) : j <= i}
         /\ \A d : {j \in Transmissions(H, d) : j < i} = {j \in Transmissions(h, d) : j < i}
         /\ \A d : Transmissions(h, d) # {} =>
              Min(Transmissions(H, d)) = Min(Transmissions(h, d))
         /\ \A k : \A a : Between(H, k, a, i) <=> Between(h, k, a, i)
         /\ \A s : \A a : ProtocolGapBetween(H, s, a, i) <=> ProtocolGapBetween(h, s, a, i)
         /\ \A d : Transmissions(h, d) # {} => (Answered(H, d, i) <=> Answered(h, d, i))
         /\ Begun(H, i) <=> Begun(h, i)
  <1> DEFINE n == Len(h)
  <1>1. /\ \A j \in 1..n : H[j] = h[j]
        /\ \A k : At(H, k) = IF r.kind = k THEN At(h, k) \cup {n + 1} ELSE At(h, k)
        /\ \A d : Transmissions(H, d) =
             IF r.kind = "event_delivery" /\ r.delivery = d
               THEN Transmissions(h, d) \cup {n + 1} ELSE Transmissions(h, d)
    BY Appended
  <1>2. n \in Nat /\ \A k : At(h, k) \in SUBSET (1..n)
    BY Positions DEF Grows
  <1>3. \A d : Transmissions(h, d) \in SUBSET (1..n)
    BY Positions DEF Grows
  <1>4. i \in 1..n
    OBVIOUS
  <1> HIDE DEF n
  <1>5. ~(n + 1 < i) /\ ~(n + 1 <= i)
    BY <1>2, <1>4
  <1>6. ASSUME NEW k, NEW j
        PROVE  /\ j < i => (j \in At(H, k) <=> j \in At(h, k))
               /\ j <= i => (j \in At(H, k) <=> j \in At(h, k))
    BY <1>1, <1>5
  <1>7. ASSUME NEW d, NEW j, j < i
        PROVE  j \in Transmissions(H, d) <=> j \in Transmissions(h, d)
    BY <1>1, <1>5, <1>7
  <1>8. ASSUME NEW d, Transmissions(h, d) # {}
        PROVE  Min(Transmissions(H, d)) = Min(Transmissions(h, d))
    BY <1>1, <1>2, <1>3, <1>8, Extremes
  <1>9. \A k : \A j \in At(h, k) : H[j] = h[j]
    BY <1>1, <1>2
  <1>10. ASSUME NEW k, NEW a
         PROVE  Between(H, k, a, i) <=> Between(h, k, a, i)
    BY <1>6 DEF Between
  <1>11. ASSUME NEW s, NEW a
         PROVE  ProtocolGapBetween(H, s, a, i) <=> ProtocolGapBetween(h, s, a, i)
    BY <1>6, <1>9 DEF ProtocolGapBetween
  <1>12. ASSUME NEW d, Transmissions(h, d) # {}
         PROVE  Answered(H, d, i) <=> Answered(h, d, i)
    BY <1>6, <1>8, <1>9, <1>12 DEF Answered
  <1>13. Begun(H, i) <=> Begun(h, i)
    BY <1>6 DEF Begun
  <1>14. \A k : {j \in At(H, k) : j < i} = {j \in At(h, k) : j < i}
    BY <1>6
  <1>15. \A k : {j \in At(H, k) : j <= i} = {j \in At(h, k) : j <= i}
    BY <1>6
  <1>16. \A d : {j \in Transmissions(H, d) : j < i} = {j \in Transmissions(h, d) : j < i}
    BY <1>7
  <1> QED
    BY <1>1, <1>4, <1>8, <1>10, <1>11, <1>12, <1>13, <1>14, <1>15, <1>16

(* First transmissions stay the first.                                     *)
LEMMA FirstsStay ==
  ASSUME NEW h, NEW r, NEW H, Grows(h, r, H)
  PROVE  /\ \A j \in At(h, "event_delivery") : IsFirst(H, j) <=> IsFirst(h, j)
         /\ r.kind = "event_delivery" =>
              (IsFirst(H, Len(h) + 1) <=> Transmissions(h, r.delivery) = {})
  <1>1. /\ \A j \in 1..Len(h) : H[j] = h[j]
        /\ H[Len(h) + 1] = r
        /\ \A d : Transmissions(H, d) =
             IF r.kind = "event_delivery" /\ r.delivery = d
               THEN Transmissions(h, d) \cup {Len(h) + 1} ELSE Transmissions(h, d)
    BY Appended
  <1>2. /\ Len(h) \in Nat
        /\ \A k : At(h, k) \in SUBSET (1..Len(h))
        /\ \A d : Transmissions(h, d) \in SUBSET (1..Len(h))
    BY Positions DEF Grows
  <1>3. \A d : Transmissions(h, d) # {} =>
          /\ Min(Transmissions(H, d)) = Min(Transmissions(h, d))
          /\ Min(Transmissions(h, d)) \in Transmissions(h, d)
    BY <1>1, <1>2, Extremes
  <1>4. ASSUME NEW j \in At(h, "event_delivery")
        PROVE  IsFirst(H, j) <=> IsFirst(h, j)
    <2>1. j \in Transmissions(h, h[j].delivery) /\ H[j] = h[j]
      BY <1>1, <1>2 DEF Transmissions
    <2> QED BY <1>3, <2>1 DEF IsFirst
  <1>5. ASSUME r.kind = "event_delivery"
        PROVE  IsFirst(H, Len(h) + 1) <=> Transmissions(h, r.delivery) = {}
    <2> DEFINE d == r.delivery
               n == Len(h)
    <2>1. CASE Transmissions(h, d) = {}
      <3>1. Transmissions(H, d) = {n + 1}
        BY <1>1, <1>5, <2>1
      <3>2. Min({n + 1}) = n + 1
        BY <1>2, Extremes
      <3> QED BY <1>1, <2>1, <3>1, <3>2 DEF IsFirst
    <2>2. CASE Transmissions(h, d) # {}
      <3>1. Min(Transmissions(H, d)) \in 1..n
        BY <1>2, <1>3, <2>2
      <3>2. Min(Transmissions(H, d)) # n + 1
        BY <1>2, <3>1
      <3> QED BY <1>1, <2>2, <3>2 DEF IsFirst
    <2> QED BY <2>1, <2>2
  <1> QED BY <1>4, <1>5

(* A rule once broken stays broken, and one that was kept stays kept.       *)
LEMMA RulesStay ==
  ASSUME NEW h, NEW r, NEW H, Grows(h, r, H), NEW g, NEW i \in 1..Len(h)
  PROVE  RecordLegal(H, g, i) <=> RecordLegal(h, g, i)
  <1>1. /\ H[i] = h[i]
        /\ \A k : {j \in At(H, k) : j < i} = {j \in At(h, k) : j < i}
        /\ \A d : {j \in Transmissions(H, d) : j < i} = {j \in Transmissions(h, d) : j < i}
        /\ \A d : Transmissions(h, d) # {} =>
             Min(Transmissions(H, d)) = Min(Transmissions(h, d))
        /\ \A k : \A a : Between(H, k, a, i) <=> Between(h, k, a, i)
        /\ \A s : \A a : ProtocolGapBetween(H, s, a, i) <=> ProtocolGapBetween(h, s, a, i)
        /\ \A d : Transmissions(h, d) # {} => (Answered(H, d, i) <=> Answered(h, d, i))
        /\ Begun(H, i) <=> Begun(h, i)
    BY SamePast
  <1>2. /\ Len(h) \in Nat
        /\ \A k : At(h, k) \in SUBSET (1..Len(h))
        /\ \A d : Transmissions(h, d) \in SUBSET (1..Len(h))
        /\ \A j \in 1..Len(h) : H[j] = h[j]
    BY Positions, Appended DEF Grows
  <1>3. \A j \in At(h, "event_delivery") : IsFirst(H, j) <=> IsFirst(h, j)
    BY FirstsStay
  <1>4. \A m \in SUBSET (1..Len(h)) : m # {} => Max(m) \in m /\ H[Max(m)] = h[Max(m)]
    BY <1>2, Extremes
  <1>5. \A k : {j \in At(h, k) : j < i} \in SUBSET (1..Len(h))
    BY <1>2
  <1>6. \A k : \A j : j \in At(H, k) /\ j < i <=> j \in At(h, k) /\ j < i
    BY <1>1
  <1>7. ASSUME h[i].kind = "session_transition"
        PROVE  TransitionLegal(H, g, i) <=> TransitionLegal(h, g, i)
    <2> DEFINE before == {j \in At(h, "session_transition") : j < i}
               gap == Between(h, "capture_gap", IF before = {} THEN 0 ELSE Max(before), i)
    <2>1. /\ {j \in At(H, "session_transition") : j < i} = before
          /\ Between(H, "capture_gap", IF before = {} THEN 0 ELSE Max(before), i) <=> gap
          /\ before # {} => H[Max(before)] = h[Max(before)]
      BY <1>1, <1>4, <1>5
    <2> HIDE DEF before, gap
    <2>2. TransitionLegal(H, g, i) <=>
            /\ h[i].form \in {"exact", "empty_reason"}
            /\ h[i].generation = g
            /\ IF before = {}
                 THEN \/ <<h[i].prior, h[i].next>> \in Beginning(g)
                      \/ gap /\ <<h[i].prior, h[i].next>> \in Lifecycle
                 ELSE /\ <<h[i].prior, h[i].next>> \in Lifecycle
                      /\ \/ h[i].prior = h[Max(before)].next
                         \/ gap /\ h[Max(before)].next \notin Terminal
      BY <1>1, <2>1 DEF TransitionLegal
    <2> QED
      BY <2>2 DEF TransitionLegal, before, gap
  <1>8. ASSUME h[i].kind = "event_delivery"
        PROVE  DeliveryLegal(H, i) <=> DeliveryLegal(h, i)
    <2> DEFINE d == h[i].delivery
    <2>0. i \in At(h, "event_delivery") /\ i \in Transmissions(h, d)
      BY <1>2, <1>8, Positions DEF At, Transmissions, Grows
    <2>1. IsFirst(H, i) <=> IsFirst(h, i)
      BY <1>3, <2>0
    <2>2. ASSUME ~IsFirst(h, i)
          PROVE  RetransmissionLegal(H, i) <=> RetransmissionLegal(h, i)
      <3> DEFINE B == {j \in Transmissions(h, d) : j < i}
      <3>1. Answered(H, d, i) <=> Answered(h, d, i)
        BY <1>1, <2>0
      <3>2. {j \in Transmissions(H, d) : j < i} = B
        BY <1>1
      <3>3. B # {}
        <4>1. /\ Min(Transmissions(h, d)) \in Transmissions(h, d)
              /\ Min(Transmissions(h, d)) <= i
          BY <1>2, <2>0, Extremes
        <4>2. Min(Transmissions(h, d)) # i
          BY <2>2 DEF IsFirst
        <4>3. Min(Transmissions(h, d)) \in 1..Len(h)
          BY <1>2, <4>1
        <4>4. Min(Transmissions(h, d)) < i
          BY <1>2, <4>1, <4>2, <4>3
        <4> QED BY <4>1, <4>4
      <3>4. H[Max(B)] = h[Max(B)]
        BY <1>2, <1>4, <3>3
      <3> QED BY <1>1, <3>1, <3>2, <3>4 DEF RetransmissionLegal
    <2>3. FirstTransmissionLegal(H, i) <=> FirstTransmissionLegal(h, i)
      <3> DEFINE B == {j \in At(h, "event_delivery") :
                         j < i /\ Key(h[j]) = Key(h[i]) /\ IsFirst(h, j)}
                 p == IF B = {} THEN 0 ELSE Max(B)
      <3>1. {j \in At(H, "event_delivery") :
               j < i /\ Key(H[j]) = Key(H[i]) /\ IsFirst(H, j)} = B
        <4>1. \A j \in At(h, "event_delivery") : H[j] = h[j]
          BY <1>2
        <4> QED BY <1>1, <1>3, <1>6, <4>1
      <3>2. B # {} => /\ H[p] = h[p] /\ p \in At(h, "event_delivery")
                      /\ Transmissions(h, h[p].delivery) # {}
        <4>1. B \in SUBSET (1..Len(h)) /\ B \in SUBSET At(h, "event_delivery")
          BY <1>2
        <4>2. B # {} => p \in B /\ H[p] = h[p]
          BY <1>4, <4>1
        <4>3. \A j \in At(h, "event_delivery") : j \in Transmissions(h, h[j].delivery)
          BY DEF Transmissions
        <4> QED BY <4>1, <4>2, <4>3
      <3>3. B # {} => (Answered(H, h[p].delivery, i) <=> Answered(h, h[p].delivery, i))
        BY <1>1, <3>2
      <3> HIDE DEF B
      <3>4. /\ Between(H, "capture_gap", 0, i) <=> Between(h, "capture_gap", 0, i)
            /\ Between(H, "capture_gap", p, i) <=> Between(h, "capture_gap", p, i)
            /\ ProtocolGapBetween(H, h[i].subscription, p, i)
                 <=> ProtocolGapBetween(h, h[i].subscription, p, i)
        BY <1>1
      <3>5. FirstTransmissionLegal(H, i) <=>
              LET position == IF B = {} THEN 0 ELSE h[p].sequence
                  acked == B = {} \/ Answered(h, h[p].delivery, i)
              IN  /\ h[i].attempt = 1 \/ Between(h, "capture_gap", 0, i)
                  /\ h[i].sequence > position
                  /\ \/ Between(h, "capture_gap", p, i)
                     \/ acked /\ (\/ h[i].sequence = position + 1
                                  \/ ProtocolGapBetween(h, h[i].subscription, p, i))
        <4>1. FirstTransmissionLegal(H, i) <=>
                LET position == IF B = {} THEN 0 ELSE H[p].sequence
                    acked == B = {} \/ Answered(H, H[p].delivery, i)
                IN  /\ H[i].attempt = 1 \/ Between(H, "capture_gap", 0, i)
                    /\ H[i].sequence > position
                    /\ \/ Between(H, "capture_gap", p, i)
                       \/ acked /\ (\/ H[i].sequence = position + 1
                                    \/ ProtocolGapBetween(H, H[i].subscription, p, i))
          BY <3>1 DEF FirstTransmissionLegal
        <4>2. H[i] = h[i]
          BY <1>1
        <4> HIDE DEF p
        <4> QED BY <3>2, <3>3, <3>4, <4>1, <4>2
      <3> QED BY <3>5 DEF FirstTransmissionLegal, B
    <2>4. \A j : j \in At(H, "event_delivery") /\ j < i
                  => j \in At(h, "event_delivery") /\ H[j] = h[j]
      BY <1>2, <1>6
    <2>5. (\A j \in At(H, "event_delivery") :
             j < i /\ H[j].occurrence = H[i].occurrence => H[j].hash = H[i].hash)
          <=> (\A j \in At(h, "event_delivery") :
                 j < i /\ h[j].occurrence = h[i].occurrence => h[j].hash = h[i].hash)
      BY <1>1, <1>6, <2>4
    <2> QED
      BY <1>1, <2>1, <2>2, <2>3, <2>5 DEF DeliveryLegal
  <1>9. ASSUME h[i].kind = "event_ack"
        PROVE  AckLegal(H, i) <=> AckLegal(h, i)
    <2> DEFINE sent == {j \in Transmissions(h, h[i].delivery) : j < i}
    <2>1. /\ {j \in Transmissions(H, h[i].delivery) : j < i} = sent
          /\ \A j \in sent : H[j] = h[j]
      BY <1>1, <1>2
    <2>2. \A j : j \in At(H, "event_ack") /\ j < i
                  => j \in At(h, "event_ack") /\ H[j] = h[j]
      BY <1>2, <1>6
    <2> HIDE DEF sent
    <2>3. (\A j \in At(H, "event_ack") :
             /\ Min(sent) < j /\ j < i
             /\ H[j].delivery = h[i].delivery
             /\ H[j].outcome \in TerminalOutcomes
             => Answer(H[j]) = Answer(h[i]))
          <=> (\A j \in At(h, "event_ack") :
                 /\ Min(sent) < j /\ j < i
                 /\ h[j].delivery = h[i].delivery
                 /\ h[j].outcome \in TerminalOutcomes
                 => Answer(h[j]) = Answer(h[i]))
      BY <1>6, <2>2
    <2> QED
      BY <1>1, <2>1, <2>3 DEF AckLegal, sent
  <1> QED
    BY <1>1, <1>7, <1>8, <1>9 DEF RecordLegal

(* The rules of all records are the rules of each.                         *)
LEMMA LegalByRecord ==
  ASSUME NEW h, IsHistory(h), NEW g
  PROVE  LegalSoFar(h, g) <=> \A i \in 1..Len(h) : RecordLegal(h, g, i)
  <1>1. DOMAIN h = 1..Len(h)
    BY Positions
  <1> QED BY <1>1 DEF LegalSoFar, RecordLegal, At

(* One more record breaks a rule itself or leaves all rules as they were.  *)
LEMMA LegalGrows ==
  ASSUME NEW h, NEW r, NEW H, Grows(h, r, H), NEW g
  PROVE  LegalSoFar(H, g) <=> LegalSoFar(h, g) /\ RecordLegal(H, g, Len(h) + 1)
  <1>1. /\ IsHistory(h) /\ IsHistory(H) /\ Len(H) = Len(h) + 1 /\ Len(h) \in Nat
    BY Appended, Positions DEF Grows
  <1>2. \A i : i \in 1..Len(H) <=> i \in 1..Len(h) \/ i = Len(h) + 1
    BY <1>1
  <1>3. \A i \in 1..Len(h) : RecordLegal(H, g, i) <=> RecordLegal(h, g, i)
    BY RulesStay
  <1> QED BY <1>1, <1>2, <1>3, LegalByRecord

-------------------------------------------------------------------------------
(* The findings of a record                                                *)

Wrong(fs) == \E i \in 1..Len(fs) : fs[i].severity = "error"
Lacking(fs) == \E i \in 1..Len(fs) : fs[i].severity = "incomplete"
ListsGap(fs) == \E i \in 1..Len(fs) : fs[i].check = "GAP" /\ fs[i].severity = "incomplete"

(* Findings put together are wrong or lacking where one part is.           *)
LEMMA OneAfterAnother ==
  ASSUME NEW a \in Seq(Findings), NEW b \in Seq(Findings)
  PROVE  /\ a \o b \in Seq(Findings)
         /\ Wrong(a \o b) <=> Wrong(a) \/ Wrong(b)
         /\ Lacking(a \o b) <=> Lacking(a) \/ Lacking(b)
         /\ ListsGap(a \o b) <=> ListsGap(a) \/ ListsGap(b)
  <1> DEFINE c == a \o b
  <1>1. /\ c \in Seq(Findings) /\ Len(a) \in Nat /\ Len(b) \in Nat
        /\ Len(c) = Len(a) + Len(b)
        /\ \A i \in 1..Len(a) : c[i] = a[i]
        /\ \A i \in 1..Len(b) : c[Len(a) + i] = b[i]
    OBVIOUS
  <1> HIDE DEF c
  <1>2. /\ \A i \in 1..Len(a) : i \in 1..Len(c)
        /\ \A i \in 1..Len(b) : Len(a) + i \in 1..Len(c)
        /\ \A i \in 1..Len(c) : \/ i \in 1..Len(a)
                                \/ i - Len(a) \in 1..Len(b) /\ i = Len(a) + (i - Len(a))
    BY <1>1
  <1>3. \A i \in 1..Len(c) : \/ i \in 1..Len(a) /\ c[i] = a[i]
                             \/ i - Len(a) \in 1..Len(b) /\ c[i] = b[i - Len(a)]
    BY <1>1, <1>2
  <1>4. Wrong(c) <=> Wrong(a) \/ Wrong(b)
    <2>1. Wrong(c) => Wrong(a) \/ Wrong(b)
      BY <1>3 DEF Wrong
    <2>2. Wrong(a) => Wrong(c)
      BY <1>1, <1>2 DEF Wrong
    <2>3. Wrong(b) => Wrong(c)
      BY <1>1, <1>2 DEF Wrong
    <2> QED BY <2>1, <2>2, <2>3
  <1>5. Lacking(c) <=> Lacking(a) \/ Lacking(b)
    <2>1. Lacking(c) => Lacking(a) \/ Lacking(b)
      BY <1>3 DEF Lacking
    <2>2. Lacking(a) => Lacking(c)
      BY <1>1, <1>2 DEF Lacking
    <2>3. Lacking(b) => Lacking(c)
      BY <1>1, <1>2 DEF Lacking
    <2> QED BY <2>1, <2>2, <2>3
  <1>6. ListsGap(c) <=> ListsGap(a) \/ ListsGap(b)
    <2>1. ListsGap(c) => ListsGap(a) \/ ListsGap(b)
      BY <1>3 DEF ListsGap
    <2>2. ListsGap(a) => ListsGap(c)
      BY <1>1, <1>2 DEF ListsGap
    <2>3. ListsGap(b) => ListsGap(c)
      BY <1>1, <1>2 DEF ListsGap
    <2> QED BY <2>1, <2>2, <2>3
  <1> QED BY <1>1, <1>4, <1>5, <1>6 DEF c

(* The lists of findings that the reducers are made of.                    *)
LEMMA OneOrNone ==
  /\ <<>> \in Seq(Findings) /\ ~Wrong(<<>>) /\ ~Lacking(<<>>) /\ ~ListsGap(<<>>)
  /\ \A c \in Checks : /\ <<Error(c)>> \in Seq(Findings)
                       /\ Wrong(<<Error(c)>>) /\ ~Lacking(<<Error(c)>>)
                       /\ ~ListsGap(<<Error(c)>>)
                       /\ <<Incomplete(c)>> \in Seq(Findings)
                       /\ ~Wrong(<<Incomplete(c)>>) /\ Lacking(<<Incomplete(c)>>)
                       /\ ListsGap(<<Incomplete(c)>>) <=> c = "GAP"
  <1>1. <<>> \in Seq(Findings) /\ ~Wrong(<<>>) /\ ~Lacking(<<>>) /\ ~ListsGap(<<>>)
    BY DEF Wrong, Lacking, ListsGap
  <1>2. ASSUME NEW c \in Checks
        PROVE  /\ <<Error(c)>> \in Seq(Findings)
               /\ Wrong(<<Error(c)>>) /\ ~Lacking(<<Error(c)>>)
               /\ ~ListsGap(<<Error(c)>>)
               /\ <<Incomplete(c)>> \in Seq(Findings)
               /\ ~Wrong(<<Incomplete(c)>>) /\ Lacking(<<Incomplete(c)>>)
               /\ ListsGap(<<Incomplete(c)>>) <=> c = "GAP"
    <2>1. Error(c) \in Findings /\ Incomplete(c) \in Findings
      BY DEF Error, Incomplete, Findings, Severities
    <2>2. /\ <<Error(c)>> \in Seq(Findings) /\ Len(<<Error(c)>>) = 1
          /\ <<Error(c)>>[1] = Error(c)
          /\ <<Incomplete(c)>> \in Seq(Findings) /\ Len(<<Incomplete(c)>>) = 1
          /\ <<Incomplete(c)>>[1] = Incomplete(c)
      BY <2>1
    <2>3. /\ Error(c).severity = "error" /\ Incomplete(c).severity = "incomplete"
          /\ Incomplete(c).check = c
      BY DEF Error, Incomplete
    <2> DEFINE e == <<Error(c)>>
               m == <<Incomplete(c)>>
    <2>4. Len(e) = 1 /\ e[1] = Error(c) /\ Len(m) = 1 /\ m[1] = Incomplete(c)
      BY <2>2
    <2> HIDE DEF e, m
    <2>5. /\ Wrong(e) /\ ~Lacking(e) /\ ~ListsGap(e)
          /\ ~Wrong(m) /\ Lacking(m) /\ (ListsGap(m) <=> c = "GAP")
      BY <2>3, <2>4 DEF Wrong, Lacking, ListsGap
    <2> QED BY <2>2, <2>5 DEF e, m
  <1> QED BY <1>1, <1>2

(* The checks that the reducers name.                                      *)
LEMMA CheckNames ==
  {"SESSION", "EVENT", "DELIVERY", "ACK", "GAP"} \subseteq Checks
  BY DEF Checks, SemanticChecks

(* What the reducers report for each kind of record.                       *)
LEMMA TransitionReport ==
  ASSUME NEW r
  PROVE  /\ TransitionFindings(r) \in Seq(Findings)
         /\ Wrong(TransitionFindings(r)) <=> r.form = "extra" \/ ~Accepted(r)
         /\ ~Lacking(TransitionFindings(r)) /\ ~ListsGap(TransitionFindings(r))
  <1> DEFINE a == IF r.form = "extra" THEN <<Error("SESSION")>> ELSE <<>>
             b == IF Accepted(r) THEN <<>> ELSE <<Error("SESSION")>>
  <1>1. /\ a \in Seq(Findings) /\ (Wrong(a) <=> r.form = "extra")
        /\ ~Lacking(a) /\ ~ListsGap(a)
    BY OneOrNone, CheckNames
  <1>2. /\ b \in Seq(Findings) /\ (Wrong(b) <=> ~Accepted(r))
        /\ ~Lacking(b) /\ ~ListsGap(b)
    BY OneOrNone, CheckNames
  <1>3. TransitionFindings(r) = a \o b
    BY DEF TransitionFindings
  <1> HIDE DEF a, b
  <1> QED BY <1>1, <1>2, <1>3, OneAfterAnother

AcceptableDelivery(e) ==
  IF Known(e) THEN IsRetry(e)
  ELSE (e.attempt = 1 \/ capture_gaps > 0) /\ TakesPosition(e)

Complete(e) == Known(e) \/ (e.attempt = 1 /\ ~Missing(e))

(* check_event on attempts and positions: wrong unless acceptable, and
   lacking where a gap had to excuse it. *)
LEMMA DeliveryReport ==
  ASSUME NEW e
  PROVE  /\ DeliveryFindings(e) \in Seq(Findings)
         /\ Wrong(DeliveryFindings(e)) <=> ~AcceptableDelivery(e)
         /\ ~Wrong(DeliveryFindings(e)) =>
              (Lacking(DeliveryFindings(e)) <=> ~Complete(e))
         /\ ~ListsGap(DeliveryFindings(e))
  <1> DEFINE a == IF e.attempt = 1 THEN <<>>
                  ELSE IF capture_gaps > 0 THEN <<Incomplete("DELIVERY")>>
                                           ELSE <<Error("DELIVERY")>>
             b == IF ~TakesPosition(e) THEN <<Error("DELIVERY")>>
                  ELSE IF Missing(e) THEN <<Incomplete("DELIVERY")>> ELSE <<>>
             c == IF IsRetry(e) THEN <<>> ELSE <<Error("DELIVERY")>>
  <1>1. /\ a \in Seq(Findings) /\ (Wrong(a) <=> ~(e.attempt = 1 \/ capture_gaps > 0))
        /\ (~Wrong(a) => (Lacking(a) <=> e.attempt # 1)) /\ ~ListsGap(a)
    BY OneOrNone, CheckNames
  <1>2. /\ b \in Seq(Findings) /\ (Wrong(b) <=> ~TakesPosition(e))
        /\ (~Wrong(b) => (Lacking(b) <=> Missing(e))) /\ ~ListsGap(b)
    BY OneOrNone, CheckNames
  <1>3. /\ c \in Seq(Findings) /\ (Wrong(c) <=> ~IsRetry(e))
        /\ ~Lacking(c) /\ ~ListsGap(c)
    BY OneOrNone, CheckNames
  <1>4. DeliveryFindings(e) = IF Known(e) THEN c ELSE a \o b
    BY DEF DeliveryFindings
  <1> HIDE DEF a, b, c
  <1> QED BY <1>1, <1>2, <1>3, <1>4, OneAfterAnother DEF AcceptableDelivery, Complete

(* check_event as a whole.                                                 *)
LEMMA EventReport ==
  ASSUME NEW e \in Events
  PROVE  /\ EventFindings(e) \in Seq(Findings)
         /\ Wrong(EventFindings(e)) <=>
              ~(/\ e.form = "exact" /\ ~ReusesOccurrence(e) /\ ~OutOfRange(e)
                /\ AcceptableDelivery(e))
         /\ ~Wrong(EventFindings(e)) => (Lacking(EventFindings(e)) <=> ~Complete(e))
         /\ ~ListsGap(EventFindings(e))
  <1> DEFINE a == IdentityFindings(e)
             b == IF HasOccurrence(e) /\ ReusesOccurrence(e)
                    THEN <<Error("DELIVERY")>> ELSE <<>>
             c == IF HasDelivery(e) /\ OutOfRange(e) THEN <<Error("DELIVERY")>> ELSE <<>>
             d == IF HasDelivery(e) THEN DeliveryFindings(e) ELSE <<>>
  <1>1. /\ a \in Seq(Findings) /\ (Wrong(a) <=> e.form # "exact")
        /\ ~Lacking(a) /\ ~ListsGap(a)
    BY OneOrNone, CheckNames DEF IdentityFindings
  <1>2. /\ b \in Seq(Findings) /\ (Wrong(b) <=> HasOccurrence(e) /\ ReusesOccurrence(e))
        /\ ~Lacking(b) /\ ~ListsGap(b)
    BY OneOrNone, CheckNames
  <1>3. /\ c \in Seq(Findings) /\ (Wrong(c) <=> HasDelivery(e) /\ OutOfRange(e))
        /\ ~Lacking(c) /\ ~ListsGap(c)
    BY OneOrNone, CheckNames
  <1>4. /\ d \in Seq(Findings) /\ (Wrong(d) <=> HasDelivery(e) /\ ~AcceptableDelivery(e))
        /\ (HasDelivery(e) /\ ~Wrong(d) => (Lacking(d) <=> ~Complete(e))) /\ ~ListsGap(d)
    BY OneOrNone, DeliveryReport
  <1>5. EventFindings(e) = ((a \o b) \o c) \o d
    BY DEF EventFindings
  <1>6. e.form = "exact" => HasOccurrence(e) /\ HasDelivery(e)
    BY DEF HasOccurrence, HasDelivery
  <1> HIDE DEF a, b, c, d
  <1>7. /\ a \o b \in Seq(Findings) /\ (Wrong(a \o b) <=> Wrong(a) \/ Wrong(b))
        /\ (Lacking(a \o b) <=> Lacking(a) \/ Lacking(b))
        /\ (ListsGap(a \o b) <=> ListsGap(a) \/ ListsGap(b))
    BY <1>1, <1>2, OneAfterAnother
  <1> DEFINE ab == a \o b
  <1> HIDE DEF ab
  <1>8. /\ ab \o c \in Seq(Findings) /\ (Wrong(ab \o c) <=> Wrong(ab) \/ Wrong(c))
        /\ (Lacking(ab \o c) <=> Lacking(ab) \/ Lacking(c))
        /\ (ListsGap(ab \o c) <=> ListsGap(ab) \/ ListsGap(c))
    BY <1>3, <1>7, OneAfterAnother DEF ab
  <1> DEFINE abc == ab \o c
  <1> HIDE DEF abc
  <1>9. /\ abc \o d \in Seq(Findings) /\ (Wrong(abc \o d) <=> Wrong(abc) \/ Wrong(d))
        /\ (Lacking(abc \o d) <=> Lacking(abc) \/ Lacking(d))
        /\ (ListsGap(abc \o d) <=> ListsGap(abc) \/ ListsGap(d))
    BY <1>4, <1>8, OneAfterAnother DEF abc
  <1> QED
    BY <1>1, <1>2, <1>3, <1>4, <1>5, <1>6, <1>7, <1>8, <1>9 DEF ab, abc

(* check_ack: wrong unless well formed, bound to its delivery and
   consistent with the answer already given; it never excuses anything. *)
LEMMA AckReport ==
  ASSUME NEW a \in Acks
  PROVE  /\ AckFindings(a) \in Seq(Findings)
         /\ Wrong(AckFindings(a)) <=>
              ~(/\ a.form = "exact" /\ ~InvalidOutcome(a)
                /\ a.delivery \in DOMAIN deliveries => ~Misbound(a) /\ ~Contradicts(a))
         /\ ~Lacking(AckFindings(a)) /\ ~ListsGap(AckFindings(a))
  <1> DEFINE k == a.delivery \in DOMAIN deliveries
             x == IF a.form = "extra" THEN <<Error("ACK")>> ELSE <<>>
             y == IF InvalidOutcome(a) THEN <<Error("ACK")>> ELSE <<>>
             u == IF Misbound(a) THEN <<Error("ACK")>> ELSE <<>>
             v == IF Contradicts(a) THEN <<Error("ACK")>> ELSE <<>>
             z == IF k THEN u \o v ELSE <<>>
             w == <<Error("ACK")>>
  <1>1. /\ x \in Seq(Findings) /\ (Wrong(x) <=> a.form = "extra")
        /\ ~Lacking(x) /\ ~ListsGap(x)
    BY OneOrNone, CheckNames
  <1>2. /\ y \in Seq(Findings) /\ (Wrong(y) <=> InvalidOutcome(a))
        /\ ~Lacking(y) /\ ~ListsGap(y)
    BY OneOrNone, CheckNames
  <1>3. /\ u \in Seq(Findings) /\ (Wrong(u) <=> Misbound(a))
        /\ ~Lacking(u) /\ ~ListsGap(u)
    BY OneOrNone, CheckNames
  <1>4. /\ v \in Seq(Findings) /\ (Wrong(v) <=> Contradicts(a))
        /\ ~Lacking(v) /\ ~ListsGap(v)
    BY OneOrNone, CheckNames
  <1>5. AckFindings(a) = IF a.form = "broken" THEN w ELSE (x \o y) \o z
    BY DEF AckFindings
  <1>6. a.form \in {"exact", "extra", "broken"}
    BY DEF Acks, AckForms
  <1>7. w \in Seq(Findings) /\ Wrong(w) /\ ~Lacking(w) /\ ~ListsGap(w)
    BY OneOrNone, CheckNames
  <1> HIDE DEF x, y, u, v, w
  <1>8. /\ z \in Seq(Findings) /\ (Wrong(z) <=> k /\ (Misbound(a) \/ Contradicts(a)))
        /\ ~Lacking(z) /\ ~ListsGap(z)
    BY <1>3, <1>4, OneOrNone, OneAfterAnother
  <1> DEFINE xy == x \o y
  <1>9. /\ xy \in Seq(Findings) /\ (Wrong(xy) <=> a.form = "extra" \/ InvalidOutcome(a))
        /\ ~Lacking(xy) /\ ~ListsGap(xy)
    BY <1>1, <1>2, OneAfterAnother
  <1> HIDE DEF z, xy
  <1>10. /\ xy \o z \in Seq(Findings)
         /\ Wrong(xy \o z) <=> Wrong(xy) \/ Wrong(z)
         /\ ~Lacking(xy \o z) /\ ~ListsGap(xy \o z)
    BY <1>8, <1>9, OneAfterAnother
  <1>11. AckFindings(a) = IF a.form = "broken" THEN w ELSE xy \o z
    BY <1>5 DEF xy
  <1> HIDE DEF k
  <1> QED BY <1>6, <1>7, <1>8, <1>9, <1>10, <1>11 DEF k

(* check_gap always leaves the bundle incomplete.                          *)
LEMMA EventGapReport ==
  ASSUME NEW g \in EventGaps
  PROVE  /\ EventGapFindings(g) \in Seq(Findings)
         /\ Wrong(EventGapFindings(g)) <=> g.form # "exact"
         /\ Lacking(EventGapFindings(g)) /\ ListsGap(EventGapFindings(g))
  <1> DEFINE a == <<Incomplete("GAP")>>
             b == IF g.form = "broken" THEN <<Error("GAP")>> ELSE <<>>
  <1>1. a \in Seq(Findings) /\ ~Wrong(a) /\ Lacking(a) /\ ListsGap(a)
    BY OneOrNone, CheckNames
  <1>2. b \in Seq(Findings) /\ (Wrong(b) <=> g.form = "broken")
    BY OneOrNone, CheckNames
  <1>3. EventGapFindings(g) = a \o b /\ (g.form = "broken" <=> g.form # "exact")
    BY DEF EventGapFindings, EventGaps
  <1> HIDE DEF a, b
  <1> QED BY <1>1, <1>2, <1>3, OneAfterAnother

(* The complaint that a bundle does not begin with its session.            *)
LEMMA UnstartedReport ==
  ASSUME NEW early \in BOOLEAN
  PROVE  /\ Unstarted(early) \in Seq(Findings)
         /\ Wrong(Unstarted(early)) <=> early
         /\ ~Lacking(Unstarted(early)) /\ ~ListsGap(Unstarted(early))
  BY OneOrNone, CheckNames DEF Unstarted

(* What the findings of a step do to the report.                           *)
LEMMA ReportStep ==
  ASSUME Sound(report), NEW fs \in Seq(Findings), Report(fs)
  PROVE  /\ Sound(report)'
         /\ report'.has_errors <=> report.has_errors \/ Wrong(fs)
         /\ report'.incomplete <=> report.incomplete \/ Lacking(fs)
         /\ report'.summaries["GAP"]["incomplete"] > 0 <=>
              report.summaries["GAP"]["incomplete"] > 0 \/ ListsGap(fs)
  <1>1. Brings(report, fs, report', Len(fs))
    BY FoldBrings DEF Report
  <1>2. "GAP" \in Checks /\ "incomplete" \in Severities
    BY CheckNames DEF Severities
  <1>3. Sound(report')
    BY <1>1 DEF Brings
  <1>4. Sound(report)'
    BY <1>3
  <1> QED BY <1>1, <1>2, <1>4 DEF Brings, Wrong, Lacking, ListsGap

(* What every record does to the report, whichever kind it is.             *)
LEMMA TakeStep ==
  ASSUME Sound(report), IsHistory(read), NEW r \in Records,
         NEW fs \in Seq(Findings), Take(r, fs)
  PROVE  /\ Grows(read, r, read') /\ phase = "records"
         /\ UNCHANGED <<phase, preflight_failed, capture>>
         /\ initial_session_error_reported' <=>
              initial_session_error_reported \/ StartsTooEarly(r)
         /\ Sound(report)'
         /\ report'.has_errors <=> report.has_errors \/ StartsTooEarly(r) \/ Wrong(fs)
         /\ report'.incomplete <=> report.incomplete \/ Lacking(fs)
         /\ report'.summaries["GAP"]["incomplete"] > 0 <=>
              report.summaries["GAP"]["incomplete"] > 0 \/ ListsGap(fs)
  <1> DEFINE e == Unstarted(StartsTooEarly(r))
  <1>1. StartsTooEarly(r) \in BOOLEAN
    BY DEF StartsTooEarly, NoBeginning
  <1>2. /\ e \in Seq(Findings) /\ (Wrong(e) <=> StartsTooEarly(r))
        /\ ~Lacking(e) /\ ~ListsGap(e)
    BY <1>1, UnstartedReport
  <1> HIDE DEF e
  <1>3. /\ e \o fs \in Seq(Findings)
        /\ Wrong(e \o fs) <=> Wrong(e) \/ Wrong(fs)
        /\ Lacking(e \o fs) <=> Lacking(e) \/ Lacking(fs)
        /\ ListsGap(e \o fs) <=> ListsGap(e) \/ ListsGap(fs)
    BY <1>2, OneAfterAnother
  <1> DEFINE all == e \o fs
  <1> HIDE DEF all
  <1>4. Report(all)
    BY DEF Take, e, all
  <1>5. /\ Sound(report)'
        /\ report'.has_errors <=> report.has_errors \/ Wrong(all)
        /\ report'.incomplete <=> report.incomplete \/ Lacking(all)
        /\ report'.summaries["GAP"]["incomplete"] > 0 <=>
             report.summaries["GAP"]["incomplete"] > 0 \/ ListsGap(all)
    BY <1>3, <1>4, ReportStep DEF all
  <1>6. /\ Grows(read, r, read') /\ phase = "records"
        /\ UNCHANGED <<phase, preflight_failed, capture>>
    BY DEF Take, Grows
  <1>7. initial_session_error_reported' <=>
          initial_session_error_reported \/ StartsTooEarly(r)
    BY DEF Take
  <1> QED BY <1>2, <1>3, <1>5, <1>6, <1>7 DEF all

-------------------------------------------------------------------------------
(* The history behind a new record, and what the record adds to it.         *)

(* For the newest record, the past of the rules is the whole history
   before it. *)
LEMMA WholePast ==
  ASSUME NEW h, NEW r, NEW H, Grows(h, r, H)
  PROVE  /\ \A k : {j \in At(H, k) : j < Len(h) + 1} = At(h, k)
         /\ \A d : {j \in Transmissions(H, d) : j < Len(h) + 1} = Transmissions(h, d)
         /\ \A a : Between(H, "capture_gap", a, Len(h) + 1) <=> CaptureGapAfter(h, a)
         /\ \A s : \A a : ProtocolGapBetween(H, s, a, Len(h) + 1) <=> EventGapAfter(h, s, a)
         /\ \A d : Transmissions(h, d) # {} =>
              (Answered(H, d, Len(h) + 1) <=> Terminals(h, d) # {})
         /\ r.kind \notin {"session_transition", "capture_gap"} =>
              (Begun(H, Len(h) + 1)
                 <=> At(h, "session_transition") # {} \/ At(h, "capture_gap") # {})
  <1> DEFINE n == Len(h)
             m == n + 1
  <1>1. /\ \A j \in 1..n : H[j] = h[j]
        /\ \A k : At(H, k) = IF r.kind = k THEN At(h, k) \cup {m} ELSE At(h, k)
        /\ \A d : Transmissions(H, d) =
             IF r.kind = "event_delivery" /\ r.delivery = d
               THEN Transmissions(h, d) \cup {m} ELSE Transmissions(h, d)
    BY Appended
  <1>2. /\ n \in Nat /\ m \in Nat /\ ~(m < m)
        /\ \A k : At(h, k) \in SUBSET (1..n)
        /\ \A d : Transmissions(h, d) \in SUBSET (1..n)
    BY Positions DEF Grows
  <1>3. \A j \in 1..n : j < m /\ j <= m
    BY <1>2
  <1> HIDE DEF m, n
  <1>4. \A k : \A j : j \in At(H, k) /\ j < m <=> j \in At(h, k)
    BY <1>1, <1>2, <1>3
  <1>5. \A d : \A j : j \in Transmissions(H, d) /\ j < m <=> j \in Transmissions(h, d)
    BY <1>1, <1>2, <1>3
  <1>6. \A k : \A j \in At(h, k) : H[j] = h[j]
    BY <1>1, <1>2
  <1>7. ASSUME NEW d, Transmissions(h, d) # {}
        PROVE  Min(Transmissions(H, d)) = Min(Transmissions(h, d))
    <2>1. Min(Transmissions(h, d) \cup {m}) = Min(Transmissions(h, d))
      BY <1>2, <1>7, Extremes DEF m
    <2> QED BY <1>1, <2>1
  <1>8. \A a : Between(H, "capture_gap", a, m) <=> CaptureGapAfter(h, a)
    BY <1>4 DEF Between, CaptureGapAfter
  <1>9. \A s : \A a : ProtocolGapBetween(H, s, a, m) <=> EventGapAfter(h, s, a)
    BY <1>4, <1>6 DEF ProtocolGapBetween, EventGapAfter
  <1>10. ASSUME NEW d, Transmissions(h, d) # {}
         PROVE  Answered(H, d, m) <=> Terminals(h, d) # {}
    BY <1>4, <1>6, <1>7, <1>10 DEF Answered, Terminals
  <1>11. ASSUME r.kind \notin {"session_transition", "capture_gap"}
         PROVE  Begun(H, m) <=> At(h, "session_transition") # {} \/ At(h, "capture_gap") # {}
    <2>1. /\ At(H, "session_transition") = At(h, "session_transition")
          /\ At(H, "capture_gap") = At(h, "capture_gap")
      BY <1>1, <1>11
    <2>2. \A j \in At(h, "session_transition") \cup At(h, "capture_gap") : j <= m
      BY <1>2, <1>3
    <2> QED BY <2>1, <2>2 DEF Begun
  <1>12. /\ \A k : {j \in At(H, k) : j < m} = At(h, k)
         /\ \A d : {j \in Transmissions(H, d) : j < m} = Transmissions(h, d)
    BY <1>4, <1>5
  <1> QED
    BY <1>8, <1>9, <1>10, <1>11, <1>12 DEF m, n

(* How one more record moves gaps, first transmissions, terminal answers
   and what waits. *)
LEMMA HistoryGrows ==
  ASSUME NEW h, NEW r, NEW H, Grows(h, r, H)
  PROVE  /\ \A p \in 0..Len(h) : CaptureGapAfter(H, p) <=>
              CaptureGapAfter(h, p) \/ r.kind = "capture_gap"
         /\ \A s : \A p \in 0..Len(h) : EventGapAfter(H, s, p) <=>
              EventGapAfter(h, s, p) \/ (r.kind = "event_gap" /\ r.subscription = s)
         /\ ~CaptureGapAfter(H, Len(h) + 1)
         /\ \A s : ~EventGapAfter(H, s, Len(h) + 1)
         /\ \A k : Firsts(H, k) =
              IF /\ r.kind = "event_delivery" /\ Key(r) = k
                 /\ Transmissions(h, r.delivery) = {}
                THEN Firsts(h, k) \cup {Len(h) + 1} ELSE Firsts(h, k)
         /\ \A d : Transmissions(h, d) # {} =>
              Terminals(H, d) =
                IF r.kind = "event_ack" /\ r.delivery = d /\ r.outcome \in TerminalOutcomes
                  THEN Terminals(h, d) \cup {Len(h) + 1} ELSE Terminals(h, d)
         /\ r.kind = "event_delivery" /\ Transmissions(h, r.delivery) = {} =>
              Terminals(H, r.delivery) = {}
         /\ \A d : Waits(H, d) <=>
              \/ Waits(h, d)
              \/ r.kind = "event_ack" /\ r.delivery = d /\ Transmissions(h, d) = {}
         /\ Gaps(H) # {} <=> Gaps(h) # {} \/ r.kind \in {"capture_gap", "event_gap"}
  <1> DEFINE n == Len(h)
             m == n + 1
  <1>1. /\ H[m] = r
        /\ \A j \in 1..n : H[j] = h[j]
        /\ \A k : At(H, k) = IF r.kind = k THEN At(h, k) \cup {m} ELSE At(h, k)
        /\ \A d : Transmissions(H, d) =
             IF r.kind = "event_delivery" /\ r.delivery = d
               THEN Transmissions(h, d) \cup {m} ELSE Transmissions(h, d)
    BY Appended
  <1>2. /\ n \in Nat /\ m \in Nat /\ ~(m < m)
        /\ \A k : At(h, k) \in SUBSET (1..n)
        /\ \A d : Transmissions(h, d) \in SUBSET (1..n)
    BY Positions DEF Grows
  <1>3. /\ \A j \in 1..n : j < m /\ ~(m < j)
        /\ \A p \in 0..n : p < m
    BY <1>2
  <1>f. /\ \A j \in At(h, "event_delivery") : IsFirst(H, j) <=> IsFirst(h, j)
        /\ r.kind = "event_delivery" =>
              (IsFirst(H, m) <=> Transmissions(h, r.delivery) = {})
    BY FirstsStay
  <1>n. \A T \in SUBSET (1..n) : /\ T # {} => Min(T \cup {m}) = Min(T) /\ Min(T) \in T
                                 /\ Min({m}) = m
    BY <1>2, Extremes
  <1> HIDE DEF m, n
  <1>6. \A k : \A j \in At(h, k) : H[j] = h[j] /\ j < m /\ ~(m < j)
    BY <1>1, <1>2, <1>3
  <1>7. \A d : Transmissions(h, d) # {} =>
          /\ Min(Transmissions(H, d)) = Min(Transmissions(h, d))
          /\ Min(Transmissions(h, d)) < m
    BY <1>1, <1>2, <1>3, <1>n
  <1>8. ASSUME NEW p \in 0..n
        PROVE  CaptureGapAfter(H, p) <=> CaptureGapAfter(h, p) \/ r.kind = "capture_gap"
    BY <1>1, <1>3 DEF CaptureGapAfter
  <1>9. ASSUME NEW s, NEW p \in 0..n
        PROVE  EventGapAfter(H, s, p) <=>
                 EventGapAfter(h, s, p) \/ (r.kind = "event_gap" /\ r.subscription = s)
    BY <1>1, <1>3, <1>6 DEF EventGapAfter
  <1>10. ~CaptureGapAfter(H, m) /\ \A s : ~EventGapAfter(H, s, m)
    BY <1>1, <1>2, <1>6 DEF CaptureGapAfter, EventGapAfter
  <1>11. ASSUME NEW k
         PROVE  Firsts(H, k) =
                  IF /\ r.kind = "event_delivery" /\ Key(r) = k
                     /\ Transmissions(h, r.delivery) = {}
                    THEN Firsts(h, k) \cup {m} ELSE Firsts(h, k)
    BY <1>1, <1>6, <1>f DEF Firsts
  <1>12. ASSUME NEW d, Transmissions(h, d) # {}
         PROVE  Terminals(H, d) =
                  IF r.kind = "event_ack" /\ r.delivery = d /\ r.outcome \in TerminalOutcomes
                    THEN Terminals(h, d) \cup {m} ELSE Terminals(h, d)
    BY <1>1, <1>6, <1>7, <1>12 DEF Terminals
  <1>13. ASSUME r.kind = "event_delivery", Transmissions(h, r.delivery) = {}
         PROVE  Terminals(H, r.delivery) = {}
    <2>1. Transmissions(H, r.delivery) = {m} /\ Min({m}) = m
      BY <1>1, <1>2, <1>13, <1>n
    <2>2. At(H, "event_ack") = At(h, "event_ack")
      BY <1>1, <1>13
    <2> QED BY <1>6, <2>1, <2>2 DEF Terminals
  <1>14. ASSUME NEW d
         PROVE  Waits(H, d) <=>
                  \/ Waits(h, d)
                  \/ r.kind = "event_ack" /\ r.delivery = d /\ Transmissions(h, d) = {}
    <2>1. \A j \in At(h, "event_ack") :
            (\A i \in Transmissions(H, d) : j < i) <=> (\A i \in Transmissions(h, d) : j < i)
      BY <1>1, <1>6
    <2>2. r.kind = "event_ack" =>
            /\ Transmissions(H, d) = Transmissions(h, d)
            /\ (\A i \in Transmissions(h, d) : m < i) <=> Transmissions(h, d) = {}
      BY <1>1, <1>2, <1>3
    <2> QED BY <1>1, <1>6, <2>1, <2>2 DEF Waits
  <1>15. Gaps(H) # {} <=> Gaps(h) # {} \/ r.kind \in {"capture_gap", "event_gap"}
    BY <1>1 DEF Gaps
  <1> QED
    BY <1>8, <1>9, <1>10, <1>11, <1>12, <1>13, <1>14, <1>15 DEF m, n

-------------------------------------------------------------------------------
(* The session                                                             *)

(* Before anything of the session is recorded, the validator knows it.      *)
LEMMA BeginningIsKnown ==
  ASSUME SessionReflects(read), IsHistory(read), ~initial_session_error_reported
  PROVE  NoBeginning <=> /\ At(read, "session_transition") = {}
                         /\ At(read, "capture_gap") = {}
  <1>1. /\ Len(read) \in Nat
        /\ At(read, "capture_gap") \in SUBSET (1..Len(read))
    BY Positions
  <1>2. CaptureGapAfter(read, 0) <=> At(read, "capture_gap") # {}
    <2>1. \A c \in At(read, "capture_gap") : 0 < c
      BY <1>1
    <2> QED BY <2>1 DEF CaptureGapAfter
  <1>3. CASE At(read, "session_transition") = {}
    <2>1. session_gap_pending <=> CaptureGapAfter(read, 0)
      BY <1>3 DEF SessionReflects, LastOf
    <2> QED BY <1>2, <1>3, <2>1 DEF NoBeginning, SessionReflects
  <1>4. CASE At(read, "session_transition") # {}
    BY <1>4 DEF NoBeginning, SessionReflects
  <1> QED BY <1>3, <1>4

(* The session reducer accepts a transition exactly when it is legal
   after all before it, gaps included. *)
LEMMA SessionJudged ==
  ASSUME SessionReflects(read), SessionTypeOK, NEW r \in Transitions,
         Grows(read, r, read')
  PROVE  (r.form # "extra" /\ Accepted(r))
           <=> TransitionLegal(read', session_generation, Len(read) + 1)
  <1> DEFINE T == At(read, "session_transition")
             n == Len(read)
             g == session_generation
             gap == CaptureGapAfter(read, LastOf(T))
             step == <<r.prior, r.next>>
  <1>1. /\ {j \in At(read', "session_transition") : j < n + 1} = T
        /\ Between(read', "capture_gap", LastOf(T), n + 1) <=> gap
        /\ read'[n + 1] = r
    BY WholePast, Appended
  <1>2. T # {} => read'[Max(T)] = read[Max(T)]
    <2>1. T \in SUBSET (1..n) /\ n \in Nat
      BY Positions DEF Grows
    <2>2. T # {} => Max(T) \in 1..n
      BY <2>1, Extremes
    <2> QED BY <2>2, Appended
  <1>3. /\ session_transitions = 0 <=> T = {}
        /\ session_state = IF T = {} THEN Initial(g) ELSE read[Max(T)].next
        /\ session_gap_pending <=> gap
    BY DEF SessionReflects
  <1>4. /\ r.form \in {"exact", "empty_reason", "extra", "broken"}
        /\ g \in Nat /\ g >= 1
    BY GenerationsAssumption DEF Transitions, SessionForms, SessionTypeOK
  <1>5. TransitionLegal(read', g, n + 1) <=>
          /\ r.form \in {"exact", "empty_reason"}
          /\ r.generation = g
          /\ IF T = {} THEN step \in Beginning(g) \/ (gap /\ step \in Lifecycle)
             ELSE /\ step \in Lifecycle
                  /\ r.prior = session_state \/ (gap /\ session_state \notin Terminal)
    <2> DEFINE p == IF T = {} THEN 0 ELSE Max(T)
    <2>1. p = LastOf(T)
      BY DEF LastOf
    <2>2. TransitionLegal(read', g, n + 1) <=>
            /\ read'[n + 1].form \in {"exact", "empty_reason"}
            /\ read'[n + 1].generation = g
            /\ IF T = {}
                 THEN \/ <<read'[n + 1].prior, read'[n + 1].next>> \in Beginning(g)
                      \/ /\ Between(read', "capture_gap", p, n + 1)
                         /\ <<read'[n + 1].prior, read'[n + 1].next>> \in Lifecycle
                 ELSE /\ <<read'[n + 1].prior, read'[n + 1].next>> \in Lifecycle
                      /\ \/ read'[n + 1].prior = read'[Max(T)].next
                         \/ /\ Between(read', "capture_gap", p, n + 1)
                            /\ read'[Max(T)].next \notin Terminal
      BY <1>1 DEF TransitionLegal
    <2> HIDE DEF p, T, n, g, gap
    <2> QED BY <1>1, <1>2, <1>3, <2>1, <2>2
  <1>6. /\ Reaches(r) <=> r.form # "broken" /\ r.generation = g
        /\ Continues(r) <=>
             r.prior = (IF gap /\ session_state \notin Terminal THEN r.prior
                                                                ELSE session_state)
        /\ r.generation = g =>
             (IsLegal(r) <=> \/ T = {} /\ (step \in Beginning(g)
                                             \/ (gap /\ step \in Lifecycle))
                             \/ T # {} /\ step \in Lifecycle)
    BY <1>3 DEF Reaches, Continues, ReplayedState, IsLegal, Legal
  <1>7. step \in Beginning(g) => r.prior = Initial(g)
    BY <1>4 DEF Beginning, Initial
  <1>8. /\ Initial(g) \notin Terminal
        /\ step \in Lifecycle => r.prior \notin Terminal
    BY DEF Initial, Terminal, Lifecycle
  <1> HIDE DEF T, n, g, gap, step
  <1> QED
    BY <1>3, <1>4, <1>5, <1>6, <1>7, <1>8 DEF Accepted, n, g

(* The session's state goes on to be that of the last transition.          *)
LEMMA SessionFollows ==
  ASSUME SessionReflects(read), SessionTypeOK, NEW r, Grows(read, r, read'),
         \/ r.kind = "session_transition" /\ AcceptTransition(r)
         \/ r.kind = "capture_gap" /\ SessionGap
         \/ /\ r.kind \notin {"session_transition", "capture_gap"}
            /\ UNCHANGED <<session_state, session_transitions, session_gap_pending>>,
         session_generation' = session_generation
  PROVE  SessionReflects(read)'
  <1> DEFINE T == At(read, "session_transition")
             n == Len(read)
             p == LastOf(T)
             m == n + 1
             U == At(read', "session_transition")
  <1>1. /\ U = IF r.kind = "session_transition" THEN T \cup {m} ELSE T
        /\ read'[m] = r /\ \A i \in 1..n : read'[i] = read[i]
    BY Appended
  <1>2. n \in Nat /\ T \in SUBSET (1..n)
    BY Positions DEF Grows
  <1>3. p \in 0..n /\ (T # {} => Max(T) \in 1..n) /\ Max(T \cup {m}) = m
    BY <1>2, Extremes
  <1>4. /\ CaptureGapAfter(read', p) <=> CaptureGapAfter(read, p) \/ r.kind = "capture_gap"
        /\ ~CaptureGapAfter(read', m)
    BY <1>3, HistoryGrows
  <1>5. /\ session_transitions = 0 <=> T = {}
        /\ session_state = IF T = {} THEN Initial(session_generation) ELSE read[Max(T)].next
        /\ session_gap_pending <=> CaptureGapAfter(read, p)
        /\ session_transitions \in Nat
    BY DEF SessionReflects, SessionTypeOK
  <1>6. SessionReflects(read)' <=>
          /\ session_transitions' = 0 <=> U = {}
          /\ session_state' = IF U = {} THEN Initial(session_generation)
                                        ELSE read'[Max(U)].next
          /\ session_gap_pending' <=> CaptureGapAfter(read', LastOf(U))
    BY DEF SessionReflects
  <1> HIDE DEF T, n, p, m, U
  <1>7. CASE r.kind = "session_transition" /\ AcceptTransition(r)
    <2>1. U = T \cup {m} /\ LastOf(U) = m /\ Max(U) = m
      BY <1>1, <1>3, <1>7 DEF LastOf
    <2>2. /\ session_state' = r.next /\ session_transitions' = session_transitions + 1
          /\ session_gap_pending' = FALSE
      BY <1>7 DEF AcceptTransition
    <2>3. session_transitions' # 0 /\ U # {}
      BY <1>5, <2>1, <2>2
    <2> QED BY <1>1, <1>4, <1>6, <2>1, <2>2, <2>3
  <1>8. CASE /\ r.kind # "session_transition"
             /\ UNCHANGED <<session_state, session_transitions>>
             /\ session_gap_pending' <=> session_gap_pending \/ r.kind = "capture_gap"
    <2>1. U = T /\ LastOf(U) = p
      BY <1>1, <1>8 DEF p
    <2>2. T # {} => read'[Max(T)] = read[Max(T)]
      BY <1>1, <1>3
    <2> QED BY <1>4, <1>5, <1>6, <1>8, <2>1, <2>2
  <1> QED BY <1>7, <1>8 DEF SessionGap

-------------------------------------------------------------------------------
(* Gaps, what is pending, and the report                                   *)

(* What a record that breaks no rule does to the counts of gaps.            *)
GapsCounted(r) ==
  LET c == r.kind = "capture_gap"
  IN  /\ capture_gaps' = IF c THEN capture_gaps + 1 ELSE capture_gaps
      /\ validated_capture_gaps' = IF c THEN validated_capture_gaps + 1
                                        ELSE validated_capture_gaps
      /\ capture_gap_epoch' = IF c THEN capture_gap_epoch + 1 ELSE capture_gap_epoch
      /\ protocol_gap_epochs' =
           IF r.kind = "event_gap"
             THEN [protocol_gap_epochs EXCEPT ![r.subscription] = @ + 1]
             ELSE protocol_gap_epochs

(* Counters and epochs go on to say whether a gap was declared.            *)
LEMMA GapsFollow ==
  ASSUME GapsReflect(read), EventsTypeOK, validated_capture_gaps \in Nat,
         NEW r, Grows(read, r, read'), GapsCounted(r)
  PROVE  GapsReflect(read)'
  <1>1. 0 \in 0..Len(read)
    BY Positions DEF Grows
  <1>2. /\ CaptureGapAfter(read', 0) <=> CaptureGapAfter(read, 0) \/ r.kind = "capture_gap"
        /\ \A s : EventGapAfter(read', s, 0) <=>
             EventGapAfter(read, s, 0) \/ (r.kind = "event_gap" /\ r.subscription = s)
    BY <1>1, HistoryGrows
  <1>3. /\ capture_gap_epoch \in Nat /\ capture_gaps \in Nat
        /\ protocol_gap_epochs \in [Subscriptions -> Nat]
        /\ validated_capture_gaps \in Nat
    BY DEF EventsTypeOK
  <1>4. /\ capture_gaps' > 0 <=> CaptureGapAfter(read', 0)
        /\ validated_capture_gaps' > 0 <=> CaptureGapAfter(read', 0)
        /\ capture_gap_epoch' > 0 <=> CaptureGapAfter(read', 0)
    BY <1>2, <1>3 DEF GapsCounted, GapsReflect
  <1>5. ASSUME NEW s \in Subscriptions
        PROVE  protocol_gap_epochs'[s] > 0 <=> EventGapAfter(read', s, 0)
    <2>1. /\ protocol_gap_epochs[s] \in Nat
          /\ protocol_gap_epochs'[s] = IF r.kind = "event_gap" /\ r.subscription = s
                                         THEN protocol_gap_epochs[s] + 1
                                         ELSE protocol_gap_epochs[s]
      BY <1>3 DEF GapsCounted
    <2> QED BY <1>2, <2>1 DEF GapsReflect
  <1> QED BY <1>4, <1>5 DEF GapsReflect

(* What is pending goes on to be the acknowledgements without a delivery
   before them. *)
LEMMA PendingFollows ==
  ASSUME PendingReflects(read), EventsTypeOK, NEW r, Grows(read, r, read'),
         pending' = IF r.kind = "event_ack" /\ Transmissions(read, r.delivery) = {}
                      THEN Append(pending, r.delivery) ELSE pending
  PROVE  PendingReflects(read)'
  <1>1. \A d : Waits(read', d) <=>
          \/ Waits(read, d)
          \/ r.kind = "event_ack" /\ r.delivery = d /\ Transmissions(read, d) = {}
    BY HistoryGrows
  <1>2. ASSUME NEW d \in Deliveries
        PROVE  (\E i \in 1..Len(pending') : pending'[i] = d) <=> Waits(read', d)
    <2>1. (\E i \in 1..Len(pending) : pending[i] = d) <=> Waits(read, d)
      BY DEF PendingReflects
    <2>2. CASE r.kind = "event_ack" /\ Transmissions(read, r.delivery) = {}
      <3>1. r \in Acks
        BY <2>2, RecordKinds DEF Grows
      <3>2. pending \in Seq(Deliveries) /\ r.delivery \in Deliveries
        BY <3>1 DEF EventsTypeOK, Acks
      <3>3. /\ Len(pending') = Len(pending) + 1 /\ Len(pending) \in Nat
            /\ \A i \in 1..Len(pending) : pending'[i] = pending[i]
            /\ pending'[Len(pending) + 1] = r.delivery
        BY <2>2, <3>2
      <3>4. \A i : i \in 1..Len(pending') <=> i \in 1..Len(pending) \/ i = Len(pending) + 1
        BY <3>3
      <3>5. (\E i \in 1..Len(pending') : pending'[i] = d)
              <=> (\E i \in 1..Len(pending) : pending[i] = d) \/ r.delivery = d
        BY <3>3, <3>4
      <3> QED BY <1>1, <2>1, <2>2, <3>5
    <2>3. CASE ~(r.kind = "event_ack" /\ Transmissions(read, r.delivery) = {})
      BY <1>1, <2>1, <2>3
    <2> QED BY <2>2, <2>3
  <1> QED BY <1>2 DEF PendingReflects

(* The report goes on to be incomplete exactly when a gap was declared.    *)
LEMMA ReportFollows ==
  ASSUME ReportReflects(read), NEW r, Grows(read, r, read'),
         NEW fs, capture' = capture,
         report'.incomplete <=> report.incomplete \/ Lacking(fs),
         report'.summaries["GAP"]["incomplete"] > 0 <=>
           report.summaries["GAP"]["incomplete"] > 0 \/ ListsGap(fs),
         r.kind \in {"capture_gap", "event_gap"} => Lacking(fs) /\ ListsGap(fs),
         Lacking(fs) => Gaps(read') # {}
  PROVE  ReportReflects(read)'
  <1>1. Gaps(read') # {} <=> Gaps(read) # {} \/ r.kind \in {"capture_gap", "event_gap"}
    BY HistoryGrows
  <1>2. ReportReflects(read)' <=>
          /\ report'.incomplete <=> capture.partial \/ Gaps(read') # {}
          /\ Gaps(read') # {} => report'.summaries["GAP"]["incomplete"] > 0
    BY DEF ReportReflects
  <1>3. /\ report.incomplete <=> capture.partial \/ Gaps(read) # {}
        /\ Gaps(read) # {} => report.summaries["GAP"]["incomplete"] > 0
    BY DEF ReportReflects
  <1> QED BY <1>1, <1>2, <1>3

-------------------------------------------------------------------------------
(* Occurrences, deliveries and streams                                     *)

(* The hashes go on to be those of the occurrences delivered.              *)
LEMMA OccurrencesFollow ==
  ASSUME OccurrencesReflect(read), NEW r, Grows(read, r, read'),
         \/ /\ r.kind = "event_delivery" /\ RecordOccurrence(r)
            /\ HasOccurrence(r) /\ ~ReusesOccurrence(r)
         \/ r.kind # "event_delivery" /\ UNCHANGED occurrence_hashes
  PROVE  OccurrencesReflect(read)'
  <1> DEFINE A == At(read, "event_delivery")
             B == At(read', "event_delivery")
             m == Len(read) + 1
             known == DOMAIN occurrence_hashes
  <1>1. /\ B = IF r.kind = "event_delivery" THEN A \cup {m} ELSE A
        /\ read'[m] = r /\ \A j \in A : read'[j] = read[j]
    <2>1. A \in SUBSET (1..Len(read))
      BY Positions DEF Grows
    <2> QED BY <2>1, Appended
  <1>2. /\ \A o \in known : \E j \in A : read[j].occurrence = o
        /\ \A j \in A : /\ read[j].occurrence \in known
                        /\ occurrence_hashes[read[j].occurrence] = read[j].hash
    BY DEF OccurrencesReflect
  <1>3. OccurrencesReflect(read)' <=>
          /\ \A o \in DOMAIN occurrence_hashes' : \E j \in B : read'[j].occurrence = o
          /\ \A j \in B : /\ read'[j].occurrence \in DOMAIN occurrence_hashes'
                          /\ occurrence_hashes'[read'[j].occurrence] = read'[j].hash
    BY DEF OccurrencesReflect
  <1>4. /\ DOMAIN occurrence_hashes' =
             IF r.kind = "event_delivery" THEN known \cup {r.occurrence} ELSE known
        /\ \A o \in known : occurrence_hashes'[o] = occurrence_hashes[o]
        /\ r.kind = "event_delivery" => occurrence_hashes'[r.occurrence] = r.hash
    BY DEF RecordOccurrence, ReusesOccurrence, Put
  <1> HIDE DEF A, B, m, known
  <1> QED BY <1>1, <1>2, <1>3, <1>4

(* A delivery that a record leaves alone goes on to reflect its
   transmissions and answers. *)
LEMMA DeliveryUntouched ==
  ASSUME NEW r, Grows(read, r, read'), NEW d, DeliveryReflects(read, d),
         Transmissions(read, d) # {},
         Transmissions(read', d) = Transmissions(read, d),
         Terminals(read', d) = Terminals(read, d), deliveries'[d] = deliveries[d]
  PROVE  DeliveryReflects(read, d)'
  <1> DEFINE T == Transmissions(read, d)
             U == Terminals(read, d)
  <1>1. /\ Len(read) \in Nat /\ T \in SUBSET (1..Len(read)) /\ U \in SUBSET (1..Len(read))
    BY Positions DEF Grows
  <1>2. Max(T) \in 1..Len(read)
    BY <1>1, Extremes
  <1>3. \A j \in 1..Len(read) : read'[j] = read[j]
    BY Appended
  <1>4. /\ \A j \in T : Identity(deliveries[d]) = Identity(read[j])
        /\ deliveries[d].last_attempt = read[Max(T)].attempt
        /\ deliveries[d].terminal_ack = None <=> U = {}
        /\ \A j \in U : deliveries[d].terminal_ack = Answer(read[j])
    BY DEF DeliveryReflects
  <1>5. DeliveryReflects(read, d)' <=>
          /\ \A j \in T : Identity(deliveries'[d]) = Identity(read'[j])
          /\ deliveries'[d].last_attempt = read'[Max(T)].attempt
          /\ deliveries'[d].terminal_ack = None <=> U = {}
          /\ \A j \in U : deliveries'[d].terminal_ack = Answer(read'[j])
    BY DEF DeliveryReflects
  <1> HIDE DEF T, U
  <1> QED BY <1>1, <1>2, <1>3, <1>4, <1>5

(* A record about no delivery that is known, and what it is about else.     *)
LEMMA DeliveriesUntouched ==
  ASSUME DeliveriesReflect(read), NEW r, Grows(read, r, read'),
         NEW D \in SUBSET (DOMAIN deliveries),
         \A d \in D : /\ ~(r.kind \in {"event_delivery", "event_ack"} /\ r.delivery = d)
                      /\ deliveries'[d] = deliveries[d],
         DOMAIN deliveries \subseteq Deliveries
  PROVE  \A d \in D : DeliveryReflects(read, d)'
  <1> SUFFICES ASSUME NEW d \in D PROVE DeliveryReflects(read, d)'
    OBVIOUS
  <1>1. DeliveryReflects(read, d) /\ Transmissions(read, d) # {}
    BY DEF DeliveriesReflect
  <1>2. Transmissions(read', d) = Transmissions(read, d)
    BY Appended
  <1>3. Terminals(read', d) = Terminals(read, d)
    BY <1>1, HistoryGrows
  <1>4. deliveries'[d] = deliveries[d]
    OBVIOUS
  <1> QED BY <1>1, <1>2, <1>3, <1>4, DeliveryUntouched

(* A first transmission enters its delivery as it was sent.                *)
LEMMA FirstTransmissionFollows ==
  ASSUME DeliveriesReflect(read), EventsTypeOK, NEW r \in Events, Grows(read, r, read'),
         Transmissions(read, r.delivery) = {},
         deliveries' = Put(deliveries, r.delivery, Delivery(r))
  PROVE  DeliveriesReflect(read)'
  <1> DEFINE id == r.delivery
             m == Len(read) + 1
  <1>0. r.kind = "event_delivery" /\ id \in Deliveries /\ DOMAIN deliveries \subseteq Deliveries
    BY DEF Events, EventsTypeOK
  <1>1. id \notin DOMAIN deliveries
    BY <1>0 DEF DeliveriesReflect
  <1>2. /\ DOMAIN deliveries' = DOMAIN deliveries \cup {id}
        /\ deliveries'[id] = Delivery(r)
        /\ \A d \in DOMAIN deliveries : deliveries'[d] = deliveries[d]
    BY <1>1 DEF Put
  <1>3. /\ Transmissions(read', id) = {m} /\ read'[m] = r
        /\ \A d : d # id => Transmissions(read', d) = Transmissions(read, d)
    BY <1>0, Appended
  <1>4. Terminals(read', id) = {}
    BY <1>0, HistoryGrows
  <1>5. Max({m}) = m
    <2>1. Len(read) \in Nat /\ {} \in SUBSET (1..Len(read))
      BY Positions DEF Grows
    <2>2. Max({} \cup {m}) = m
      BY <2>1, Extremes
    <2> QED BY <2>2
  <1>6. DeliveryReflects(read, id)'
    <2>1. /\ Delivery(r).last_attempt = r.attempt /\ Delivery(r).terminal_ack = None
          /\ Identity(Delivery(r)) = Identity(r)
      BY DEF Delivery, Identity
    <2> QED BY <1>2, <1>3, <1>4, <1>5, <2>1 DEF DeliveryReflects
  <1>7. \A d \in DOMAIN deliveries : DeliveryReflects(read, d)'
    BY <1>0, <1>1, <1>2, DeliveriesUntouched
  <1>8. \A d \in Deliveries : d \in DOMAIN deliveries' <=> Transmissions(read', d) # {}
    BY <1>2, <1>3 DEF DeliveriesReflect
  <1> HIDE DEF id
  <1>9. \A d \in DOMAIN deliveries' : DeliveryReflects(read, d)'
    BY <1>2, <1>6, <1>7
  <1> QED BY <1>8, <1>9 DEF DeliveriesReflect

(* A retransmission moves the last attempt of its delivery and nothing
   else. *)
LEMMA RetransmissionFollows ==
  ASSUME DeliveriesReflect(read), EventsTypeOK, NEW r \in Events, Grows(read, r, read'),
         Retransmission(r)
  PROVE  DeliveriesReflect(read)'
  <1> DEFINE id == r.delivery
             m == Len(read) + 1
  <1>0. /\ r.kind = "event_delivery" /\ id \in Deliveries
        /\ DOMAIN deliveries \subseteq Deliveries
        /\ deliveries[id] \in DeliveryRecords
        /\ id \in DOMAIN deliveries
    BY DEF Events, EventsTypeOK, DeliveryRecords, Retransmission, Known
  <1>1. /\ Identity(deliveries[id]) = Identity(r)
        /\ deliveries' = [deliveries EXCEPT ![id].last_attempt = r.attempt]
    BY DEF Retransmission, IsRetry
  <1>2. /\ DOMAIN deliveries' = DOMAIN deliveries
        /\ deliveries'[id] = [deliveries[id] EXCEPT !.last_attempt = r.attempt]
        /\ \A d \in DOMAIN deliveries : d # id => deliveries'[d] = deliveries[d]
    BY <1>0, <1>1, Zenon
  <1>3. /\ deliveries'[id].last_attempt = r.attempt
        /\ deliveries'[id].terminal_ack = deliveries[id].terminal_ack
        /\ Identity(deliveries'[id]) = Identity(deliveries[id])
    BY <1>0, <1>2 DEF DeliveryRecords, Identity
  <1> DEFINE T == Transmissions(read, id)
             U == Terminals(read, id)
  <1>4. /\ Transmissions(read', id) = T \cup {m} /\ read'[m] = r
        /\ \A j \in 1..Len(read) : read'[j] = read[j]
        /\ \A d : d # id => Transmissions(read', d) = Transmissions(read, d)
    BY <1>0, Appended
  <1>5. T # {} /\ DeliveryReflects(read, id)
    BY <1>0 DEF DeliveriesReflect
  <1>6. Terminals(read', id) = U
    BY <1>0, <1>5, HistoryGrows
  <1>7. /\ Max(T \cup {m}) = m /\ T \in SUBSET (1..Len(read)) /\ U \in SUBSET (1..Len(read))
    <2>1. /\ Len(read) \in Nat /\ T \in SUBSET (1..Len(read)) /\ U \in SUBSET (1..Len(read))
      BY Positions DEF Grows
    <2> QED BY <2>1, Extremes
  <1>8. DeliveryReflects(read, id)'
    <2>1. /\ \A j \in T : Identity(deliveries[id]) = Identity(read[j])
          /\ deliveries[id].terminal_ack = None <=> U = {}
          /\ \A j \in U : deliveries[id].terminal_ack = Answer(read[j])
      BY <1>5 DEF DeliveryReflects
    <2>2. DeliveryReflects(read, id)' <=>
            /\ \A j \in T \cup {m} : Identity(deliveries'[id]) = Identity(read'[j])
            /\ deliveries'[id].last_attempt = read'[Max(T \cup {m})].attempt
            /\ deliveries'[id].terminal_ack = None <=> U = {}
            /\ \A j \in U : deliveries'[id].terminal_ack = Answer(read'[j])
      BY <1>4, <1>6 DEF DeliveryReflects
    <2> HIDE DEF T, U, m
    <2> QED BY <1>1, <1>3, <1>4, <1>7, <2>1, <2>2
  <1>9. \A d \in DOMAIN deliveries \ {id} : DeliveryReflects(read, d)'
    BY <1>0, <1>2, DeliveriesUntouched
  <1>10. \A d \in Deliveries : d \in DOMAIN deliveries' <=> Transmissions(read', d) # {}
    BY <1>0, <1>2, <1>4 DEF DeliveriesReflect
  <1> HIDE DEF id
  <1>11. \A d \in DOMAIN deliveries' : DeliveryReflects(read, d)'
    BY <1>2, <1>8, <1>9
  <1> QED BY <1>10, <1>11 DEF DeliveriesReflect

(* A known delivery is acknowledged, for the first time or again.           *)
LEMMA AnswerFollows ==
  ASSUME DeliveriesReflect(read), EventsTypeOK, NEW r \in Acks, Grows(read, r, read'),
         r.delivery \in DOMAIN deliveries,
         \/ /\ r.outcome \in TerminalOutcomes
            /\ deliveries[r.delivery].terminal_ack = None
            /\ deliveries' = [deliveries EXCEPT ![r.delivery].terminal_ack = Answer(r)]
         \/ /\ r.outcome \in TerminalOutcomes =>
                 deliveries[r.delivery].terminal_ack = Answer(r)
            /\ UNCHANGED deliveries
  PROVE  DeliveriesReflect(read)'
  <1> DEFINE id == r.delivery
             m == Len(read) + 1
             T == Transmissions(read, id)
             U == Terminals(read, id)
             V == IF r.outcome \in TerminalOutcomes THEN U \cup {m} ELSE U
  <1>0. /\ r.kind = "event_ack" /\ id \in Deliveries
        /\ DOMAIN deliveries \subseteq Deliveries
        /\ deliveries[id] \in DeliveryRecords
        /\ id \in DOMAIN deliveries /\ Answer(r) # None
    BY EventsAssumption DEF Acks, EventsTypeOK, DeliveryRecords, Answer, Answers
  <1>1. /\ T # {} /\ DeliveryReflects(read, id)
    BY <1>0 DEF DeliveriesReflect
  <1>2. /\ Transmissions(read', id) = T /\ read'[m] = r
        /\ \A j \in 1..Len(read) : read'[j] = read[j]
        /\ \A d : Transmissions(read', d) = Transmissions(read, d)
    BY <1>0, Appended
  <1>3. Terminals(read', id) = V
    <2>1. \A d : Transmissions(read, d) # {} =>
            Terminals(read', d) =
              IF r.kind = "event_ack" /\ r.delivery = d /\ r.outcome \in TerminalOutcomes
                THEN Terminals(read, d) \cup {m} ELSE Terminals(read, d)
      BY HistoryGrows
    <2> HIDE DEF m
    <2> QED BY <1>0, <1>1, <2>1
  <1>4. /\ Len(read) \in Nat /\ T \in SUBSET (1..Len(read)) /\ U \in SUBSET (1..Len(read))
        /\ Max(T) \in 1..Len(read)
    <2>1. Len(read) \in Nat /\ T \in SUBSET (1..Len(read)) /\ U \in SUBSET (1..Len(read))
      BY Positions DEF Grows
    <2> QED BY <1>1, <2>1, Extremes
  <1>5. /\ DOMAIN deliveries' = DOMAIN deliveries
        /\ \A d \in DOMAIN deliveries : d # id => deliveries'[d] = deliveries[d]
        /\ deliveries'[id].last_attempt = deliveries[id].last_attempt
        /\ Identity(deliveries'[id]) = Identity(deliveries[id])
        /\ r.outcome \in TerminalOutcomes => deliveries'[id].terminal_ack = Answer(r)
        /\ deliveries[id].terminal_ack # None \/ r.outcome \notin TerminalOutcomes =>
             deliveries'[id].terminal_ack = deliveries[id].terminal_ack
    <2>1. CASE /\ r.outcome \in TerminalOutcomes /\ deliveries[id].terminal_ack = None
               /\ deliveries' = [deliveries EXCEPT ![id].terminal_ack = Answer(r)]
      <3>1. /\ DOMAIN deliveries' = DOMAIN deliveries
            /\ deliveries'[id] = [deliveries[id] EXCEPT !.terminal_ack = Answer(r)]
            /\ \A d \in DOMAIN deliveries : d # id => deliveries'[d] = deliveries[d]
        BY <1>0, <2>1, Zenon
      <3>2. /\ deliveries'[id].last_attempt = deliveries[id].last_attempt
            /\ deliveries'[id].terminal_ack = Answer(r)
            /\ Identity(deliveries'[id]) = Identity(deliveries[id])
        BY <1>0, <3>1 DEF DeliveryRecords, Identity
      <3> QED BY <2>1, <3>1, <3>2
    <2>2. CASE /\ r.outcome \in TerminalOutcomes =>
                    deliveries[id].terminal_ack = Answer(r)
               /\ UNCHANGED deliveries
      BY <2>2
    <2> QED BY <2>1, <2>2
  <1>6. DeliveryReflects(read, id)'
    <2>1. /\ \A j \in T : Identity(deliveries[id]) = Identity(read[j])
          /\ deliveries[id].last_attempt = read[Max(T)].attempt
          /\ deliveries[id].terminal_ack = None <=> U = {}
          /\ \A j \in U : deliveries[id].terminal_ack = Answer(read[j])
      BY <1>1 DEF DeliveryReflects
    <2>2. DeliveryReflects(read, id)' <=>
            /\ \A j \in T : Identity(deliveries'[id]) = Identity(read'[j])
            /\ deliveries'[id].last_attempt = read'[Max(T)].attempt
            /\ deliveries'[id].terminal_ack = None <=> V = {}
            /\ \A j \in V : deliveries'[id].terminal_ack = Answer(read'[j])
      BY <1>2, <1>3 DEF DeliveryReflects
    <2> HIDE DEF T, U, m
    <2>3. CASE r.outcome \in TerminalOutcomes
      <3>1. deliveries'[id].terminal_ack = Answer(r) /\ V = U \cup {m}
        BY <1>5, <2>3
      <3>2. ASSUME NEW j \in U
            PROVE  Answer(read'[j]) = Answer(r)
        <4>1. deliveries[id].terminal_ack = Answer(read[j]) /\ read'[j] = read[j]
          BY <1>2, <1>4, <2>1
        <4>2. deliveries[id].terminal_ack # None
          BY <2>1
        <4> QED BY <1>5, <3>1, <4>1, <4>2
      <3>3. \A j \in V : deliveries'[id].terminal_ack = Answer(read'[j])
        BY <1>2, <3>1, <3>2
      <3> HIDE DEF V
      <3> QED BY <1>0, <1>2, <1>4, <1>5, <2>1, <2>2, <3>1, <3>3
    <2>4. CASE r.outcome \notin TerminalOutcomes
      <3>1. V = U /\ deliveries'[id].terminal_ack = deliveries[id].terminal_ack
        BY <1>5, <2>4
      <3> HIDE DEF V
      <3> QED BY <1>2, <1>4, <1>5, <2>1, <2>2, <3>1
    <2> QED BY <2>3, <2>4
  <1>7. \A d \in DOMAIN deliveries \ {id} : DeliveryReflects(read, d)'
    BY <1>0, <1>5, DeliveriesUntouched
  <1>8. \A d \in Deliveries : d \in DOMAIN deliveries' <=> Transmissions(read', d) # {}
    BY <1>2, <1>5 DEF DeliveriesReflect
  <1> HIDE DEF id
  <1>9. \A d \in DOMAIN deliveries' : DeliveryReflects(read, d)'
    BY <1>5, <1>6, <1>7
  <1> QED BY <1>8, <1>9 DEF DeliveriesReflect

(* Every other record leaves the deliveries as they are.                   *)
LEMMA DeliveriesStay ==
  ASSUME DeliveriesReflect(read), EventsTypeOK, NEW r, Grows(read, r, read'),
         r.kind # "event_delivery",
         r.kind = "event_ack" => r.delivery \notin DOMAIN deliveries,
         UNCHANGED deliveries
  PROVE  DeliveriesReflect(read)'
  <1>1. DOMAIN deliveries \subseteq Deliveries
    BY DEF EventsTypeOK
  <1>2. \A d \in DOMAIN deliveries : DeliveryReflects(read, d)'
    BY <1>1, DeliveriesUntouched
  <1>3. \A d : Transmissions(read', d) = Transmissions(read, d)
    BY Appended
  <1> QED BY <1>2, <1>3 DEF DeliveriesReflect

(* A stream that no record moves.                                          *)
LEMMA StreamUntouched ==
  ASSUME EventsInv, NEW r, Grows(read, r, read'), GapsCounted(r),
         NEW k \in DOMAIN streams, StreamReflects(read, k), Firsts(read, k) # {},
         Firsts(read', k) = Firsts(read, k),
         streams'[k].sequence = streams[k].sequence,
         streams'[k].delivery = streams[k].delivery,
         streams'[k].capture_gap_epoch = streams[k].capture_gap_epoch,
         streams'[k].protocol_gap_epoch = streams[k].protocol_gap_epoch
  PROVE  StreamReflects(read, k)'
  <1> DEFINE p == Max(Firsts(read, k))
             s == k[1]
  <1>1. p \in 1..Len(read) /\ p \in 0..Len(read) /\ read'[p] = read[p]
    <2>1. Len(read) \in Nat /\ Firsts(read, k) \in SUBSET (1..Len(read))
      BY Positions DEF Grows
    <2>2. p \in 1..Len(read)
      BY <2>1, Extremes
    <2> QED BY <2>1, <2>2, Appended
  <1>2. /\ CaptureGapAfter(read', p) <=> CaptureGapAfter(read, p) \/ r.kind = "capture_gap"
        /\ EventGapAfter(read', s, p) <=>
             EventGapAfter(read, s, p) \/ (r.kind = "event_gap" /\ r.subscription = s)
    BY <1>1, HistoryGrows
  <1>3. /\ streams[k].sequence = read[p].sequence
        /\ streams[k].delivery = read[p].delivery
        /\ capture_gap_epoch > streams[k].capture_gap_epoch <=> CaptureGapAfter(read, p)
        /\ protocol_gap_epochs[s] > streams[k].protocol_gap_epoch
             <=> EventGapAfter(read, s, p)
    BY DEF StreamReflects
  <1>4. StreamReflects(read, k)' <=>
          /\ streams'[k].sequence = read'[p].sequence
          /\ streams'[k].delivery = read'[p].delivery
          /\ capture_gap_epoch' > streams'[k].capture_gap_epoch <=> CaptureGapAfter(read', p)
          /\ protocol_gap_epochs'[s] > streams'[k].protocol_gap_epoch
               <=> EventGapAfter(read', s, p)
    BY DEF StreamReflects
  <1>5. /\ capture_gap_epoch \in Nat /\ streams[k].capture_gap_epoch \in Nat
        /\ streams[k].capture_gap_epoch <= capture_gap_epoch
        /\ protocol_gap_epochs \in [Subscriptions -> Nat] /\ s \in Subscriptions
        /\ streams[k].protocol_gap_epoch \in Nat
        /\ streams[k].protocol_gap_epoch <= protocol_gap_epochs[s]
    BY DEF EventsInv, EventsTypeOK, StreamsFollowDeliveries, StreamKeys
  <1>6. /\ capture_gap_epoch' = IF r.kind = "capture_gap" THEN capture_gap_epoch + 1
                                                          ELSE capture_gap_epoch
        /\ protocol_gap_epochs'[s] =
             IF r.kind = "event_gap" /\ r.subscription = s
               THEN protocol_gap_epochs[s] + 1 ELSE protocol_gap_epochs[s]
    BY <1>5 DEF GapsCounted
  <1>7. protocol_gap_epochs[s] \in Nat
    BY <1>5
  <1> HIDE DEF p, s
  <1>8. capture_gap_epoch' > streams[k].capture_gap_epoch <=> CaptureGapAfter(read', p)
    BY <1>2, <1>3, <1>5, <1>6
  <1>9. protocol_gap_epochs'[s] > streams[k].protocol_gap_epoch
          <=> EventGapAfter(read', s, p)
    BY <1>2, <1>3, <1>5, <1>6, <1>7
  <1> QED BY <1>1, <1>3, <1>4, <1>8, <1>9

(* No stream takes a new delivery; one of them may become terminal.         *)
LEMMA StreamsStay ==
  ASSUME EventsInv, StreamsReflect(read), NEW r, Grows(read, r, read'), GapsCounted(r),
         r.kind = "event_delivery" => Transmissions(read, r.delivery) # {},
         DOMAIN streams' = DOMAIN streams,
         \A k \in DOMAIN streams :
           /\ streams'[k].sequence = streams[k].sequence
           /\ streams'[k].delivery = streams[k].delivery
           /\ streams'[k].capture_gap_epoch = streams[k].capture_gap_epoch
           /\ streams'[k].protocol_gap_epoch = streams[k].protocol_gap_epoch
  PROVE  StreamsReflect(read)'
  <1>1. \A k : Firsts(read', k) = Firsts(read, k)
    BY HistoryGrows
  <1>2. ASSUME NEW k \in DOMAIN streams
        PROVE  StreamReflects(read, k)'
    <2>1. StreamReflects(read, k) /\ Firsts(read, k) # {}
      BY DEF StreamsReflect, EventsInv, EventsTypeOK
    <2> QED BY <1>1, <2>1, StreamUntouched
  <1> QED BY <1>1, <1>2 DEF StreamsReflect

(* A first transmission takes the position of its stream.                   *)
LEMMA PositionFollows ==
  ASSUME EventsInv, StreamsReflect(read), NEW r \in Events, Grows(read, r, read'),
         GapsCounted(r), Transmissions(read, r.delivery) = {},
         streams' = Put(streams, Key(r), Progress(r))
  PROVE  StreamsReflect(read)'
  <1> DEFINE key == Key(r)
             m == Len(read) + 1
  <1>0. /\ r.kind = "event_delivery" /\ key \in StreamKeys /\ key[1] = r.subscription
        /\ DOMAIN streams \subseteq StreamKeys
    BY DEF Events, EventsInv, EventsTypeOK, Key, StreamKeys
  <1>1. \A k : Firsts(read', k) = IF key = k THEN Firsts(read, k) \cup {m} ELSE Firsts(read, k)
    <2>1. \A k : Firsts(read', k) =
            IF /\ r.kind = "event_delivery" /\ Key(r) = k
               /\ Transmissions(read, r.delivery) = {}
              THEN Firsts(read, k) \cup {m} ELSE Firsts(read, k)
      BY HistoryGrows
    <2> QED BY <1>0, <2>1
  <1>2. /\ DOMAIN streams' = DOMAIN streams \cup {key} /\ streams'[key] = Progress(r)
        /\ \A k \in DOMAIN streams : k # key => streams'[k] = streams[k]
    BY DEF Put
  <1>3. ASSUME NEW k \in DOMAIN streams, k # key
        PROVE  StreamReflects(read, k)'
    <2>1. StreamReflects(read, k) /\ Firsts(read, k) # {}
      BY <1>0 DEF StreamsReflect
    <2>2. streams'[k] = streams[k] /\ Firsts(read', k) = Firsts(read, k)
      BY <1>1, <1>2, <1>3
    <2> QED BY <2>1, <2>2, StreamUntouched
  <1>4. StreamReflects(read, key)'
    <2>1. Max(Firsts(read', key)) = m
      <3>1. Len(read) \in Nat /\ Firsts(read, key) \in SUBSET (1..Len(read))
        BY Positions DEF Grows
      <3>2. Max(Firsts(read, key) \cup {m}) = m
        BY <3>1, Extremes
      <3> QED BY <1>1, <3>2
    <2>2. /\ read'[m] = r /\ ~CaptureGapAfter(read', m)
          /\ ~EventGapAfter(read', key[1], m)
      BY Appended, HistoryGrows
    <2>3. /\ capture_gap_epoch' = capture_gap_epoch
          /\ protocol_gap_epochs' = protocol_gap_epochs
          /\ capture_gap_epoch \in Nat /\ protocol_gap_epochs[key[1]] \in Nat
      BY <1>0 DEF GapsCounted, EventsInv, EventsTypeOK, StreamKeys
    <2>4. /\ Progress(r).sequence = r.sequence /\ Progress(r).delivery = r.delivery
          /\ Progress(r).capture_gap_epoch = capture_gap_epoch
          /\ Progress(r).protocol_gap_epoch = protocol_gap_epochs[key[1]]
      BY <1>0 DEF Progress
    <2>5. StreamReflects(read, key)' <=>
            /\ streams'[key].sequence = read'[m].sequence
            /\ streams'[key].delivery = read'[m].delivery
            /\ capture_gap_epoch' > streams'[key].capture_gap_epoch
                 <=> CaptureGapAfter(read', m)
            /\ protocol_gap_epochs'[key[1]] > streams'[key].protocol_gap_epoch
                 <=> EventGapAfter(read', key[1], m)
      BY <2>1 DEF StreamReflects
    <2> HIDE DEF key, m
    <2> QED BY <1>2, <2>2, <2>3, <2>4, <2>5
  <1>5. \A k \in StreamKeys : k \in DOMAIN streams' <=> Firsts(read', k) # {}
    BY <1>1, <1>2 DEF StreamsReflect
  <1> HIDE DEF key
  <1>6. \A k \in DOMAIN streams' : StreamReflects(read, k)'
    BY <1>2, <1>3, <1>4
  <1> QED BY <1>5, <1>6 DEF StreamsReflect

-------------------------------------------------------------------------------
(* Deliveries and acknowledgements are judged by the rules                  *)

(* A retransmission is a retry exactly when the rule for it holds.         *)
LEMMA RetryJudged ==
  ASSUME DeliveriesReflect(read), EventsTypeOK, NEW r \in Events,
         Grows(read, r, read'), Transmissions(read, r.delivery) # {}
  PROVE  IsRetry(r) <=> RetransmissionLegal(read', Len(read) + 1)
  <1> DEFINE d == r.delivery
             T == Transmissions(read, d)
             m == Len(read) + 1
             p == Max(T)
  <1>1. /\ {j \in Transmissions(read', d) : j < m} = T
        /\ Answered(read', d, m) <=> Terminals(read, d) # {}
    BY WholePast
  <1>2. read'[m] = r /\ \A i \in 1..Len(read) : read'[i] = read[i]
    BY Appended
  <1>3. p \in T /\ p \in 1..Len(read)
    <2>1. Len(read) \in Nat /\ T \in SUBSET (1..Len(read))
      BY Positions DEF Grows
    <2> QED BY <2>1, Extremes
  <1>4. d \in DOMAIN deliveries /\ DeliveryReflects(read, d)
    BY DEF DeliveriesReflect, Events
  <1>5. /\ Identity(deliveries[d]) = Identity(read[p])
        /\ deliveries[d].last_attempt = read[p].attempt
        /\ deliveries[d].terminal_ack = None <=> Terminals(read, d) = {}
    BY <1>3, <1>4 DEF DeliveryReflects
  <1>6. RetransmissionLegal(read', m) <=>
          /\ Identity(read'[p]) = Identity(read'[m])
          /\ read'[m].attempt = read'[p].attempt + 1
          /\ ~Answered(read', d, m)
    BY <1>1, <1>2 DEF RetransmissionLegal
  <1> HIDE DEF T, m, p
  <1> QED BY <1>1, <1>2, <1>3, <1>5, <1>6 DEF IsRetry, m

(* A first transmission takes its position exactly when the rule for it
   holds: the epochs stand for gaps newer than the last first
   transmission in the stream. *)
LEMMA PositionJudged ==
  ASSUME DeliveriesReflect(read), StreamsReflect(read), GapsReflect(read), EventsInv,
         NEW r \in Events, Grows(read, r, read'), r.sequence >= 1
  PROVE  (r.attempt = 1 \/ capture_gaps > 0) /\ TakesPosition(r)
           <=> FirstTransmissionLegal(read', Len(read) + 1)
  <1> DEFINE k == Key(r)
             m == Len(read) + 1
             B == Firsts(read, k)
             p == IF B = {} THEN 0 ELSE Max(B)
             q == streams[k]
             position == IF B = {} THEN 0 ELSE q.sequence
             acked == B = {} \/ q.terminal
             cgap == CaptureGapAfter(read, p)
             pgap == EventGapAfter(read, r.subscription, p)
  <1>1. k \in StreamKeys /\ k[1] = r.subscription /\ r.subscription \in Subscriptions
    BY DEF Events, Key, StreamKeys
  <1>2. k \in DOMAIN streams <=> B # {}
    BY <1>1 DEF StreamsReflect
  <1>3. read'[m] = r /\ \A i \in 1..Len(read) : read'[i] = read[i]
    BY Appended
  <1>4. {j \in At(read', "event_delivery") :
           j < m /\ Key(read'[j]) = Key(read'[m]) /\ IsFirst(read', j)} = B
    <2>1. {j \in At(read', "event_delivery") : j < m} = At(read, "event_delivery")
      BY WholePast
    <2>2. \A j \in At(read, "event_delivery") :
            /\ read'[j] = read[j] /\ (IsFirst(read', j) <=> IsFirst(read, j))
      <3>1. At(read, "event_delivery") \in SUBSET (1..Len(read))
        BY Positions DEF Grows
      <3> QED BY <1>3, <3>1, FirstsStay
    <2> HIDE DEF m
    <2> QED BY <1>3, <2>1, <2>2 DEF Firsts
  <1>5. B # {} => /\ p \in B /\ p \in 1..Len(read)
                  /\ p \in At(read, "event_delivery")
    <2>1. Len(read) \in Nat /\ B \in SUBSET (1..Len(read))
      BY Positions DEF Grows
    <2>2. B # {} => p \in B
      BY <2>1, Extremes
    <2> QED BY <2>1, <2>2 DEF Firsts
  <1>6. B # {} => /\ q.sequence = read[p].sequence /\ q.delivery = read[p].delivery
                  /\ capture_gap_epoch > q.capture_gap_epoch <=> cgap
                  /\ protocol_gap_epochs[r.subscription] > q.protocol_gap_epoch <=> pgap
    BY <1>1, <1>2 DEF StreamsReflect, StreamReflects
  <1>7. B # {} => (Answered(read', read[p].delivery, m) <=> q.terminal)
    <2> SUFFICES ASSUME B # {} PROVE Answered(read', read[p].delivery, m) <=> q.terminal
      OBVIOUS
    <2>1. q.delivery \in DOMAIN deliveries
          /\ (q.terminal <=> deliveries[q.delivery].terminal_ack # None)
      BY <1>2 DEF EventsInv, StreamsFollowDeliveries
    <2>2. DeliveryReflects(read, q.delivery) /\ Transmissions(read, q.delivery) # {}
      BY <2>1 DEF DeliveriesReflect, EventsInv, EventsTypeOK
    <2>3. deliveries[q.delivery].terminal_ack = None <=> Terminals(read, q.delivery) = {}
      BY <2>2 DEF DeliveryReflects
    <2>4. Answered(read', q.delivery, m) <=> Terminals(read, q.delivery) # {}
      BY <2>2, WholePast
    <2> QED BY <1>6, <2>1, <2>3, <2>4
  <1>8. /\ Between(read', "capture_gap", 0, m) <=> CaptureGapAfter(read, 0)
        /\ Between(read', "capture_gap", p, m) <=> cgap
        /\ ProtocolGapBetween(read', r.subscription, p, m) <=> pgap
    BY WholePast
  <1>9. /\ capture_gaps > 0 <=> CaptureGapAfter(read, 0)
        /\ capture_gap_epoch > 0 <=> CaptureGapAfter(read, 0)
        /\ protocol_gap_epochs[r.subscription] > 0 <=> EventGapAfter(read, r.subscription, 0)
    BY <1>1 DEF GapsReflect
  <1>10. B # {} => read'[p] = read[p]
    BY <1>3, <1>5
  <1>11. FirstTransmissionLegal(read', m) <=>
           /\ r.attempt = 1 \/ CaptureGapAfter(read, 0)
           /\ r.sequence > position
           /\ cgap \/ (acked /\ (r.sequence = position + 1 \/ pgap))
    <2>1. FirstTransmissionLegal(read', m) <=>
            LET before == IF B = {} THEN 0 ELSE read'[p].sequence
                answered == B = {} \/ Answered(read', read'[p].delivery, m)
            IN  /\ read'[m].attempt = 1 \/ Between(read', "capture_gap", 0, m)
                /\ read'[m].sequence > before
                /\ \/ Between(read', "capture_gap", p, m)
                   \/ answered /\ (\/ read'[m].sequence = before + 1
                                   \/ ProtocolGapBetween(read', read'[m].subscription, p, m))
      BY <1>4 DEF FirstTransmissionLegal
    <2> HIDE DEF B, p, m, q, cgap, pgap
    <2> QED BY <1>3, <1>6, <1>7, <1>8, <1>10, <2>1
  <1>12. /\ Behind(r) <=> B # {} /\ r.sequence <= q.sequence
         /\ Unacknowledged(r) <=> ~acked
         /\ Jumps(r) <=> r.sequence # position + 1
    BY <1>2 DEF Behind, Unacknowledged, Jumps
  <1>13. CaptureGapSince(r) <=> cgap
    <2>1. CASE B = {}
      BY <1>2, <1>9, <2>1 DEF CaptureGapSince
    <2>2. CASE B # {}
      BY <1>2, <1>6, <2>2 DEF CaptureGapSince
    <2> QED BY <2>1, <2>2
  <1>14. ProtocolGapSince(r) <=> pgap
    <2>1. CASE B = {}
      BY <1>2, <1>9, <2>1 DEF ProtocolGapSince
    <2>2. CASE B # {}
      BY <1>2, <1>6, <2>2 DEF ProtocolGapSince
    <2> QED BY <2>1, <2>2
  <1>15. r.sequence \in Nat /\ r.sequence > 0 /\ (B # {} => q.sequence \in Nat)
    BY <1>2 DEF Events, EventsInv, EventsTypeOK
  <1>16. r.sequence > position <=> ~Behind(r)
    BY <1>12, <1>15
  <1>17. TakesPosition(r) <=>
           ~Behind(r) /\ (cgap \/ (acked /\ (r.sequence = position + 1 \/ pgap)))
    BY <1>12, <1>13, <1>14 DEF TakesPosition, Missing, Covered
  <1> HIDE DEF B, p, m, q, cgap, pgap, acked, position, k
  <1> QED BY <1>9, <1>11, <1>16, <1>17 DEF m

(* check_event finds nothing wrong exactly when the delivery is legal.     *)
LEMMA DeliveryJudged ==
  ASSUME OccurrencesReflect(read), DeliveriesReflect(read), StreamsReflect(read),
         GapsReflect(read), EventsInv, NEW r \in Events, Grows(read, r, read'),
         Begun(read', Len(read) + 1)
  PROVE  (/\ r.form = "exact" /\ ~ReusesOccurrence(r) /\ ~OutOfRange(r)
          /\ AcceptableDelivery(r))
           <=> DeliveryLegal(read', Len(read) + 1)
  <1> DEFINE m == Len(read) + 1
             T == Transmissions(read, r.delivery)
  <1>1. /\ read'[m] = r /\ r.kind = "event_delivery"
        /\ {j \in At(read', "event_delivery") : j < m} = At(read, "event_delivery")
        /\ \A j \in At(read, "event_delivery") : read'[j] = read[j]
    <2>1. At(read, "event_delivery") \in SUBSET (1..Len(read))
      BY Positions DEF Grows
    <2> QED BY <2>1, Appended, WholePast DEF Events
  <1>2. ReusesOccurrence(r) <=>
          ~(\A j \in At(read', "event_delivery") :
              j < m /\ read'[j].occurrence = r.occurrence => read'[j].hash = r.hash)
    <2>1. (\A j \in At(read', "event_delivery") :
             j < m /\ read'[j].occurrence = r.occurrence => read'[j].hash = r.hash)
          <=> (\A j \in At(read, "event_delivery") :
                 read[j].occurrence = r.occurrence => read[j].hash = r.hash)
      <3> HIDE DEF m
      <3> QED BY <1>1
    <2>2. CASE r.occurrence \in DOMAIN occurrence_hashes
      <3>1. PICK j \in At(read, "event_delivery") : read[j].occurrence = r.occurrence
        BY <2>2 DEF OccurrencesReflect
      <3>2. \A i \in At(read, "event_delivery") :
              read[i].occurrence = r.occurrence =>
                read[i].hash = occurrence_hashes[r.occurrence]
        BY DEF OccurrencesReflect
      <3> QED BY <2>1, <2>2, <3>1, <3>2 DEF ReusesOccurrence
    <2>3. CASE r.occurrence \notin DOMAIN occurrence_hashes
      <3>1. \A i \in At(read, "event_delivery") : read[i].occurrence # r.occurrence
        BY <2>3 DEF OccurrencesReflect
      <3> QED BY <2>1, <2>3, <3>1 DEF ReusesOccurrence
    <2> QED BY <2>2, <2>3
  <1>3. OutOfRange(r) <=> ~(r.attempt \in 1..MaxPosition /\ r.sequence \in 1..MaxPosition)
    BY EventsAssumption DEF OutOfRange, Events
  <1>4. Known(r) <=> T # {}
    BY DEF Known, DeliveriesReflect, Events
  <1>5. IsFirst(read', m) <=> T = {}
    BY <1>1, FirstsStay
  <1>6. ASSUME ~OutOfRange(r)
        PROVE  AcceptableDelivery(r) <=>
                 IF IsFirst(read', m) THEN FirstTransmissionLegal(read', m)
                                      ELSE RetransmissionLegal(read', m)
    <2>1. CASE T # {}
      BY <1>4, <1>5, <2>1, RetryJudged DEF AcceptableDelivery, EventsInv
    <2>2. CASE T = {}
      <3>1. r.sequence >= 1
        BY <1>3, <1>6, EventsAssumption
      <3> QED BY <1>4, <1>5, <2>2, <3>1, PositionJudged DEF AcceptableDelivery
    <2> QED BY <2>1, <2>2
  <1>7. DeliveryLegal(read', m) <=>
          /\ r.form = "exact"
          /\ r.attempt \in 1..MaxPosition /\ r.sequence \in 1..MaxPosition
          /\ \A j \in At(read', "event_delivery") :
               j < m /\ read'[j].occurrence = r.occurrence => read'[j].hash = r.hash
          /\ IF IsFirst(read', m) THEN FirstTransmissionLegal(read', m)
                                  ELSE RetransmissionLegal(read', m)
    <2>1. Begun(read', m)
      OBVIOUS
    <2> HIDE DEF m
    <2> QED BY <1>1, <2>1 DEF DeliveryLegal
  <1> HIDE DEF m
  <1>8. (/\ r.form = "exact" /\ ~ReusesOccurrence(r) /\ ~OutOfRange(r)
         /\ AcceptableDelivery(r))
          <=> DeliveryLegal(read', m)
    BY <1>2, <1>3, <1>6, <1>7
  <1> QED BY <1>8 DEF m

(* Evidence is missing only where a gap explains it.                       *)
LEMMA LackHasAGap ==
  ASSUME GapsReflect(read), EventsInv, NEW r \in Events,
         AcceptableDelivery(r), ~Complete(r)
  PROVE  Gaps(read) # {}
  <1>1. CaptureGapAfter(read, 0) => Gaps(read) # {}
    BY DEF CaptureGapAfter, Gaps
  <1>2. \A s : EventGapAfter(read, s, 0) => Gaps(read) # {}
    BY DEF EventGapAfter, Gaps
  <1>3. /\ ~Known(r) /\ (r.attempt = 1 \/ capture_gaps > 0) /\ TakesPosition(r)
        /\ r.attempt # 1 \/ Missing(r)
    BY DEF AcceptableDelivery, Complete
  <1>4. CASE r.attempt # 1
    BY <1>1, <1>3, <1>4 DEF GapsReflect
  <1>5. CASE Missing(r)
    <2>1. CaptureGapSince(r) \/ ProtocolGapSince(r)
      BY <1>3, <1>5 DEF TakesPosition, Covered
    <2>2. /\ r.subscription \in Subscriptions
          /\ capture_gap_epoch \in Nat /\ protocol_gap_epochs[r.subscription] \in Nat
          /\ Key(r) \in DOMAIN streams => /\ streams[Key(r)].capture_gap_epoch \in Nat
                                          /\ streams[Key(r)].protocol_gap_epoch \in Nat
      BY DEF Events, EventsInv, EventsTypeOK
    <2>3. CaptureGapSince(r) => capture_gap_epoch > 0
      BY <2>2 DEF CaptureGapSince
    <2>4. ProtocolGapSince(r) => protocol_gap_epochs[r.subscription] > 0
      BY <2>2 DEF ProtocolGapSince
    <2> QED BY <1>1, <1>2, <2>1, <2>2, <2>3, <2>4 DEF GapsReflect
  <1> QED BY <1>3, <1>4, <1>5

(* check_ack finds nothing wrong exactly when the acknowledgement is
   legal. *)
LEMMA AckJudged ==
  ASSUME DeliveriesReflect(read), EventsInv, NEW r \in Acks, Grows(read, r, read'),
         Begun(read', Len(read) + 1)
  PROVE  (/\ r.form = "exact" /\ ~InvalidOutcome(r)
          /\ r.delivery \in DOMAIN deliveries => ~Misbound(r) /\ ~Contradicts(r))
           <=> AckLegal(read', Len(read) + 1)
  <1> DEFINE m == Len(read) + 1
             d == r.delivery
             T == Transmissions(read, d)
             U == Terminals(read, d)
  <1>1. /\ read'[m] = r /\ {j \in Transmissions(read', d) : j < m} = T
        /\ \A j \in 1..Len(read) : read'[j] = read[j]
        /\ {j \in At(read', "event_ack") : j < m} = At(read, "event_ack")
    BY Appended, WholePast
  <1>2. d \in DOMAIN deliveries <=> T # {}
    BY DEF DeliveriesReflect, Acks
  <1>3. /\ T \in SUBSET (1..Len(read)) /\ U \in SUBSET (1..Len(read))
        /\ At(read, "event_ack") \in SUBSET (1..Len(read))
    BY Positions DEF Grows
  <1>4. ASSUME T # {}
        PROVE  Misbound(r) <=> ~\A j \in T : /\ r.subscription = read'[j].subscription
                                             /\ r.cursor = read'[j].cursor
    <2>1. \A j \in T : Identity(deliveries[d]) = Identity(read[j])
      BY <1>2, <1>4 DEF DeliveriesReflect, DeliveryReflects
    <2>2. \A j \in T : /\ deliveries[d].subscription = read'[j].subscription
                       /\ deliveries[d].cursor = read'[j].cursor
      BY <1>1, <1>3, <2>1 DEF Identity
    <2> QED BY <1>4, <2>2 DEF Misbound
  <1>5. (\A j \in At(read', "event_ack") :
           /\ Min(T) < j /\ j < m
           /\ read'[j].delivery = d
           /\ read'[j].outcome \in TerminalOutcomes
           => Answer(read'[j]) = Answer(r))
        <=> \A j \in U : Answer(read[j]) = Answer(r)
    <2>1. \A j \in At(read, "event_ack") : read'[j] = read[j]
      BY <1>1, <1>3
    <2> HIDE DEF m, d, T
    <2>2. U = {j \in At(read, "event_ack") :
                 Min(T) < j /\ read[j].delivery = d /\ read[j].outcome \in TerminalOutcomes}
      BY DEF Terminals, T
    <2> HIDE DEF U
    <2> QED BY <1>1, <2>1, <2>2
  <1>6. ASSUME T # {}
        PROVE  Contradicts(r) <=> ~\A j \in U : Answer(read[j]) = Answer(r)
    <2>1. /\ deliveries[d].terminal_ack = None <=> U = {}
          /\ \A j \in U : deliveries[d].terminal_ack = Answer(read[j])
      BY <1>2, <1>6 DEF DeliveriesReflect, DeliveryReflects
    <2> HIDE DEF U
    <2> QED BY <2>1 DEF Contradicts
  <1>7. AckLegal(read', m) <=>
          /\ r.form = "exact"
          /\ r.outcome # "unknown"
          /\ r.outcome = "discarded" => r.reason # NoReason
          /\ T # {} =>
               /\ \A j \in T : /\ r.subscription = read'[j].subscription
                               /\ r.cursor = read'[j].cursor
               /\ \A j \in At(read', "event_ack") :
                    /\ Min(T) < j /\ j < m
                    /\ read'[j].delivery = d
                    /\ read'[j].outcome \in TerminalOutcomes
                    => Answer(read'[j]) = Answer(r)
    <2>1. Begun(read', m)
      OBVIOUS
    <2> HIDE DEF m, T
    <2> QED BY <1>1, <2>1 DEF AckLegal
  <1>8. InvalidOutcome(r) <=>
          ~(r.outcome # "unknown" /\ (r.outcome = "discarded" => r.reason # NoReason))
    BY DEF InvalidOutcome
  <1> HIDE DEF m, T, U, d
  <1>9. (/\ r.form = "exact" /\ ~InvalidOutcome(r)
         /\ T # {} => ~Misbound(r) /\ ~Contradicts(r)) <=> AckLegal(read', m)
    BY <1>4, <1>5, <1>6, <1>7, <1>8
  <1> QED BY <1>2, <1>9 DEF m, d

-------------------------------------------------------------------------------
(* One record                                                              *)

(* What holds before every record that follows no broken rule.              *)
Ready ==
  /\ Sound(report) /\ ~report.has_errors /\ IsHistory(read) /\ Reflects(read)
  /\ EventsInv /\ SessionTypeOK /\ validated_capture_gaps \in Nat

(* A record adds an error exactly when it breaks a rule, and otherwise the  *)
(* state goes on to reflect the records.                                   *)
Judges(r) ==
  /\ Grows(read, r, read') /\ Sound(report)'
  /\ report'.has_errors <=> ~RecordLegal(read', session_generation, Len(read) + 1)
  /\ ~report'.has_errors => Reflects(read)'

(* A record of another kind leaves deliveries, streams and what is
   pending as they reflect the records. *)
LEMMA QuietFollows ==
  ASSUME Reflects(read), EventsInv, validated_capture_gaps \in Nat,
         NEW r, Grows(read, r, read'), r.kind \notin {"event_delivery", "event_ack"},
         GapsCounted(r), UNCHANGED <<occurrence_hashes, deliveries, streams, pending>>
  PROVE  /\ OccurrencesReflect(read)' /\ DeliveriesReflect(read)'
         /\ StreamsReflect(read)' /\ GapsReflect(read)' /\ PendingReflects(read)'
  <1>1. OccurrencesReflect(read)'
    BY OccurrencesFollow DEF Reflects
  <1>2. DeliveriesReflect(read)'
    BY DeliveriesStay DEF Reflects, EventsInv
  <1>3. StreamsReflect(read)'
    BY StreamsStay DEF Reflects
  <1>4. GapsReflect(read)'
    BY GapsFollow DEF Reflects, EventsInv
  <1>5. PendingReflects(read)'
    BY PendingFollows DEF Reflects, EventsInv
  <1> QED BY <1>1, <1>2, <1>3, <1>4, <1>5

(* A transition is judged by its rule.                                     *)
LEMMA TransitionJudged ==
  ASSUME Ready, NEW r \in Records, ReadTransition(r)
  PROVE  Judges(r)
  <1> DEFINE fs == TransitionFindings(r)
             g == session_generation
             m == Len(read) + 1
  <1>1. /\ r.kind = "session_transition" /\ Take(r, fs) /\ Transition(r)
        /\ UNCHANGED <<eventVars, validated_capture_gaps>>
    BY DEF ReadTransition
  <1>2. r \in Transitions
    BY <1>1, RecordsAssumption DEF Transitions, Events, Acks, EventGaps, CaptureGaps
  <1>3. /\ fs \in Seq(Findings) /\ (Wrong(fs) <=> r.form = "extra" \/ ~Accepted(r))
        /\ ~Lacking(fs) /\ ~ListsGap(fs)
    BY TransitionReport
  <1>4. ~StartsTooEarly(r)
    BY <1>1 DEF StartsTooEarly
  <1> HIDE DEF fs
  <1>5. /\ Grows(read, r, read')
        /\ capture' = capture
        /\ ~initial_session_error_reported'
        /\ Sound(report)'
        /\ report'.has_errors <=> Wrong(fs)
        /\ report'.incomplete <=> report.incomplete \/ Lacking(fs)
        /\ report'.summaries["GAP"]["incomplete"] > 0 <=>
             report.summaries["GAP"]["incomplete"] > 0 \/ ListsGap(fs)
    BY <1>1, <1>3, <1>4, TakeStep DEF Ready, Reflects
  <1>6. Wrong(fs) <=> ~TransitionLegal(read', g, m)
    BY <1>2, <1>3, <1>5, SessionJudged DEF Ready, Reflects
  <1>7. RecordLegal(read', g, m) <=> TransitionLegal(read', g, m)
    BY <1>1, <1>5, Appended DEF RecordLegal
  <1>8. ASSUME ~Wrong(fs)
        PROVE  Reflects(read)'
    <2>1. AcceptTransition(r) /\ session_generation' = session_generation
      BY <1>1, <1>3, <1>8 DEF Transition, RefuseTransition, IgnoreTransition, Accepted
    <2>2. SessionReflects(read)'
      BY <1>1, <1>5, <2>1, SessionFollows DEF Ready, Reflects
    <2>3. GapsCounted(r)
      BY <1>1 DEF GapsCounted, eventVars
    <2>4. /\ OccurrencesReflect(read)' /\ DeliveriesReflect(read)'
          /\ StreamsReflect(read)' /\ GapsReflect(read)' /\ PendingReflects(read)'
      BY <1>1, <1>5, <2>3, QuietFollows DEF Ready, eventVars
    <2>5. ReportReflects(read)'
      BY <1>1, <1>3, <1>5, ReportFollows DEF Ready, Reflects
    <2> QED BY <1>5, <2>2, <2>4, <2>5 DEF Reflects
  <1> QED BY <1>5, <1>6, <1>7, <1>8 DEF Judges

(* A record of the event lifecycle needs a beginning.                      *)
LEMMA EarlyIsIllegal ==
  ASSUME Ready, NEW r, Grows(read, r, read'),
         r.kind \notin {"session_transition", "capture_gap"}
  PROVE  StartsTooEarly(r) <=> ~Begun(read', Len(read) + 1)
  <1>1. NoBeginning <=> /\ At(read, "session_transition") = {}
                        /\ At(read, "capture_gap") = {}
    BY BeginningIsKnown DEF Ready, Reflects
  <1>2. Begun(read', Len(read) + 1)
          <=> At(read, "session_transition") # {} \/ At(read, "capture_gap") # {}
    BY WholePast
  <1> QED BY <1>1, <1>2 DEF StartsTooEarly

(* A delivery is judged by its rule, and the tables follow it.             *)
LEMMA EventJudged ==
  ASSUME Ready, NEW r \in Records, ReadEvent(r)
  PROVE  Judges(r)
  <1> DEFINE fs == EventFindings(r)
             g == session_generation
             m == Len(read) + 1
             T == Transmissions(read, r.delivery)
  <1>1. /\ r.kind = "event_delivery" /\ Take(r, fs) /\ CheckEvent(r)
        /\ UNCHANGED <<sessionVars, validated_capture_gaps>>
    BY DEF ReadEvent
  <1>2. r \in Events
    BY <1>1, RecordKinds
  <1>3. /\ fs \in Seq(Findings)
        /\ Wrong(fs) <=> ~(/\ r.form = "exact" /\ ~ReusesOccurrence(r) /\ ~OutOfRange(r)
                           /\ AcceptableDelivery(r))
        /\ ~Wrong(fs) => (Lacking(fs) <=> ~Complete(r))
        /\ ~ListsGap(fs)
    BY <1>2, EventReport
  <1> HIDE DEF fs
  <1>5. /\ Grows(read, r, read')
        /\ capture' = capture
        /\ initial_session_error_reported' <=> StartsTooEarly(r)
        /\ Sound(report)'
        /\ report'.has_errors <=> StartsTooEarly(r) \/ Wrong(fs)
        /\ report'.incomplete <=> report.incomplete \/ Lacking(fs)
        /\ report'.summaries["GAP"]["incomplete"] > 0 <=>
             report.summaries["GAP"]["incomplete"] > 0 \/ ListsGap(fs)
    BY <1>1, <1>3, TakeStep DEF Ready, Reflects
  <1>6. StartsTooEarly(r) <=> ~Begun(read', m)
    BY <1>1, <1>5, EarlyIsIllegal
  <1>7. RecordLegal(read', g, m) <=> DeliveryLegal(read', m)
    BY <1>1, <1>5, Appended DEF RecordLegal
  <1>8. ~StartsTooEarly(r) => (Wrong(fs) <=> ~DeliveryLegal(read', m))
    BY <1>2, <1>3, <1>5, <1>6, DeliveryJudged DEF Ready, Reflects
  <1>9. DeliveryLegal(read', m) => Begun(read', m)
    BY DEF DeliveryLegal
  <1>10. ASSUME ~StartsTooEarly(r), ~Wrong(fs)
         PROVE  Reflects(read)'
    <2>1. HasOccurrence(r) /\ HasDelivery(r) /\ ~ReusesOccurrence(r) /\ AcceptableDelivery(r)
      BY <1>3, <1>10 DEF HasOccurrence, HasDelivery
    <2>2. UNCHANGED <<session_state, session_transitions, session_gap_pending,
                      session_generation>>
      BY <1>1 DEF sessionVars
    <2>3. SessionReflects(read)'
      BY <1>1, <1>5, <2>2, SessionFollows DEF Ready, Reflects
    <2>4. /\ RecordOccurrence(r)
          /\ FirstTransmission(r) \/ Retransmission(r) \/ RefusedTransmission(r)
          /\ UNCHANGED <<capture_gap_epoch, protocol_gap_epochs, capture_gaps, pending>>
      BY <1>1 DEF CheckEvent
    <2>5. OccurrencesReflect(read)'
      BY <1>1, <1>5, <2>1, <2>4, OccurrencesFollow DEF Ready, Reflects
    <2>6. GapsCounted(r)
      BY <1>1, <2>4 DEF GapsCounted
    <2>7. Known(r) <=> T # {}
      BY <1>2 DEF Ready, Reflects, DeliveriesReflect, Known, Events
    <2>8. DeliveriesReflect(read)' /\ StreamsReflect(read)'
      <3>1. CASE Known(r)
        <4>1. Retransmission(r)
          BY <2>1, <2>4, <3>1 DEF AcceptableDelivery, FirstTransmission,
                                  RefusedTransmission
        <4>2. DeliveriesReflect(read)'
          BY <1>2, <1>5, <4>1, RetransmissionFollows DEF Ready, Reflects, EventsInv
        <4>3. streams' = streams
          BY <4>1 DEF Retransmission
        <4>4. StreamsReflect(read)'
          BY <1>5, <2>6, <2>7, <3>1, <4>3, StreamsStay DEF Ready, Reflects
        <4> QED BY <4>2, <4>4
      <3>2. CASE ~Known(r)
        <4>1. /\ deliveries' = Put(deliveries, r.delivery, Delivery(r))
              /\ streams' = Put(streams, Key(r), Progress(r))
          BY <2>1, <2>4, <3>2 DEF AcceptableDelivery, FirstTransmission,
                                  Retransmission, RefusedTransmission
        <4>2. DeliveriesReflect(read)'
          BY <1>2, <1>5, <2>7, <3>2, <4>1, FirstTransmissionFollows
             DEF Ready, Reflects, EventsInv
        <4>3. StreamsReflect(read)'
          BY <1>2, <1>5, <2>6, <2>7, <3>2, <4>1, PositionFollows DEF Ready, Reflects
        <4> QED BY <4>2, <4>3
      <3> QED BY <3>1, <3>2
    <2>9. GapsReflect(read)'
      BY <1>5, <2>6, GapsFollow DEF Ready, Reflects, EventsInv
    <2>10. PendingReflects(read)'
      BY <1>1, <1>5, <2>4, PendingFollows DEF Ready, Reflects, EventsInv
    <2>11. ReportReflects(read)'
      <3>1. Lacking(fs) => Gaps(read) # {}
        BY <1>2, <1>3, <1>10, <2>1, LackHasAGap DEF Ready, Reflects
      <3>2. Gaps(read) # {} => Gaps(read') # {}
        BY <1>5, HistoryGrows
      <3> QED BY <1>1, <1>5, <3>1, <3>2, ReportFollows DEF Ready, Reflects
    <2>12. ~initial_session_error_reported'
      BY <1>5, <1>10
    <2> QED
      BY <2>3, <2>5, <2>8, <2>9, <2>10, <2>11, <2>12 DEF Reflects
  <1> HIDE DEF m
  <1> QED BY <1>5, <1>6, <1>7, <1>8, <1>9, <1>10 DEF Judges, m

(* An acknowledgement is judged by its rule, and the tables follow it.     *)
LEMMA AcknowledgementJudged ==
  ASSUME Ready, NEW r \in Records, ReadAck(r)
  PROVE  Judges(r)
  <1> DEFINE fs == AckFindings(r)
             g == session_generation
             m == Len(read) + 1
             T == Transmissions(read, r.delivery)
  <1>1. /\ r.kind = "event_ack" /\ Take(r, fs) /\ CheckAck(r)
        /\ UNCHANGED <<sessionVars, validated_capture_gaps>>
    BY DEF ReadAck
  <1>2. r \in Acks
    BY <1>1, RecordKinds
  <1>3. /\ fs \in Seq(Findings)
        /\ Wrong(fs) <=>
             ~(/\ r.form = "exact" /\ ~InvalidOutcome(r)
               /\ r.delivery \in DOMAIN deliveries => ~Misbound(r) /\ ~Contradicts(r))
        /\ ~Lacking(fs) /\ ~ListsGap(fs)
    BY <1>2, AckReport
  <1> HIDE DEF fs
  <1>5. /\ Grows(read, r, read')
        /\ capture' = capture
        /\ initial_session_error_reported' <=> StartsTooEarly(r)
        /\ Sound(report)'
        /\ report'.has_errors <=> StartsTooEarly(r) \/ Wrong(fs)
        /\ report'.incomplete <=> report.incomplete \/ Lacking(fs)
        /\ report'.summaries["GAP"]["incomplete"] > 0 <=>
             report.summaries["GAP"]["incomplete"] > 0 \/ ListsGap(fs)
    BY <1>1, <1>3, TakeStep DEF Ready, Reflects
  <1>6. StartsTooEarly(r) <=> ~Begun(read', m)
    BY <1>1, <1>5, EarlyIsIllegal
  <1>7. RecordLegal(read', g, m) <=> AckLegal(read', m)
    BY <1>1, <1>5, Appended DEF RecordLegal
  <1>8. ~StartsTooEarly(r) => (Wrong(fs) <=> ~AckLegal(read', m))
    BY <1>2, <1>3, <1>5, <1>6, AckJudged DEF Ready, Reflects
  <1>9. AckLegal(read', m) => Begun(read', m)
    BY DEF AckLegal
  <1>10. ASSUME ~StartsTooEarly(r), ~Wrong(fs)
         PROVE  Reflects(read)'
    <2>2. UNCHANGED <<session_state, session_transitions, session_gap_pending,
                      session_generation>>
      BY <1>1 DEF sessionVars
    <2>3. SessionReflects(read)'
      BY <1>1, <1>5, <2>2, SessionFollows DEF Ready, Reflects
    <2>4. /\ AckBeforeDelivery(r) \/ TakeTerminalAck(r) \/ RepeatOrRefuseAck(r)
          /\ UNCHANGED <<occurrence_hashes, capture_gap_epoch, protocol_gap_epochs,
                         capture_gaps>>
      BY <1>1 DEF CheckAck
    <2>5. OccurrencesReflect(read)'
      BY <1>1, <1>5, <2>4, OccurrencesFollow DEF Ready, Reflects
    <2>6. GapsCounted(r)
      BY <1>1, <2>4 DEF GapsCounted
    <2>7. r.delivery \in DOMAIN deliveries <=> T # {}
      BY <1>2 DEF Ready, Reflects, DeliveriesReflect, Acks
    <2>8. r.form # "broken" /\ (r.outcome \in TerminalOutcomes <=> r.outcome # "retry")
      BY <1>2, <1>3, <1>10 DEF Acks, Outcomes, InvalidOutcome, TerminalOutcomes
    <2>9. DeliveriesReflect(read)'
      <3>1. CASE r.delivery \notin DOMAIN deliveries
        <4>1. deliveries' = deliveries
          BY <2>4, <3>1 DEF AckBeforeDelivery, TakeTerminalAck, RepeatOrRefuseAck
        <4> QED
          BY <1>1, <1>5, <3>1, <4>1, DeliveriesStay DEF Ready, Reflects, EventsInv
      <3>2. CASE r.delivery \in DOMAIN deliveries
        <4>1. \/ /\ r.outcome \in TerminalOutcomes
                 /\ deliveries[r.delivery].terminal_ack = None
                 /\ deliveries' = [deliveries EXCEPT ![r.delivery].terminal_ack = Answer(r)]
              \/ ~FirstTerminal(r) /\ deliveries' = deliveries
          BY <2>4, <2>8, <3>2 DEF AckBeforeDelivery, TakeTerminalAck, RepeatOrRefuseAck,
                                  FirstTerminal
        <4>2. ~Contradicts(r)
          BY <1>3, <1>10, <3>2
        <4>3. ~FirstTerminal(r) /\ r.outcome \in TerminalOutcomes =>
                deliveries[r.delivery].terminal_ack = Answer(r)
          BY <2>8, <4>2 DEF FirstTerminal, Contradicts
        <4> QED
          BY <1>2, <1>5, <3>2, <4>1, <4>3, AnswerFollows DEF Ready, Reflects, EventsInv
      <3> QED BY <3>1, <3>2
    <2>10. StreamsReflect(read)'
      <3> DEFINE key == <<deliveries[r.delivery].subscription,
                          deliveries[r.delivery].stream>>
      <3>1. \/ streams' = streams
            \/ key \in DOMAIN streams /\ streams' = [streams EXCEPT ![key].terminal = TRUE]
        BY <2>4 DEF AckBeforeDelivery, TakeTerminalAck, RepeatOrRefuseAck
      <3> HIDE DEF key
      <3>2. \A k \in DOMAIN streams : streams[k] \in ProgressRecords
        BY DEF Ready, EventsInv, EventsTypeOK, ProgressRecords
      <3>3. /\ DOMAIN streams' = DOMAIN streams
            /\ \A k \in DOMAIN streams :
                 \/ streams'[k] = streams[k]
                 \/ streams'[k] = [streams[k] EXCEPT !.terminal = TRUE]
        BY <3>1
      <3>4. \A k \in DOMAIN streams :
              /\ streams'[k].sequence = streams[k].sequence
              /\ streams'[k].delivery = streams[k].delivery
              /\ streams'[k].capture_gap_epoch = streams[k].capture_gap_epoch
              /\ streams'[k].protocol_gap_epoch = streams[k].protocol_gap_epoch
        BY <3>2, <3>3 DEF ProgressRecords
      <3> QED BY <1>1, <1>5, <2>6, <3>3, <3>4, StreamsStay DEF Ready, Reflects
    <2>11. GapsReflect(read)'
      BY <1>5, <2>6, GapsFollow DEF Ready, Reflects, EventsInv
    <2>12. PendingReflects(read)'
      <3>1. pending' = IF r.kind = "event_ack" /\ T = {}
                         THEN Append(pending, r.delivery) ELSE pending
        BY <1>1, <2>4, <2>7, <2>8 DEF AckBeforeDelivery, TakeTerminalAck,
                                      RepeatOrRefuseAck
      <3> QED BY <1>5, <3>1, PendingFollows DEF Ready, Reflects, EventsInv
    <2>13. ReportReflects(read)'
      BY <1>1, <1>3, <1>5, ReportFollows DEF Ready, Reflects
    <2>14. ~initial_session_error_reported'
      BY <1>5, <1>10
    <2> QED
      BY <2>3, <2>5, <2>9, <2>10, <2>11, <2>12, <2>13, <2>14 DEF Reflects
  <1> HIDE DEF m
  <1> QED BY <1>5, <1>6, <1>7, <1>8, <1>9, <1>10 DEF Judges, m

(* A protocol gap is judged by its rule, and its subscription's epoch
   follows it. *)
LEMMA EventGapJudged ==
  ASSUME Ready, NEW r \in Records, ReadEventGap(r)
  PROVE  Judges(r)
  <1> DEFINE fs == EventGapFindings(r)
             g == session_generation
             m == Len(read) + 1
  <1>1. /\ r.kind = "event_gap" /\ Take(r, fs) /\ CheckEventGap(r)
        /\ UNCHANGED <<sessionVars, validated_capture_gaps>>
    BY DEF ReadEventGap
  <1>2. r \in EventGaps
    BY <1>1, RecordKinds
  <1>3. /\ fs \in Seq(Findings) /\ (Wrong(fs) <=> r.form # "exact")
        /\ Lacking(fs) /\ ListsGap(fs)
    BY <1>2, EventGapReport
  <1> HIDE DEF fs
  <1>5. /\ Grows(read, r, read')
        /\ capture' = capture
        /\ initial_session_error_reported' <=> StartsTooEarly(r)
        /\ Sound(report)'
        /\ report'.has_errors <=> StartsTooEarly(r) \/ Wrong(fs)
        /\ report'.incomplete <=> report.incomplete \/ Lacking(fs)
        /\ report'.summaries["GAP"]["incomplete"] > 0 <=>
             report.summaries["GAP"]["incomplete"] > 0 \/ ListsGap(fs)
    BY <1>1, <1>3, TakeStep DEF Ready, Reflects
  <1>6. StartsTooEarly(r) <=> ~Begun(read', m)
    BY <1>1, <1>5, EarlyIsIllegal
  <1>7. RecordLegal(read', g, m) <=> r.form = "exact" /\ Begun(read', m)
    BY <1>1, <1>5, Appended DEF RecordLegal
  <1>10. ASSUME ~StartsTooEarly(r), ~Wrong(fs)
         PROVE  Reflects(read)'
    <2>2. UNCHANGED <<session_state, session_transitions, session_gap_pending,
                      session_generation>>
      BY <1>1 DEF sessionVars
    <2>3. SessionReflects(read)'
      BY <1>1, <1>5, <2>2, SessionFollows DEF Ready, Reflects
    <2>4. /\ UNCHANGED <<occurrence_hashes, deliveries, streams, capture_gap_epoch,
                         capture_gaps, pending>>
          /\ protocol_gap_epochs' = [protocol_gap_epochs EXCEPT ![r.subscription] = @ + 1]
      BY <1>1, <1>3, <1>10 DEF CheckEventGap
    <2>5. GapsCounted(r)
      BY <1>1, <2>4 DEF GapsCounted
    <2>6. /\ OccurrencesReflect(read)' /\ DeliveriesReflect(read)'
          /\ StreamsReflect(read)' /\ GapsReflect(read)' /\ PendingReflects(read)'
      BY <1>1, <1>5, <2>4, <2>5, QuietFollows DEF Ready
    <2>7. Gaps(read') # {}
      BY <1>1, <1>5, HistoryGrows
    <2>8. ReportReflects(read)'
      BY <1>1, <1>3, <1>5, <2>7, ReportFollows DEF Ready, Reflects
    <2> QED BY <1>5, <1>10, <2>3, <2>6, <2>8 DEF Reflects
  <1> HIDE DEF m
  <1> QED BY <1>3, <1>5, <1>6, <1>7, <1>10 DEF Judges, m

(* A capture gap is judged by its rule; a malformed one is an error and
   opens no epoch. *)
LEMMA CaptureGapJudged ==
  ASSUME Ready, NEW r \in Records, ReadCaptureGap(r) \/ RefuseCaptureGap(r)
  PROVE  Judges(r)
  <1> DEFINE fs == IF r.form = "exact" THEN <<Incomplete("GAP")>> ELSE <<Error("GAP")>>
             g == session_generation
             m == Len(read) + 1
  <1>1. r.kind = "capture_gap" /\ Take(r, fs)
    BY DEF ReadCaptureGap, RefuseCaptureGap
  <1>3. /\ fs \in Seq(Findings) /\ (Wrong(fs) <=> r.form # "exact")
        /\ r.form = "exact" => Lacking(fs) /\ ListsGap(fs)
    BY OneOrNone, CheckNames
  <1>4. ~StartsTooEarly(r)
    BY <1>1 DEF StartsTooEarly
  <1> HIDE DEF fs
  <1>5. /\ Grows(read, r, read')
        /\ capture' = capture
        /\ ~initial_session_error_reported'
        /\ Sound(report)'
        /\ report'.has_errors <=> Wrong(fs)
        /\ report'.incomplete <=> report.incomplete \/ Lacking(fs)
        /\ report'.summaries["GAP"]["incomplete"] > 0 <=>
             report.summaries["GAP"]["incomplete"] > 0 \/ ListsGap(fs)
    BY <1>1, <1>3, <1>4, TakeStep DEF Ready, Reflects
  <1>7. RecordLegal(read', g, m) <=> r.form = "exact"
    BY <1>1, <1>5, Appended DEF RecordLegal
  <1>10. ASSUME ~Wrong(fs)
         PROVE  Reflects(read)'
    <2>1. ReadCaptureGap(r)
      BY <1>3, <1>10 DEF RefuseCaptureGap
    <2>2. /\ SessionGap /\ session_generation' = session_generation
          /\ EventsCaptureGap(TRUE) /\ validated_capture_gaps' = validated_capture_gaps + 1
      BY <2>1 DEF ReadCaptureGap, SessionGap
    <2>3. SessionReflects(read)'
      BY <1>1, <1>5, <2>2, SessionFollows DEF Ready, Reflects
    <2>4. /\ UNCHANGED <<occurrence_hashes, deliveries, streams, protocol_gap_epochs, pending>>
          /\ capture_gaps' = capture_gaps + 1 /\ capture_gap_epoch' = capture_gap_epoch + 1
      BY <2>2 DEF EventsCaptureGap
    <2>5. GapsCounted(r)
      BY <1>1, <2>2, <2>4 DEF GapsCounted
    <2>6. /\ OccurrencesReflect(read)' /\ DeliveriesReflect(read)'
          /\ StreamsReflect(read)' /\ GapsReflect(read)' /\ PendingReflects(read)'
      BY <1>1, <1>5, <2>4, <2>5, QuietFollows DEF Ready
    <2>7. Gaps(read') # {}
      BY <1>1, <1>5, HistoryGrows
    <2>8. ReportReflects(read)'
      BY <1>1, <1>3, <1>5, <1>10, <2>7, ReportFollows DEF Ready, Reflects
    <2> QED BY <1>5, <2>3, <2>6, <2>8 DEF Reflects
  <1> HIDE DEF m
  <1> QED BY <1>3, <1>5, <1>7, <1>10 DEF Judges, m

(* Every record is judged by its rule.                                     *)
LEMMA RecordJudged ==
  ASSUME Ready, NEW r \in Records, ReadRecord(r)
  PROVE  Judges(r)
  BY TransitionJudged, EventJudged, AcknowledgementJudged, EventGapJudged,
     CaptureGapJudged DEF ReadRecord

-------------------------------------------------------------------------------
(* The whole run                                                           *)

(* Every record is taken with findings of the report's kind, whether or not *)
(* an error has been reported before it.                                   *)
LEMMA RecordTaken ==
  ASSUME NEW r \in Records, ReadRecord(r)
  PROVE  \E fs \in Seq(Findings) : Take(r, fs)
  <1>1. CASE ReadTransition(r)
    BY <1>1, TransitionReport DEF ReadTransition
  <1>2. CASE ReadEvent(r)
    <2>1. r \in Events
      BY <1>2, RecordKinds DEF ReadEvent
    <2> QED BY <1>2, <2>1, EventReport DEF ReadEvent
  <1>3. CASE ReadAck(r)
    <2>1. r \in Acks
      BY <1>3, RecordKinds DEF ReadAck
    <2> QED BY <1>3, <2>1, AckReport DEF ReadAck
  <1>4. CASE ReadEventGap(r)
    <2>1. r \in EventGaps
      BY <1>4, RecordKinds DEF ReadEventGap
    <2> QED BY <1>4, <2>1, EventGapReport DEF ReadEventGap
  <1>5. CASE ReadCaptureGap(r)
    BY <1>5, OneOrNone, CheckNames DEF ReadCaptureGap
  <1>6. CASE RefuseCaptureGap(r)
    BY <1>6, OneOrNone, CheckNames DEF RefuseCaptureGap
  <1> QED BY <1>1, <1>2, <1>3, <1>4, <1>5, <1>6 DEF ReadRecord

(* The session keeps its generation and its types.                         *)
LEMMA SessionStep ==
  ASSUME SessionTypeOK, validated_capture_gaps \in Nat, NEW r \in Records, ReadRecord(r)
  PROVE  /\ SessionTypeOK' /\ session_generation' = session_generation
         /\ validated_capture_gaps' \in Nat
  <1>1. CASE ReadTransition(r)
    <2>1. r \in Transitions
      BY <1>1, RecordsAssumption
      DEF ReadTransition, Transitions, Events, Acks, EventGaps, CaptureGaps
    <2>2. /\ r.prior \in SessionStates /\ r.next \in SessionStates
          /\ Transition(r) /\ validated_capture_gaps' = validated_capture_gaps
      BY <1>1, <2>1 DEF ReadTransition, Transitions
    <2>3. /\ session_state' \in SessionStates /\ session_transitions' \in Nat
          /\ session_gap_pending' \in BOOLEAN
      <3>1. session_gap_pending' = FALSE \/ session_gap_pending' = session_gap_pending
        BY <2>2 DEF Transition, AcceptTransition, RefuseTransition, IgnoreTransition
      <3>2. \/ session_transitions' = session_transitions + 1
            \/ session_transitions' = session_transitions
        BY <2>2 DEF Transition, AcceptTransition, RefuseTransition, IgnoreTransition
      <3>3. \/ session_state' = r.next \/ session_state' = r.prior
            \/ session_state' = session_state
        BY <2>2 DEF Transition, AcceptTransition, RefuseTransition, IgnoreTransition,
                    ReplayedState
      <3>4. /\ session_state \in SessionStates /\ session_transitions \in Nat
            /\ session_gap_pending \in BOOLEAN
        BY DEF SessionTypeOK
      <3>5. session_state' \in SessionStates
        BY <2>2, <3>3, <3>4
      <3>6. session_transitions' \in Nat
        BY <3>2, <3>4
      <3>7. session_gap_pending' \in BOOLEAN
        BY <3>1, <3>4
      <3> QED BY <3>5, <3>6, <3>7
    <2> QED BY <2>2, <2>3 DEF Transition, SessionTypeOK
  <1>2. CASE ReadEvent(r) \/ ReadAck(r) \/ ReadEventGap(r) \/ RefuseCaptureGap(r)
    BY <1>2 DEF ReadEvent, ReadAck, ReadEventGap, RefuseCaptureGap, sessionVars,
                SessionTypeOK
  <1>3. CASE ReadCaptureGap(r)
    BY <1>3 DEF ReadCaptureGap, SessionGap, SessionTypeOK
  <1> QED BY <1>1, <1>2, <1>3 DEF ReadRecord

(* All that an inductive step needs of the validator's state.              *)
ValidatorInv == ConformanceInv /\ EventsInv /\ SessionTypeOK /\ Sound(report)

(* Reading a record.                                                       *)
LEMMA RecordStep ==
  ASSUME ValidatorInv, NEW r \in Records, ReadRecord(r)
  PROVE  ConformanceInv' /\ SessionTypeOK' /\ Sound(report)'
  <1>0. /\ Sound(report) /\ IsHistory(read) /\ validated_capture_gaps \in Nat
        /\ EventsInv /\ SessionTypeOK /\ ConformanceInv /\ capture.partial \in BOOLEAN
    BY DEF ValidatorInv, ConformanceInv, IsHistory
  <1>1. PICK fs \in Seq(Findings) : Take(r, fs)
    BY RecordTaken
  <1>2. /\ Grows(read, r, read') /\ phase = "records"
        /\ UNCHANGED <<phase, preflight_failed, capture>>
        /\ Sound(report)'
        /\ report'.has_errors <=> report.has_errors \/ StartsTooEarly(r) \/ Wrong(fs)
    BY <1>0, <1>1, TakeStep
  <1>3. /\ SessionTypeOK' /\ session_generation' = session_generation
        /\ validated_capture_gaps' \in Nat
    BY <1>0, SessionStep
  <1>4. /\ ~preflight_failed /\ (~report.has_errors => Reflects(read))
        /\ report.has_errors <=> ~LegalSoFar(read, session_generation)
    BY <1>0, <1>2 DEF ConformanceInv
  <1>5. LegalSoFar(read', session_generation)
          <=> /\ LegalSoFar(read, session_generation)
              /\ RecordLegal(read', session_generation, Len(read) + 1)
    BY <1>2, LegalGrows
  <1>6. /\ ~report'.has_errors => Reflects(read)'
        /\ report'.has_errors <=> ~LegalSoFar(read', session_generation)
    <2>1. CASE report.has_errors
      BY <1>2, <1>4, <1>5, <2>1
    <2>2. CASE ~report.has_errors
      <3>1. Judges(r)
        BY <1>0, <1>4, <2>2, RecordJudged DEF Ready
      <3> QED BY <1>4, <1>5, <2>2, <3>1 DEF Judges
    <2> QED BY <2>1, <2>2
  <1>7. read' \in Seq(Records)
    BY <1>2, Appended DEF IsHistory
  <1>8. LegalSoFar(read, session_generation)'
          <=> LegalSoFar(read', session_generation)
    BY <1>3 DEF LegalSoFar, TransitionLegal
  <1>9. ConformanceInv'
    BY <1>0, <1>2, <1>3, <1>4, <1>6, <1>7, <1>8 DEF ConformanceInv
  <1> QED BY <1>2, <1>3, <1>9

(* A list of findings given by its members.                                *)
LEMMA ListOfFindings ==
  ASSUME NEW n \in Nat, NEW f \in [1..n -> Findings]
  PROVE  f \in Seq(Findings) /\ Len(f) = n
  OBVIOUS

(* The failed checks are reported one by one.                              *)
LEMMA PreflightReport ==
  ASSUME NEW failed \in PreflightFailures,
         NEW fs, fs = [i \in 1..Cardinality(failed) |-> Error(SetToSeq(failed)[i])]
  PROVE  /\ fs \in Seq(Findings)
         /\ Wrong(fs) <=> failed # {}
         /\ ~Lacking(fs) /\ ~ListsGap(fs)
  <1> DEFINE n == Cardinality(failed)
             q == SetToSeq(failed)
  <1>1. failed \subseteq Checks
    BY RecordsAssumption DEF Checks
  <1>2. IsFiniteSet(failed)
    BY <1>1, ChecksAreFinite, FS_Subset
  <1>3. n \in Nat /\ ExistsBijection(1..n, failed) /\ (n = 0 <=> failed = {})
    BY <1>2, FS_CardinalityType, FS_EmptySet
  <1>4. q \in [1..n -> failed]
    <2>1. \E f \in [1..n -> failed] : IsInjective(f)
      BY <1>3 DEF ExistsBijection, Bijection, Injection
    <2> HIDE DEF n
    <2>2. \E f \in [1..Cardinality(failed) -> failed] : IsInjective(f)
      BY <2>1 DEF n
    <2> QED BY <2>2 DEF SetToSeq, n
  <1> HIDE DEF n, q
  <1>5. fs = [i \in 1..n |-> Error(q[i])]
    BY DEF n, q
  <1>6. \A i \in 1..n : q[i] \in Checks
    BY <1>1, <1>4
  <1>7. \A c \in Checks : Error(c) \in Findings /\ Error(c).severity = "error"
    BY DEF Error, Findings, Severities
  <1>8. fs \in [1..n -> Findings] /\ \A i \in 1..n : fs[i] = Error(q[i])
    BY <1>5, <1>6, <1>7
  <1>9. n \in Nat /\ (failed # {} => n >= 1) /\ (failed = {} => n = 0)
    BY <1>3
  <1>10. fs \in Seq(Findings) /\ Len(fs) = n
    BY <1>8, <1>9, ListOfFindings
  <1>11. \A i \in 1..n : fs[i].severity = "error"
    BY <1>6, <1>7, <1>8
  <1>12. \A i \in 1..n : fs[i].severity # "incomplete"
    BY <1>11
  <1>13. CASE failed = {}
    <2>1. 1..n = {}
      BY <1>9, <1>13
    <2> QED BY <1>10, <1>13, <2>1 DEF Wrong, Lacking, ListsGap
  <1>14. CASE failed # {}
    <2>1. 1 \in 1..n
      BY <1>9, <1>14
    <2> QED BY <1>10, <1>11, <1>12, <1>14, <2>1 DEF Wrong, Lacking, ListsGap
  <1> QED BY <1>13, <1>14

(* What the records show depends on the two reducers and on the report.     *)
LEMMA StateStays ==
  ASSUME Reflects(read), UNCHANGED <<sessionVars, eventVars, capture, read>>,
         UNCHANGED <<validated_capture_gaps, initial_session_error_reported>>,
         report'.incomplete <=> report.incomplete,
         report'.summaries["GAP"]["incomplete"] > 0
           <=> report.summaries["GAP"]["incomplete"] > 0
  PROVE  Reflects(read)'
  <1>1. SessionReflects(read)'
    BY DEF Reflects, SessionReflects, sessionVars
  <1>2. OccurrencesReflect(read)'
    BY DEF Reflects, OccurrencesReflect, eventVars
  <1>3. DeliveriesReflect(read)'
    BY DEF Reflects, DeliveriesReflect, DeliveryReflects, eventVars
  <1>4. StreamsReflect(read)'
    BY DEF Reflects, StreamsReflect, StreamReflects, eventVars
  <1>5. GapsReflect(read)'
    BY DEF Reflects, GapsReflect, eventVars
  <1>6. PendingReflects(read)'
    BY DEF Reflects, PendingReflects, eventVars
  <1>7. ReportReflects(read)'
    BY DEF Reflects, ReportReflects
  <1> QED
    BY <1>1, <1>2, <1>3, <1>4, <1>5, <1>6, <1>7 DEF Reflects

(* The preflight.                                                          *)
LEMMA PreflightStep ==
  ASSUME ValidatorInv, Preflight
  PROVE  ConformanceInv' /\ SessionTypeOK' /\ Sound(report)'
  <1>1. PICK failed \in PreflightFailures :
          /\ Report([i \in 1..Cardinality(failed) |-> Error(SetToSeq(failed)[i])])
          /\ preflight_failed' = (failed # {})
          /\ phase' = IF failed = {} THEN "records" ELSE "done"
    BY DEF Preflight
  <1>2. PICK fs : fs = [i \in 1..Cardinality(failed) |-> Error(SetToSeq(failed)[i])]
    OBVIOUS
  <1>3. /\ fs \in Seq(Findings) /\ (Wrong(fs) <=> failed # {})
        /\ ~Lacking(fs) /\ ~ListsGap(fs)
    BY <1>2, PreflightReport
  <1>4. /\ phase = "preflight"
        /\ UNCHANGED <<sessionVars, eventVars, capture, read>>
        /\ UNCHANGED <<validated_capture_gaps, initial_session_error_reported>>
        /\ session_generation' = session_generation
    BY DEF Preflight, sessionVars
  <1>5. /\ Sound(report) /\ SessionTypeOK /\ ConformanceInv
        /\ read = <<>> /\ ~report.has_errors /\ Reflects(read)
        /\ LegalSoFar(read, session_generation)
        /\ validated_capture_gaps \in Nat /\ read \in Seq(Records)
        /\ capture.partial \in BOOLEAN
    BY <1>4 DEF ValidatorInv, ConformanceInv
  <1>6. /\ Sound(report)'
        /\ report'.has_errors <=> failed # {}
        /\ report'.incomplete <=> report.incomplete
        /\ report'.summaries["GAP"]["incomplete"] > 0
             <=> report.summaries["GAP"]["incomplete"] > 0
    BY <1>1, <1>2, <1>3, <1>5, ReportStep
  <1>7. Reflects(read)'
    BY <1>4, <1>5, <1>6, StateStays
  <1>8. SessionTypeOK'
    BY <1>4, <1>5 DEF SessionTypeOK, sessionVars
  <1>9. LegalSoFar(read, session_generation)'
    BY <1>4, <1>5 DEF LegalSoFar, TransitionLegal
  <1>10. ConformanceInv'
    <2>1. CASE failed = {}
      <3>1. phase' = "records" /\ ~preflight_failed' /\ ~report'.has_errors
        BY <1>1, <1>6, <2>1
      <3> QED BY <1>4, <1>5, <1>7, <1>9, <3>1 DEF ConformanceInv
    <2>2. CASE failed # {}
      <3>1. phase' = "done" /\ preflight_failed' /\ report'.has_errors
        BY <1>1, <1>6, <2>2
      <3> QED BY <1>4, <1>5, <3>1 DEF ConformanceInv, Finished
    <2> QED BY <2>1, <2>2
  <1> QED BY <1>6, <1>8, <1>10

(* What is still pending at the end is wrong exactly when an acknowledged   *)
(* delivery came later, or never came and no gap is declared for it.       *)
LEMMA PendingJudged ==
  ASSUME Reflects(read), EventsInv, IsHistory(read), validated_capture_gaps \in Nat
  PROVE  /\ PendingFindings \in Seq(Findings)
         /\ capture.partial = (validated_capture_gaps > 0) =>
              (Wrong(PendingFindings) <=> ~AcksResolve(read))
         /\ Lacking(PendingFindings) => Gaps(read) # {}
  <1> DEFINE fs == PendingFindings
             n == Len(pending)
             lost == validated_capture_gaps > 0
             Owed(d) == \E i \in 1..n : pending[i] = d
  <1>1. /\ n \in Nat /\ \A i \in 1..n : pending[i] \in Deliveries
    BY DEF EventsInv, EventsTypeOK
  <1>2. /\ \A d \in Deliveries : Owed(d) <=> Waits(read, d)
        /\ \A d \in Deliveries : d \in DOMAIN deliveries <=> Transmissions(read, d) # {}
        /\ lost <=> CaptureGapAfter(read, 0)
    BY DEF Reflects, PendingReflects, DeliveriesReflect, GapsReflect
  <1>3. CaptureGapAfter(read, 0) <=> At(read, "capture_gap") # {}
    <2>1. \A c \in At(read, "capture_gap") : 0 < c
      BY Positions
    <2> QED BY <2>1 DEF CaptureGapAfter
  <1>4. ASSUME NEW d
        PROVE  /\ PendingFinding(d) \in {Error("ACK"), Incomplete("ACK")}
               /\ PendingFinding(d) = Error("ACK")
                    <=> d \in DOMAIN deliveries \/ ~(capture.partial /\ lost)
    BY DEF PendingFinding, Error, Incomplete
  <1>5. /\ Error("ACK") \in Findings /\ Incomplete("ACK") \in Findings
        /\ Error("ACK").severity = "error" /\ Incomplete("ACK").severity = "incomplete"
        /\ Error("ACK") # Incomplete("ACK")
    BY CheckNames DEF Error, Incomplete, Findings, Severities
  <1> HIDE DEF n, lost, Owed
  <1>6. fs = [i \in 1..n |-> PendingFinding(pending[i])]
    BY DEF PendingFindings, n
  <1> HIDE DEF fs
  <1>7. fs \in [1..n -> Findings] /\ \A i \in 1..n : fs[i] = PendingFinding(pending[i])
    BY <1>4, <1>5, <1>6
  <1>8. fs \in Seq(Findings) /\ Len(fs) = n
    BY <1>1, <1>7, ListOfFindings
  <1>9. Wrong(fs) <=> \E i \in 1..n : PendingFinding(pending[i]) = Error("ACK")
    BY <1>4, <1>5, <1>7, <1>8 DEF Wrong
  <1>10. Lacking(fs) => lost
    <2>1. ASSUME NEW i \in 1..n, fs[i].severity = "incomplete"
          PROVE  lost
      <3>1. PendingFinding(pending[i]) # Error("ACK")
        BY <1>5, <1>7, <2>1
      <3> QED BY <1>4, <3>1
    <2> QED BY <1>8, <2>1 DEF Lacking
  <1>11. Wrong(fs) <=>
           \E d \in Deliveries :
             Waits(read, d) /\ (Transmissions(read, d) # {} \/ ~(capture.partial /\ lost))
    BY <1>1, <1>2, <1>4, <1>9 DEF Owed
  <1>12. ASSUME NEW i \in At(read, "event_ack")
         PROVE  /\ i \in Nat /\ read[i].delivery \in Deliveries
                /\ \A m \in Transmissions(read, read[i].delivery) : m \in Nat /\ m # i
    <2>1. /\ i \in 1..Len(read) /\ read[i] \in Records /\ read[i].kind = "event_ack"
          /\ Len(read) \in Nat
      BY Positions
    <2>2. read[i] \in Acks
      BY <2>1, RecordKinds
    <2>3. /\ Transmissions(read, read[i].delivery) \in SUBSET (1..Len(read))
          /\ Transmissions(read, read[i].delivery) \in SUBSET At(read, "event_delivery")
          /\ \A m \in At(read, "event_delivery") : read[m].kind = "event_delivery"
      BY Positions
    <2> QED BY <2>1, <2>2, <2>3 DEF Acks
  <1>13. ASSUME NEW i \in At(read, "event_ack"), Transmissions(read, read[i].delivery) # {}
         PROVE  ~(Min(Transmissions(read, read[i].delivery)) < i)
                  <=> \A m \in Transmissions(read, read[i].delivery) : i < m
    <2> DEFINE T == Transmissions(read, read[i].delivery)
               x == Min(T)
    <2>0. Len(read) \in Nat /\ T \in SUBSET (1..Len(read)) /\ T # {}
      BY <1>13, Positions
    <2>1. x \in T /\ \A y \in T : x <= y
      BY <2>0, Extremes
    <2>2. i \in Nat /\ \A m \in T : m \in Nat /\ m # i
      BY <1>12
    <2> HIDE DEF T, x
    <2>3. ~(x < i) <=> \A m \in T : i < m
      BY <2>1, <2>2
    <2> QED BY <2>3 DEF T, x
  <1>14. ASSUME capture.partial = lost
         PROVE  Wrong(fs) <=> ~AcksResolve(read)
    <2>1. Wrong(fs) <=>
            \E d \in Deliveries :
              /\ Waits(read, d)
              /\ Transmissions(read, d) # {} \/ At(read, "capture_gap") = {}
      BY <1>2, <1>3, <1>11, <1>14
    <2>2. ASSUME NEW d \in Deliveries, Waits(read, d),
                 Transmissions(read, d) # {} \/ At(read, "capture_gap") = {}
          PROVE  ~AcksResolve(read)
      <3>1. PICK j \in At(read, "event_ack") :
              read[j].delivery = d /\ \A m \in Transmissions(read, d) : j < m
        BY <2>2 DEF Waits
      <3>2. CASE Transmissions(read, d) = {}
        BY <2>2, <3>1, <3>2 DEF AcksResolve
      <3>3. CASE Transmissions(read, d) # {}
        <4>1. ~(Min(Transmissions(read, read[j].delivery)) < j)
          BY <1>13, <3>1, <3>3
        <4> QED BY <3>1, <3>3, <4>1 DEF AcksResolve
      <3> QED BY <3>2, <3>3
    <2>3. ASSUME ~AcksResolve(read)
          PROVE  \E d \in Deliveries :
                   /\ Waits(read, d)
                   /\ Transmissions(read, d) # {} \/ At(read, "capture_gap") = {}
      <3>1. PICK i \in At(read, "event_ack") :
              ~(IF Transmissions(read, read[i].delivery) = {}
                  THEN At(read, "capture_gap") # {}
                  ELSE Min(Transmissions(read, read[i].delivery)) < i)
        BY <2>3 DEF AcksResolve
      <3>2. \A m \in Transmissions(read, read[i].delivery) : i < m
        BY <1>13, <3>1
      <3>3. Waits(read, read[i].delivery)
        BY <3>2 DEF Waits
      <3> QED BY <1>12, <3>1, <3>3
    <2> QED BY <2>1, <2>2, <2>3
  <1>15. lost => Gaps(read) # {}
    BY <1>2, <1>3 DEF Gaps
  <1> QED BY <1>8, <1>10, <1>14, <1>15 DEF fs, lost

(* The end.                                                                *)
LEMMA FinishStep ==
  ASSUME ValidatorInv, Finish
  PROVE  ConformanceInv' /\ SessionTypeOK' /\ Sound(report)'
  <1> DEFINE a == PendingFindings
             b == CompletenessFindings
             c == Unstarted(NoBeginning)
             d == CaptureFindings
             fs == a \o b \o c \o d
             lost == validated_capture_gaps > 0
             g == session_generation
             h == read
  <1>1. /\ phase = "records" /\ phase' = "done" /\ read # <<>> /\ Report(fs)
        /\ UNCHANGED <<sessionVars, capture, validated_capture_gaps, read, preflight_failed>>
        /\ session_generation' = session_generation
    BY DEF Finish, sessionVars
  <1>2. /\ Sound(report) /\ SessionTypeOK /\ EventsInv /\ ConformanceInv
        /\ validated_capture_gaps \in Nat /\ h \in Seq(Records) /\ IsHistory(h)
        /\ capture.partial \in BOOLEAN /\ ~preflight_failed
        /\ ~report.has_errors => Reflects(h)
        /\ report.has_errors <=> ~LegalSoFar(h, g)
    BY <1>1 DEF ValidatorInv, ConformanceInv, IsHistory
  <1>3. SessionTypeOK'
    BY <1>1, <1>2 DEF SessionTypeOK, sessionVars
  <1>4. a \in Seq(Findings)
    <2>1. pending \in Seq(Deliveries)
      BY <1>2 DEF EventsInv, EventsTypeOK
    <2>2. /\ Error("ACK") \in Findings /\ Incomplete("ACK") \in Findings
      BY CheckNames DEF Error, Incomplete, Findings, Severities
    <2>3. Len(pending) \in Nat
      BY <2>1
    <2>4. \A x : PendingFinding(x) \in Findings
      BY <2>2 DEF PendingFinding
    <2>5. a \in [1..Len(pending) -> Findings]
      BY <2>4 DEF PendingFindings
    <2> QED BY <2>3, <2>5, ListOfFindings
  <1>5. /\ b \in Seq(Findings) /\ (Wrong(b) <=> capture.partial # lost) /\ ~Lacking(b)
        /\ d \in Seq(Findings) /\ (Wrong(d) <=> ~capture.ordered) /\ ~Lacking(d)
        /\ ~ListsGap(b) /\ ~ListsGap(d)
    BY OneOrNone, CheckNames DEF CompletenessFindings, CaptureFindings
  <1>6. c \in Seq(Findings) /\ (Wrong(c) <=> NoBeginning) /\ ~Lacking(c) /\ ~ListsGap(c)
    <2>1. NoBeginning \in BOOLEAN
      BY DEF NoBeginning
    <2> QED BY <2>1, UnstartedReport
  <1> HIDE DEF a, b, c, d
  <1> DEFINE ab == a \o b
             abc == ab \o c
  <1>e. fs = abc \o d
    OBVIOUS
  <1>f. /\ ab \in Seq(Findings) /\ (Wrong(ab) <=> Wrong(a) \/ Wrong(b))
        /\ (Lacking(ab) <=> Lacking(a)) /\ (ListsGap(ab) <=> ListsGap(a))
    BY <1>4, <1>5, OneAfterAnother
  <1> HIDE DEF ab
  <1>g. /\ abc \in Seq(Findings) /\ (Wrong(abc) <=> Wrong(a) \/ Wrong(b) \/ Wrong(c))
        /\ (Lacking(abc) <=> Lacking(a)) /\ (ListsGap(abc) <=> ListsGap(a))
    BY <1>6, <1>f, OneAfterAnother
  <1> HIDE DEF abc, fs
  <1>7. /\ fs \in Seq(Findings)
        /\ Wrong(fs) <=> Wrong(a) \/ Wrong(b) \/ Wrong(c) \/ Wrong(d)
        /\ Lacking(fs) <=> Lacking(a)
        /\ ListsGap(fs) <=> ListsGap(a)
    BY <1>5, <1>e, <1>g, OneAfterAnother
  <1>8. /\ Sound(report)'
        /\ report'.has_errors <=> report.has_errors \/ Wrong(fs)
        /\ report'.incomplete <=> report.incomplete \/ Lacking(fs)
        /\ report'.summaries["GAP"]["incomplete"] > 0 <=>
             report.summaries["GAP"]["incomplete"] > 0 \/ ListsGap(fs)
    BY <1>1, <1>2, <1>7, ReportStep
  <1>9. /\ report'.has_errors <=> ~Acceptable(h, g, capture)
        /\ ~report'.has_errors => ReportReflects(h)'
    <2>1. CASE report.has_errors
      BY <1>2, <1>8, <2>1 DEF Acceptable
    <2>2. CASE ~report.has_errors
      <3>1. Reflects(h)
        BY <1>2, <2>2
      <3>2. /\ capture.partial = lost => (Wrong(a) <=> ~AcksResolve(h))
            /\ Lacking(a) => Gaps(h) # {}
        BY <1>2, <3>1, PendingJudged DEF a
      <3>3. NoBeginning <=> ~Begun(h, Len(h))
        <4>1. NoBeginning <=> /\ At(h, "session_transition") = {}
                              /\ At(h, "capture_gap") = {}
          BY <1>2, <3>1, BeginningIsKnown DEF Reflects
        <4>2. \A k : \A j \in At(h, k) : j <= Len(h)
          BY <1>2, Positions
        <4> QED BY <4>1, <4>2 DEF Begun
      <3>4. lost <=> At(h, "capture_gap") # {}
        <4>1. lost <=> CaptureGapAfter(h, 0)
          BY <3>1 DEF Reflects, GapsReflect
        <4>2. \A x \in At(h, "capture_gap") : 0 < x
          BY <1>2, Positions
        <4> QED BY <4>1, <4>2 DEF CaptureGapAfter
      <3>5. LegalSoFar(h, g)
        BY <1>2, <2>2
      <3> HIDE DEF lost, h, g
      <3>6. capture.partial = lost <=> (capture.partial <=> At(h, "capture_gap") # {})
        BY <1>2, <3>4 DEF lost
      <3>7. Acceptable(h, g, capture) <=>
              /\ AcksResolve(h) /\ Begun(h, Len(h))
              /\ capture.ordered /\ (capture.partial <=> At(h, "capture_gap") # {})
        BY <3>5 DEF Acceptable
      <3>8. Wrong(fs) <=> ~Acceptable(h, g, capture)
        BY <1>5, <1>6, <1>7, <3>2, <3>3, <3>6, <3>7
      <3>9. ReportReflects(h)'
        <4>1. ReportReflects(h)
          BY <3>1 DEF Reflects, h
        <4>2. capture' = capture /\ h' = h
          BY <1>1 DEF h
        <4> QED BY <1>7, <1>8, <3>2, <4>1, <4>2 DEF ReportReflects
      <3> QED BY <1>8, <2>2, <3>8, <3>9
    <2> QED BY <2>1, <2>2
  <1>10. Acceptable(read, session_generation, capture)'
           <=> Acceptable(h, g, capture)
    BY <1>1 DEF Acceptable, LegalSoFar, TransitionLegal
  <1>11. Finished'
    BY <1>9, <1>10 DEF Finished
  <1>12. ConformanceInv'
    BY <1>1, <1>2, <1>11 DEF ConformanceInv
  <1> QED BY <1>3, <1>8, <1>12

(* ValidatorInv is inductive: before the first record nothing is reflected  *)
(* and no rule is broken, and every step keeps it.                         *)
LEMMA ValidatorInvInitially == Init => ValidatorInv
  <1> SUFFICES ASSUME Init PROVE ValidatorInv
    OBVIOUS
  <1>1. /\ session_generation \in Generations /\ session_transitions = 0
        /\ session_state = Initial(session_generation)
        /\ session_gap_pending = FALSE
        /\ DOMAIN occurrence_hashes = {} /\ DOMAIN deliveries = {} /\ DOMAIN streams = {}
        /\ capture_gap_epoch = 0 /\ capture_gaps = 0 /\ pending = <<>>
        /\ \A s \in Subscriptions : protocol_gap_epochs[s] = 0
        /\ phase = "preflight" /\ preflight_failed = FALSE
        /\ capture \in [partial : BOOLEAN, ordered : BOOLEAN]
        /\ report = NewReport(capture.partial)
        /\ validated_capture_gaps = 0 /\ initial_session_error_reported = FALSE
        /\ read = <<>>
    BY DEF Init, SessionInit, EventsInit, Initial
  <1>2. /\ capture.partial \in BOOLEAN /\ Sound(report) /\ EventsInv
        /\ ~report.has_errors /\ report.incomplete = capture.partial
        /\ read \in Seq(Records)
    BY <1>1, NewReportSound, EventsInvInitially DEF NewReport
  <1>3. SessionTypeOK
    BY <1>1 DEF SessionTypeOK, SessionStates, Initial
  <1>4. /\ \A k : At(read, k) = {}
        /\ \A d : Transmissions(read, d) = {} /\ Terminals(read, d) = {}
        /\ \A k : Firsts(read, k) = {}
        /\ Gaps(read) = {} /\ Len(read) = 0
    BY <1>1 DEF At, Transmissions, Terminals, Firsts, Gaps
  <1>5. LegalSoFar(read, session_generation)
    BY <1>4 DEF LegalSoFar
  <1>6. SessionReflects(read) /\ OccurrencesReflect(read) /\ DeliveriesReflect(read)
    BY <1>1, <1>4
    DEF SessionReflects, OccurrencesReflect, DeliveriesReflect, CaptureGapAfter
  <1>7. StreamsReflect(read) /\ GapsReflect(read)
    BY <1>1, <1>4 DEF StreamsReflect, GapsReflect, CaptureGapAfter, EventGapAfter
  <1>8. PendingReflects(read)
    <2>1. Len(pending) = 0 /\ \A i \in 1..0 : FALSE
      BY <1>1
    <2>2. \A d : ~Waits(read, d)
      BY <1>4 DEF Waits
    <2> QED BY <2>1, <2>2 DEF PendingReflects
  <1>9. ReportReflects(read)
    BY <1>2, <1>4 DEF ReportReflects
  <1>10. Reflects(read)
    BY <1>1, <1>6, <1>7, <1>8, <1>9 DEF Reflects
  <1> QED
    BY <1>1, <1>2, <1>3, <1>5, <1>10 DEF ValidatorInv, ConformanceInv

(* Every step of the validator keeps its invariant.                        *)
LEMMA ValidatorInvStep == ValidatorInv /\ [Next]_vars => ValidatorInv'
  <1> SUFFICES ASSUME ValidatorInv, [Next]_vars PROVE ValidatorInv'
    OBVIOUS
  <1>1. EventsInv'
    BY EventsInvStep DEF ValidatorInv
  <1>2. CASE Preflight
    BY <1>1, <1>2, PreflightStep DEF ValidatorInv
  <1>3. ASSUME NEW r \in Records, ReadRecord(r)
        PROVE  ValidatorInv'
    BY <1>1, <1>3, RecordStep DEF ValidatorInv
  <1>4. CASE Finish
    BY <1>1, <1>4, FinishStep DEF ValidatorInv
  <1>5. CASE UNCHANGED vars
    <2>1. /\ UNCHANGED <<report, sessionVars, eventVars, phase, preflight_failed, capture>>
          /\ UNCHANGED <<validated_capture_gaps, initial_session_error_reported, read>>
      BY <1>5 DEF vars, validatorVars
    <2>2. SessionTypeOK' /\ Sound(report)'
      BY <2>1 DEF ValidatorInv, SessionTypeOK, sessionVars
    <2>3. (LegalSoFar(read, session_generation)' <=> LegalSoFar(read, session_generation))
          /\ (Acceptable(read, session_generation, capture)'
                <=> Acceptable(read, session_generation, capture))
      BY <2>1 DEF Acceptable, LegalSoFar, TransitionLegal, sessionVars
    <2>4. Reflects(read) => Reflects(read)'
      BY <2>1, StateStays
    <2>5. Finished => Finished'
      BY <2>1, <2>3 DEF Finished, ReportReflects
    <2>6. ConformanceInv'
      BY <2>1, <2>3, <2>4, <2>5 DEF ValidatorInv, ConformanceInv
    <2> QED BY <1>1, <2>2, <2>6 DEF ValidatorInv
  <1> QED BY <1>2, <1>3, <1>4, <1>5 DEF Next

(* So it holds of every verification.                                      *)
LEMMA ValidatorInvAlways == Spec => []ValidatorInv
  BY ValidatorInvInitially, ValidatorInvStep, PTL DEF Spec

(* Whatever the records and however many, the one-pass reducers report an
   error with the first record that breaks a rule of the lifecycle, never
   earlier and never later; what only the end can tell comes at the end.   *)
THEOREM ErrorsComeWithTheirRecord == Spec => []ErrorsComeAtOnce
  <1>1. ValidatorInv => ErrorsComeAtOnce
    BY DEF ValidatorInv, ConformanceInv, ErrorsComeAtOnce, Finished, ReportReflects
  <1> QED BY <1>1, ValidatorInvAlways, PTL

(* The verdict on a whole bundle is invalid exactly when the bundle breaks a
   rule, and otherwise incomplete exactly when it declares a gap.          *)
THEOREM VerdictsAreExact == Spec => []VerdictIsExact
  <1>1. ValidatorInv => VerdictIsExact
    <2> SUFFICES ASSUME ValidatorInv, phase = "done", ~preflight_failed
                 PROVE  Verdict(report) =
                          IF ~Acceptable(read, session_generation, capture) THEN "invalid"
                          ELSE IF Gaps(read) # {} THEN "incomplete" ELSE "valid"
      BY DEF VerdictIsExact
    <2>1. /\ report.has_errors <=> ~Acceptable(read, session_generation, capture)
          /\ ~report.has_errors =>
               (report.incomplete <=> capture.partial \/ Gaps(read) # {})
      BY DEF ValidatorInv, ConformanceInv, Finished, ReportReflects
    <2>2. Acceptable(read, session_generation, capture) /\ capture.partial
            => Gaps(read) # {}
      BY DEF Acceptable, Gaps
    <2> QED BY <2>1, <2>2 DEF Verdict
  <1> QED BY <1>1, ValidatorInvAlways, PTL

(* A report vouches for the lifecycle or the linkage only of a bundle that
   was replayed, breaks no rule and declares no gap.                       *)
THEOREM AssurancesAreEarned == Spec => []AssuranceIsEarned
  <1>1. ValidatorInv => AssuranceIsEarned
    <2> SUFFICES ASSUME ValidatorInv, phase = "done",
                        NEW x \in {"recorded_lifecycle", "recorded_linkage"},
                        x \in Verified(report, preflight_failed)
                 PROVE  /\ ~preflight_failed
                        /\ Acceptable(read, session_generation, capture)
                        /\ Gaps(read) = {}
      BY DEF AssuranceIsEarned
    <2>1. "GAP" \in Rests[x] /\ "GAP" \in SemanticChecks
      BY DEF Rests, SemanticChecks
    <2>2. ~report.has_errors /\ CheckStatus(report, preflight_failed, "GAP") = "pass"
      BY <2>1 DEF Verified
    <2>3. ~preflight_failed /\ ~(report.summaries["GAP"]["incomplete"] > 0)
      BY <2>1, <2>2 DEF CheckStatus
    <2>4. /\ report.has_errors <=> ~Acceptable(read, session_generation, capture)
          /\ Gaps(read) # {} => report.summaries["GAP"]["incomplete"] > 0
      BY <2>2, <2>3 DEF ValidatorInv, ConformanceInv, Finished, ReportReflects
    <2> QED BY <2>2, <2>3, <2>4
  <1> QED BY <1>1, ValidatorInvAlways, PTL

(* The report of a whole verification is sound: it hides no error, its three
   records of the findings agree, and what it does not show it counts.     *)
THEOREM ReportsAreSound == Spec => []ReportIsSound
  <1>1. ValidatorInv => ReportIsSound
    BY SoundReport DEF ValidatorInv
  <1> QED BY <1>1, ValidatorInvAlways, PTL


(* Every variable of the validator keeps its type.                         *)
THEOREM ValidatorTypeCorrect == Spec => []TypeOK
  <1> DEFINE FlagsOK == /\ preflight_failed \in BOOLEAN
                        /\ initial_session_error_reported \in BOOLEAN
                        /\ capture \in [partial : BOOLEAN, ordered : BOOLEAN]
  <1>1. Init => FlagsOK
    BY DEF Init
  <1>2. FlagsOK /\ [Next]_vars => FlagsOK'
    <2> SUFFICES ASSUME FlagsOK, [Next]_vars PROVE FlagsOK'
      OBVIOUS
    <2>1. CASE Preflight
      BY <2>1 DEF Preflight
    <2>2. ASSUME NEW r \in Records, ReadRecord(r)
          PROVE  FlagsOK'
      <3>1. \E fs : Take(r, fs)
        BY <2>2 DEF ReadRecord, ReadTransition, ReadEvent, ReadAck, ReadEventGap,
                    ReadCaptureGap, RefuseCaptureGap
      <3> QED BY <3>1 DEF Take
    <2>3. CASE Finish
      BY <2>3 DEF Finish
    <2>4. CASE UNCHANGED vars
      BY <2>4 DEF vars, validatorVars
    <2> QED BY <2>1, <2>2, <2>3, <2>4 DEF Next
  <1>3. ValidatorInv /\ FlagsOK => TypeOK
    BY SoundReport DEF ValidatorInv, ConformanceInv, EventsInv, TypeOK
  <1> HIDE DEF FlagsOK
  <1> QED BY <1>1, <1>2, <1>3, ValidatorInvAlways, PTL DEF Spec
===============================================================================
