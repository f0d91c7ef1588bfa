-------------------------- MODULE ReplayReducerProofs ------------------------
(***************************************************************************)
(* What holds of the two things every step of the validator adds to.        *)
(*                                                                         *)
(* The report, for every bound on the diagnostics and every sequence of    *)
(* findings: its counts account for what it shows and omits, its verdict    *)
(* and assurances for what it counts.                                      *)
(*                                                                         *)
(* The event reducer, for every set of records and bundles of any length.   *)
(* The inductive invariant is EventsInv: the types of the                  *)
(* tables together with the agreement of streams and deliveries, which     *)
(* needs that a stream's delivery is known under the stream's own key: that *)
(* is how the acknowledgement of a delivery finds the stream it belongs to. *)
(***************************************************************************)
EXTENDS ReplayConformance, Induction

(* The report: what one finding does to it.                                *)

(* The list of diagnostics keeps its bound and shows an error once there
   is one; what it shows is the new finding or was shown before. *)
LEMMA KeepIsBounded ==
  ASSUME NEW s \in Seq(Findings), Len(s) <= MaxDiagnostics, NEW f \in Findings
  PROVE  /\ Keep(s, f) \in Seq(Findings)
         /\ Len(Keep(s, f)) <= MaxDiagnostics
         /\ Len(Keep(s, f)) > 0
         /\ ErrorShown(Keep(s, f)) <=> ErrorShown(s) \/ f.severity = "error"
         /\ \A i \in 1..Len(Keep(s, f)) :
              Keep(s, f)[i] = f \/ (i \in 1..Len(s) /\ Keep(s, f)[i] = s[i])
  <1>1. CASE Len(s) < MaxDiagnostics
    BY <1>1, MaxDiagnosticsAssumption DEF Keep, ErrorShown
  <1>2. CASE /\ ~(Len(s) < MaxDiagnostics)
             /\ f.severity = "error" /\ ~ErrorShown(s)
    <2>1. Keep(s, f) = [s EXCEPT ![Len(s)] = f]
      BY <1>2 DEF Keep
    <2>2. Len(s) = MaxDiagnostics /\ Len(s) > 0
      BY <1>2, MaxDiagnosticsAssumption
    <2> QED
      BY <2>1, <2>2, <1>2 DEF ErrorShown
  <1>3. CASE /\ ~(Len(s) < MaxDiagnostics)
             /\ ~(f.severity = "error" /\ ~ErrorShown(s))
    <2>1. Keep(s, f) = s
      BY <1>3 DEF Keep
    <2>2. Len(s) = MaxDiagnostics /\ Len(s) > 0
      BY <1>3, MaxDiagnosticsAssumption
    <2> QED
      BY <2>1, <2>2, <1>3 DEF ErrorShown
  <1> QED
    BY <1>1, <1>2, <1>3

(* Counting one finding raises its own count and no other.                 *)
LEMMA CountOne ==
  ASSUME NEW m \in [Checks -> [Severities -> Nat]],
         NEW c \in Checks, NEW v \in Severities,
         NEW n, n = [m EXCEPT ![c][v] = @ + 1]
  PROVE  /\ n \in [Checks -> [Severities -> Nat]]
         /\ n[c][v] > 0
         /\ \A d \in Checks, w \in Severities : m[d][w] > 0 => n[d][w] > 0
         /\ \A d \in Checks, w \in Severities : w # v => n[d][w] = m[d][w]
  <1>1. n \in [Checks -> [Severities -> Nat]]
    OBVIOUS
  <1>2. \A d \in Checks, w \in Severities :
          n[d][w] = IF d = c /\ w = v THEN m[d][w] + 1 ELSE m[d][w]
    OBVIOUS
  <1>3. \A d \in Checks, w \in Severities : m[d][w] \in Nat
    OBVIOUS
  <1> QED
    BY <1>1, <1>2, <1>3

-------------------------------------------------------------------------------
(* The sum over the check summaries, taken one check at a time.            *)
CountOf(m, d) == m[d]["error"] + m[d]["incomplete"]
Next1(s) == CHOOSE x \in s : TRUE
AddsUp(m, g) ==
  g = [s \in SUBSET Checks |-> IF s = {} THEN 0
                               ELSE CountOf(m, Next1(s)) + g[s \ {Next1(s)}]]
Total(m) == MapThenSumSet(LAMBDA c : m[c]["error"] + m[c]["incomplete"], Checks)

(* There are finitely many checks, so that their counts can be added up.   *)
LEMMA ChecksAreFinite == IsFiniteSet(Checks)
  <1> DEFINE A == ((({} \cup {"SCHEMA"}) \cup {"CONTEXT"}) \cup {"ORDER"}) \cup {"SECRETS"}
             B == (((A \cup {"SESSION"}) \cup {"EVENT"}) \cup {"DELIVERY"}) \cup {"ACK"}
             C == (((B \cup {"GAP"}) \cup {"RECEIPT_HASH"}) \cup {"RECEIPT_CHAIN"})
                    \cup {"RECEIPT_LINK"}
  <1>1. IsFiniteSet(A)
    BY FS_EmptySet, FS_AddElement
  <1>2. IsFiniteSet(B)
    <2> HIDE DEF A
    <2> QED BY <1>1, FS_AddElement
  <1>3. IsFiniteSet(C)
    <2> HIDE DEF B
    <2> QED BY <1>2, FS_AddElement
  <1>4. C = Checks
    BY DEF Checks, PreflightChecks, SemanticChecks
  <1> QED BY <1>3, <1>4

(* What holds of no checks, and of some checks if it holds without the one  *)
(* that is taken next, holds of them all.                                  *)
LEMMA CheckInduction ==
  ASSUME NEW T, {} \in T,
         \A s \in SUBSET Checks : s # {} /\ s \ {Next1(s)} \in T => s \in T
  PROVE  Checks \in T
  <1> DEFINE N == {k \in Nat : \A s \in SUBSET Checks : Cardinality(s) <= k => s \in T}
  <1>1. \A s \in SUBSET Checks : IsFiniteSet(s) /\ Cardinality(s) \in Nat
    BY ChecksAreFinite, FS_Subset, FS_CardinalityType
  <1>2. 0 \in N
    BY <1>1, FS_EmptySet
  <1>3. ASSUME NEW k \in Nat, k \in N
        PROVE  k + 1 \in N
    <2> SUFFICES ASSUME NEW s \in SUBSET Checks, Cardinality(s) <= k + 1, s # {}
                 PROVE  s \in T
      OBVIOUS
    <2> DEFINE x == Next1(s)
    <2>1. x \in s /\ s \ {x} \in SUBSET Checks
      BY DEF Next1
    <2> HIDE DEF x
    <2>2. Cardinality(s \ {x}) = Cardinality(s) - 1 /\ Cardinality(s) \in Nat
      BY <1>1, <2>1, FS_RemoveElement
    <2>3. s \ {x} \in T
      BY <1>3, <2>1, <2>2
    <2> QED BY <2>3 DEF x
  <1> HIDE DEF N
  <1>4. Cardinality(Checks) \in N
    BY <1>1, <1>2, <1>3, SetInduction
  <1> QED BY <1>1, <1>4 DEF N

(* The sum of all counts is reached by adding them one check at a time.    *)
LEMMA TotalAddsUp ==
  ASSUME NEW m \in [Checks -> [Severities -> Nat]]
  PROVE  /\ \A d \in Checks : CountOf(m, d) \in Nat
         /\ \E g \in [SUBSET Checks -> Nat] : AddsUp(m, g)
         /\ \E g : AddsUp(m, g) /\ Total(m) = g[Checks]
  <1> DEFINE some == [s \in SUBSET Checks |-> Next1(s)]
             Step == [p \in Checks \X Nat |-> CountOf(m, p[1]) + p[2]]
  <1>1. ASSUME NEW d \in Checks
        PROVE  CountOf(m, d) \in Nat
    <2>1. m[d] \in [Severities -> Nat]
      OBVIOUS
    <2>2. m[d]["error"] \in Nat /\ m[d]["incomplete"] \in Nat
      BY <2>1 DEF Severities
    <2> QED BY <2>2 DEF CountOf
  <1>2. \A s \in SUBSET Checks : s # {} => some[s] \in s /\ some[s] = Next1(s)
    BY DEF Next1
  <1>3. Step \in [Checks \X Nat -> Nat]
    BY <1>1
  <1>4. ASSUME NEW s \in SUBSET Checks, NEW g \in [SUBSET Checks -> Nat], s # {}
        PROVE  Step[<<some[s], g[s \ {some[s]}]>>] = CountOf(m, some[s]) + g[s \ {some[s]}]
    BY <1>2, <1>4
  <1> HIDE DEF some, Step
  <1>5. PICK g \in [SUBSET Checks -> Nat] : Iterates(g, Checks, 0, some, Step)
    BY <1>2, <1>3, ChecksAreFinite, IterationExists
  <1>6. ASSUME NEW s \in SUBSET Checks
        PROVE  g[s] = IF s = {} THEN 0 ELSE CountOf(m, Next1(s)) + g[s \ {Next1(s)}]
    BY <1>2, <1>4, <1>5 DEF Iterates
  <1>7. AddsUp(m, g)
    BY <1>6 DEF AddsUp
  <1>8. AddsUp(m, CHOOSE h : AddsUp(m, h))
    BY <1>7
  <1>9. Total(m) = (CHOOSE h : AddsUp(m, h))[Checks]
    BY DEF Total, AddsUp, CountOf, Next1, MapThenSumSet, MapThenFoldSet
  <1> QED BY <1>1, <1>7, <1>8, <1>9

(* Counting one finding more makes one more in all.                        *)
LEMMA OneMoreCounted ==
  ASSUME NEW m \in [Checks -> [Severities -> Nat]],
         NEW c \in Checks, NEW v \in Severities,
         NEW n, n = [m EXCEPT ![c][v] = @ + 1]
  PROVE  Total(m) \in Nat /\ Total(n) = Total(m) + 1
  <1>1. n \in [Checks -> [Severities -> Nat]]
    BY CountOne
  <1>2. \A d \in Checks : CountOf(n, d) = IF d = c THEN CountOf(m, d) + 1 ELSE CountOf(m, d)
    <2>1. \A d \in Checks : n[d] = IF d = c THEN [m[c] EXCEPT ![v] = @ + 1] ELSE m[d]
      OBVIOUS
    <2>2. m[c] \in [Severities -> Nat]
      OBVIOUS
    <2> QED BY <2>1, <2>2 DEF Severities, CountOf
  <1>3. PICK g : AddsUp(m, g) /\ Total(m) = g[Checks]
    BY TotalAddsUp
  <1>4. PICK h : AddsUp(n, h) /\ Total(n) = h[Checks]
    BY <1>1, TotalAddsUp
  <1> DEFINE More(s) == /\ g[s] \in Nat
                        /\ h[s] = IF c \in s THEN g[s] + 1 ELSE g[s]
             T == {s \in SUBSET Checks : More(s)}
  <1>5. {} \in T
    <2>1. g[{}] = 0 /\ h[{}] = 0
      BY <1>3, <1>4 DEF AddsUp
    <2> QED BY <2>1
  <1>6. ASSUME NEW s \in SUBSET Checks, s # {}, s \ {Next1(s)} \in T
        PROVE  s \in T
    <2> DEFINE x == Next1(s)
               t == s \ {x}
    <2>1. x \in s /\ x \in Checks /\ (c \in s <=> c = x \/ c \in t) /\ x \notin t
      BY <1>6 DEF Next1
    <2>2. g[s] = CountOf(m, x) + g[t] /\ h[s] = CountOf(n, x) + h[t]
      BY <1>3, <1>4, <1>6 DEF AddsUp
    <2>3. CountOf(m, x) \in Nat
      BY <2>1, TotalAddsUp
    <2>4. CountOf(n, x) = IF x = c THEN CountOf(m, x) + 1 ELSE CountOf(m, x)
      BY <1>2, <2>1
    <2>5. More(t)
      BY <1>6
    <2> HIDE DEF x, t
    <2>6. More(s)
      BY <2>1, <2>2, <2>3, <2>4, <2>5
    <2> QED BY <2>6
  <1> HIDE DEF T
  <1>7. Checks \in T
    BY <1>5, <1>6, CheckInduction
  <1>8. More(Checks)
    BY <1>7 DEF T
  <1> QED BY <1>3, <1>4, <1>8

(* A new report counts nothing.                                            *)
LEMMA NothingCounted ==
  ASSUME NEW m, m = [c \in Checks |-> [s \in Severities |-> 0]]
  PROVE  Total(m) = 0
  <1>1. m \in [Checks -> [Severities -> Nat]] /\ \A d \in Checks : CountOf(m, d) = 0
    BY DEF CountOf, Severities
  <1>2. PICK g : AddsUp(m, g) /\ Total(m) = g[Checks]
    BY <1>1, TotalAddsUp
  <1> DEFINE T == {s \in SUBSET Checks : g[s] = 0}
  <1>3. {} \in T
    BY <1>2 DEF AddsUp
  <1>4. ASSUME NEW s \in SUBSET Checks, s # {}, s \ {Next1(s)} \in T
        PROVE  s \in T
    <2>1. g[s] = CountOf(m, Next1(s)) + g[s \ {Next1(s)}] /\ g[s \ {Next1(s)}] = 0
      BY <1>2, <1>4 DEF AddsUp
    <2>2. Next1(s) \in Checks
      BY <1>4 DEF Next1
    <2> QED BY <1>1, <2>1, <2>2
  <1> HIDE DEF T
  <1>5. Checks \in T
    BY <1>3, <1>4, CheckInduction
  <1> QED BY <1>2, <1>5 DEF T

-------------------------------------------------------------------------------
(* The parts of the invariant go together, and they are about the value of *)
(* the report, so that they can be said of each report of a fold: that an   *)
(* error stays shown rests on the bound of the list, and on has_errors      *)
(* following the findings.                                                 *)
Reports ==
  {r \in [has_errors : BOOLEAN, incomplete : BOOLEAN,
          summaries : [Checks -> [Severities -> Nat]],
          diagnostics : Seq(Findings), omitted : Nat] :
     Len(r.diagnostics) <= MaxDiagnostics}

Explained(r) ==
  /\ r.has_errors <=> \E c \in Checks : r.summaries[c]["error"] > 0
  /\ \A i \in 1..Len(r.diagnostics) :
       LET f == r.diagnostics[i]
       IN  r.summaries[f.check][f.severity] > 0

Sound(r) ==
  /\ r \in Reports
  /\ r.has_errors <=> ErrorShown(r.diagnostics)
  /\ Explained(r)
  /\ Len(r.diagnostics) + r.omitted = Total(r.summaries)

(* Sound says of any report what the invariants say of the validator's.    *)
LEMMA SoundReport ==
  Sound(report) <=> ReportTypeOK /\ ReportIsSound
  BY DEF Sound, Reports, Explained, ReportTypeOK, ReportIsSound, ErrorsStayVisible,
         SummariesExplainTheVerdict, OmissionsAreCounted, Counted, Total

(* The report starts sound.                                                *)
LEMMA NewReportSound ==
  ASSUME NEW partial \in BOOLEAN
  PROVE  Sound(NewReport(partial))
  <1> DEFINE r == NewReport(partial)
  <1>1. /\ r.has_errors = FALSE /\ r.incomplete = partial
        /\ r.summaries = [c \in Checks |-> [s \in Severities |-> 0]]
        /\ r.diagnostics = <<>> /\ r.omitted = 0
    BY DEF NewReport
  <1>2. r \in Reports
    BY MaxDiagnosticsAssumption DEF Reports, NewReport
  <1>3. ~ErrorShown(r.diagnostics)
    BY <1>1 DEF ErrorShown
  <1>4. Explained(r)
    BY <1>1 DEF Explained, Severities
  <1>5. Total(r.summaries) = 0
    BY <1>1, NothingCounted
  <1> QED
    BY <1>1, <1>2, <1>3, <1>4, <1>5 DEF Sound

(* One finding more leaves a report sound.                                 *)
LEMMA PushSound ==
  ASSUME NEW r, Sound(r), NEW f \in Findings
  PROVE  Sound(Push(r, f))
  <1> DEFINE p == Push(r, f)
  <1>n. PICK n : n = [r.summaries EXCEPT ![f.check][f.severity] = @ + 1]
    OBVIOUS
  <1>0. /\ r.has_errors \in BOOLEAN /\ r.incomplete \in BOOLEAN
        /\ r.summaries \in [Checks -> [Severities -> Nat]]
        /\ r.diagnostics \in Seq(Findings) /\ r.omitted \in Nat
        /\ Len(r.diagnostics) <= MaxDiagnostics
    BY DEF Sound, Reports
  <1>f. f.check \in Checks /\ f.severity \in Severities
    BY DEF Findings
  <1> DEFINE m == r.summaries
             own == f.check
             sort == f.severity
  <1>c. m \in [Checks -> [Severities -> Nat]] /\ own \in Checks /\ sort \in Severities
    BY <1>0, <1>f
  <1>d. n = [m EXCEPT ![own][sort] = @ + 1]
    BY <1>n
  <1> HIDE DEF m, own, sort
  <1>1. p = [has_errors |-> (r.has_errors \/ f.severity = "error"),
             incomplete |-> (r.incomplete \/ f.severity = "incomplete"),
             summaries |-> n,
             diagnostics |-> Keep(r.diagnostics, f),
             omitted |-> IF Len(r.diagnostics) < MaxDiagnostics
                           THEN r.omitted ELSE r.omitted + 1]
    BY <1>n DEF Push
  <1>2. /\ n \in [Checks -> [Severities -> Nat]]
        /\ n[own][sort] > 0
        /\ \A d \in Checks, w \in Severities : m[d][w] > 0 => n[d][w] > 0
        /\ \A d \in Checks, w \in Severities : w # sort => n[d][w] = m[d][w]
    BY <1>c, <1>d, CountOne
  <1>3. Total(m) \in Nat /\ Total(n) = Total(m) + 1
    BY <1>c, <1>d, OneMoreCounted
  <1> USE DEF m, own, sort
  <1> HIDE DEF p
  <1>4. p \in Reports
    <2>1. /\ Keep(r.diagnostics, f) \in Seq(Findings)
          /\ Len(Keep(r.diagnostics, f)) <= MaxDiagnostics
      BY <1>0, KeepIsBounded
    <2>2. (IF Len(r.diagnostics) < MaxDiagnostics
             THEN r.omitted ELSE r.omitted + 1) \in Nat
      BY <1>0
    <2>3. /\ (r.has_errors \/ f.severity = "error") \in BOOLEAN
          /\ (r.incomplete \/ f.severity = "incomplete") \in BOOLEAN
      OBVIOUS
    <2> QED
      BY <1>1, <1>2, <2>1, <2>2, <2>3 DEF Reports
  <1>5. p.has_errors <=> ErrorShown(p.diagnostics)
    <2>1. ErrorShown(Keep(r.diagnostics, f)) <=> ErrorShown(r.diagnostics) \/ f.severity = "error"
      BY <1>0, KeepIsBounded
    <2>2. /\ p.has_errors = (r.has_errors \/ f.severity = "error")
          /\ p.diagnostics = Keep(r.diagnostics, f)
      BY <1>1
    <2> QED BY <2>1, <2>2 DEF Sound
  <1>6. Explained(p)
    <2>1. p.has_errors <=> \E c \in Checks : n[c]["error"] > 0
      <3>1. CASE f.severity = "error"
        BY <3>1, <1>1, <1>2, <1>f
      <3>2. CASE f.severity # "error"
        <4>1. \A c \in Checks : n[c]["error"] = r.summaries[c]["error"]
          BY <3>2, <1>2, <1>f DEF Severities
        <4>2. p.has_errors <=> r.has_errors
          BY <3>2, <1>0, <1>1
        <4>3. r.has_errors <=> \E c \in Checks : r.summaries[c]["error"] > 0
          BY DEF Sound, Explained
        <4> QED
          BY <4>1, <4>2, <4>3
      <3> QED
        BY <3>1, <3>2
    <2>2. \A g \in Findings : r.summaries[g.check][g.severity] > 0
                                => n[g.check][g.severity] > 0
      BY <1>2 DEF Findings
    <2>3. \A i \in 1..Len(r.diagnostics) :
             /\ r.diagnostics[i] \in Findings
             /\ r.summaries[r.diagnostics[i].check][r.diagnostics[i].severity] > 0
      BY <1>0 DEF Sound, Explained
    <2>4. ASSUME NEW i \in 1..Len(p.diagnostics)
          PROVE  n[p.diagnostics[i].check][p.diagnostics[i].severity] > 0
      <3>1. \/ p.diagnostics[i] = f
            \/ /\ i \in 1..Len(r.diagnostics)
               /\ p.diagnostics[i] = r.diagnostics[i]
        <4>1. \A j \in 1..Len(Keep(r.diagnostics, f)) :
                 \/ Keep(r.diagnostics, f)[j] = f
                 \/ /\ j \in 1..Len(r.diagnostics)
                    /\ Keep(r.diagnostics, f)[j] = r.diagnostics[j]
          BY <1>0, KeepIsBounded
        <4>2. p.diagnostics = Keep(r.diagnostics, f)
          BY <1>1
        <4> QED
          BY <4>1, <4>2
      <3>2. CASE p.diagnostics[i] = f
        BY <3>2, <1>2
      <3>3. CASE /\ i \in 1..Len(r.diagnostics)
                 /\ p.diagnostics[i] = r.diagnostics[i]
        BY <3>3, <2>2, <2>3
      <3> QED
        BY <3>1, <3>2, <3>3
    <2>5. p.summaries = n
      BY <1>1
    <2> QED
      BY <2>1, <2>4, <2>5 DEF Explained
  <1>7. Len(p.diagnostics) + p.omitted = Total(p.summaries)
    <2>1. /\ p.diagnostics = Keep(r.diagnostics, f) /\ p.summaries = n
          /\ p.omitted = IF Len(r.diagnostics) < MaxDiagnostics
                           THEN r.omitted ELSE r.omitted + 1
      BY <1>1
    <2>2. Len(Keep(r.diagnostics, f)) = IF Len(r.diagnostics) < MaxDiagnostics
                                          THEN Len(r.diagnostics) + 1 ELSE Len(r.diagnostics)
      <3>1. r.diagnostics \in Seq(Findings)
        BY <1>0
      <3> QED BY <3>1 DEF Keep
    <2>3. Len(r.diagnostics) + r.omitted = Total(r.summaries)
      BY DEF Sound
    <2>4. Len(r.diagnostics) \in Nat /\ r.omitted \in Nat
      BY <1>0
    <2> QED
      BY <1>3, <2>1, <2>2, <2>3, <2>4
  <1> QED
    BY <1>4, <1>5, <1>6, <1>7 DEF Sound, p

-------------------------------------------------------------------------------
(* The findings of one record, one at a time.                              *)

SoundReports == {r \in Reports : Sound(r)}
Pushes(g, rep, fs) ==
  g = [s \in SUBSET DOMAIN fs |->
         IF s = {} THEN rep ELSE Push(g[s \ {Max(s)}], fs[Max(s)])]

(* The greatest of the first numbers, and of a set of them.                *)
LEMMA GreatestOfMany ==
  ASSUME NEW n \in Nat
  PROVE  /\ \A s \in SUBSET (1..n) : s # {} => Max(s) \in s /\ \A y \in s : Max(s) >= y
         /\ \A i \in 1..n : Max(1..i) = i /\ (1..i) \ {i} = 1..(i - 1)
  <1>1. ASSUME NEW s \in SUBSET (1..n), s # {}
        PROVE  Max(s) \in s /\ \A y \in s : Max(s) >= y
    <2>1. s \in SUBSET (0..n)
      OBVIOUS
    <2>2. PICK x \in s : \A y \in s : x >= y
      BY <1>1, <2>1, GreatestNumber
    <2> QED BY <2>2 DEF Max
  <1>2. ASSUME NEW i \in 1..n
        PROVE  Max(1..i) = i /\ (1..i) \ {i} = 1..(i - 1)
    <2>1. 1..i \in SUBSET (1..n) /\ 1..i # {} /\ i \in 1..i
      OBVIOUS
    <2>2. Max(1..i) \in 1..i /\ Max(1..i) >= i
      BY <1>1, <2>1
    <2> QED BY <2>2
  <1> QED BY <1>1, <1>2

(* The fold of findings into a report passes through a sound report after
   each of them. *)
LEMMA PushesExist ==
  ASSUME NEW rep, Sound(rep), NEW fs \in Seq(Findings)
  PROVE  \E g : Pushes(g, rep, fs) /\ FoldLeft(Push, rep, fs) = g[DOMAIN fs]
  <1> DEFINE S == DOMAIN fs
             last == [s \in SUBSET S |-> Max(s)]
             Step == [p \in S \X SoundReports |-> Push(p[2], fs[p[1]])]
  <1>1. /\ S = 1..Len(fs) /\ Len(fs) \in Nat /\ IsFiniteSet(S)
        /\ \A i \in S : fs[i] \in Findings
    BY FS_Interval
  <1>2. \A s \in SUBSET S : s # {} => last[s] \in s /\ last[s] = Max(s)
    BY <1>1, GreatestOfMany
  <1>3. Step \in [S \X SoundReports -> SoundReports]
    <2>1. ASSUME NEW i \in S, NEW r \in SoundReports
          PROVE  Push(r, fs[i]) \in SoundReports
      <3>1. Sound(Push(r, fs[i]))
        BY <1>1, PushSound DEF SoundReports
      <3> QED BY <3>1 DEF SoundReports, Sound
    <2> QED BY <2>1
  <1>4. ASSUME NEW s \in SUBSET S, NEW g \in [SUBSET S -> SoundReports], s # {}
        PROVE  Step[<<last[s], g[s \ {last[s]}]>>] = Push(g[s \ {last[s]}], fs[last[s]])
    <2>1. last[s] \in S /\ s \ {last[s]} \in SUBSET S
      BY <1>2, <1>4
    <2>2. g[s \ {last[s]}] \in SoundReports
      BY <2>1
    <2> QED BY <2>1, <2>2
  <1>5. rep \in SoundReports
    BY DEF SoundReports, Sound
  <1> HIDE DEF last, Step, S
  <1>6. PICK g \in [SUBSET S -> SoundReports] : Iterates(g, S, rep, last, Step)
    BY <1>1, <1>2, <1>3, <1>5, IterationExists
  <1>7. ASSUME NEW s \in SUBSET S
        PROVE  g[s] = IF s = {} THEN rep ELSE Push(g[s \ {Max(s)}], fs[Max(s)])
    BY <1>2, <1>4, <1>6 DEF Iterates
  <1>8. Pushes(g, rep, fs)
    BY <1>7 DEF Pushes, S
  <1>9. Pushes(CHOOSE h : Pushes(h, rep, fs), rep, fs)
    BY <1>8
  <1>10. FoldLeft(Push, rep, fs) = (CHOOSE h : Pushes(h, rep, fs))[DOMAIN fs]
    BY DEF FoldLeft, Pushes, MapThenFoldSet
  <1> QED BY <1>9, <1>10

(* All the findings of a record leave a report sound; it has the errors,    *)
(* and the incomplete evidence, that it had or that they bring.            *)
Brings(rep, fs, r, n) ==
  /\ Sound(r)
  /\ r.has_errors <=> rep.has_errors \/ \E i \in 1..n : fs[i].severity = "error"
  /\ r.incomplete <=> rep.incomplete \/ \E i \in 1..n : fs[i].severity = "incomplete"
  /\ \A c \in Checks : \A v \in Severities :
       r.summaries[c][v] > 0 <=>
         \/ rep.summaries[c][v] > 0
         \/ \E i \in 1..n : fs[i].check = c /\ fs[i].severity = v

(* What one finding brings: its severity's flag and its check's count.     *)
LEMMA PushBrings ==
  ASSUME NEW r, Sound(r), NEW f \in Findings
  PROVE  /\ Push(r, f).has_errors <=> r.has_errors \/ f.severity = "error"
         /\ Push(r, f).incomplete <=> r.incomplete \/ f.severity = "incomplete"
         /\ \A c \in Checks : \A v \in Severities :
              Push(r, f).summaries[c][v] > 0 <=>
                r.summaries[c][v] > 0 \/ (f.check = c /\ f.severity = v)
  <1>0. /\ r.summaries \in [Checks -> [Severities -> Nat]]
        /\ f.check \in Checks /\ f.severity \in Severities
    BY DEF Sound, Reports, Findings
  <1> DEFINE m == r.summaries
             d == f.check
             w == f.severity
             n == Push(r, f).summaries
  <1>1. n = [m EXCEPT ![d][w] = @ + 1]
    BY DEF Push
  <1> HIDE DEF m, d, w, n
  <1>2. \A c \in Checks : \A v \in Severities :
          n[c][v] = IF c = d /\ v = w THEN m[c][v] + 1 ELSE m[c][v]
    BY <1>0, <1>1 DEF m, d, w
  <1>3. \A c \in Checks : \A v \in Severities : m[c][v] \in Nat
    BY <1>0 DEF m
  <1>4. \A c \in Checks : \A v \in Severities :
          n[c][v] > 0 <=> m[c][v] > 0 \/ (d = c /\ w = v)
    BY <1>2, <1>3
  <1>5. /\ Push(r, f).has_errors <=> r.has_errors \/ f.severity = "error"
        /\ Push(r, f).incomplete <=> r.incomplete \/ f.severity = "incomplete"
    BY DEF Push
  <1> QED BY <1>4, <1>5 DEF m, d, w, n

(* What many findings bring: the flags and the counts of all of them,
   however many there are. *)
LEMMA FoldBrings ==
  ASSUME NEW rep, Sound(rep), NEW fs \in Seq(Findings)
  PROVE  Brings(rep, fs, FoldLeft(Push, rep, fs), Len(fs))
  <1>1. PICK g : Pushes(g, rep, fs) /\ FoldLeft(Push, rep, fs) = g[DOMAIN fs]
    BY PushesExist
  <1>2. /\ DOMAIN fs = 1..Len(fs) /\ Len(fs) \in Nat
        /\ \A i \in 1..Len(fs) : fs[i] \in Findings
    OBVIOUS
  <1> DEFINE N == {k \in Nat : k <= Len(fs) => Brings(rep, fs, g[1..k], k)}
  <1>3. 0 \in N
    <2>1. 1..0 = {}
      OBVIOUS
    <2>2. g[1..0] = rep
      BY <1>1, <2>1 DEF Pushes
    <2>3. Brings(rep, fs, rep, 0)
      BY <2>1 DEF Brings
    <2> QED BY <2>2, <2>3
  <1>4. ASSUME NEW k \in Nat, k \in N
        PROVE  k + 1 \in N
    <2> SUFFICES ASSUME k + 1 <= Len(fs)
                 PROVE  Brings(rep, fs, g[1..(k + 1)], k + 1)
      OBVIOUS
    <2>1. k + 1 \in 1..Len(fs) /\ k <= Len(fs) /\ (k + 1) - 1 = k
      BY <1>2
    <2>2. Max(1..(k + 1)) = k + 1 /\ (1..(k + 1)) \ {k + 1} = 1..k
      BY <1>2, <2>1, GreatestOfMany
    <2>3. 1..(k + 1) \in SUBSET DOMAIN fs /\ 1..(k + 1) # {}
      <3>1. k + 1 \in 1..(k + 1) /\ \A i \in 1..(k + 1) : i \in 1..Len(fs)
        BY <1>2, <2>1
      <3> QED BY <1>2, <3>1
    <2>4. g[1..(k + 1)] = Push(g[1..k], fs[k + 1])
      BY <1>1, <2>2, <2>3 DEF Pushes
    <2> DEFINE r == g[1..k]
               f == fs[k + 1]
    <2>5. Brings(rep, fs, r, k) /\ f \in Findings
      BY <1>2, <1>4, <2>1
    <2>6. \A i : i \in 1..(k + 1) <=> i \in 1..k \/ i = k + 1
      OBVIOUS
    <2> HIDE DEF r, f, N
    <2>7. Sound(Push(r, f))
      BY <2>5, PushSound DEF Brings
    <2>8. /\ Push(r, f).has_errors <=> r.has_errors \/ f.severity = "error"
          /\ Push(r, f).incomplete <=> r.incomplete \/ f.severity = "incomplete"
          /\ \A c \in Checks : \A v \in Severities :
               Push(r, f).summaries[c][v] > 0 <=>
                 r.summaries[c][v] > 0 \/ (f.check = c /\ f.severity = v)
      BY <2>5, PushBrings DEF Brings
    <2>9. Brings(rep, fs, Push(r, f), k + 1)
      <3>1. f = fs[k + 1]
        BY DEF f
      <3>2. /\ r.has_errors <=> rep.has_errors \/ \E i \in 1..k : fs[i].severity = "error"
            /\ r.incomplete
                 <=> rep.incomplete \/ \E i \in 1..k : fs[i].severity = "incomplete"
        BY <2>5 DEF Brings
      <3>3. /\ Push(r, f).has_errors
                 <=> rep.has_errors \/ \E i \in 1..(k + 1) : fs[i].severity = "error"
            /\ Push(r, f).incomplete
                 <=> rep.incomplete \/ \E i \in 1..(k + 1) : fs[i].severity = "incomplete"
        BY <2>6, <2>8, <3>1, <3>2
      <3>4. ASSUME NEW c \in Checks, NEW v \in Severities
            PROVE  Push(r, f).summaries[c][v] > 0 <=>
                     \/ rep.summaries[c][v] > 0
                     \/ \E i \in 1..(k + 1) : fs[i].check = c /\ fs[i].severity = v
        <4>1. r.summaries[c][v] > 0 <=>
                \/ rep.summaries[c][v] > 0
                \/ \E i \in 1..k : fs[i].check = c /\ fs[i].severity = v
          BY <2>5 DEF Brings
        <4>2. Push(r, f).summaries[c][v] > 0
                <=> r.summaries[c][v] > 0 \/ (fs[k + 1].check = c /\ fs[k + 1].severity = v)
          BY <2>8, <3>1
        <4> QED BY <2>6, <4>1, <4>2
      <3> QED BY <2>7, <3>3, <3>4 DEF Brings
    <2> QED BY <2>4, <2>9 DEF r, f
  <1> HIDE DEF N
  <1>5. Len(fs) \in N
    BY <1>2, <1>3, <1>4, SetInduction
  <1> QED BY <1>1, <1>2, <1>5 DEF N

-------------------------------------------------------------------------------
(* The report stays sound, whatever is found.                              *)
LEMMA ReportInvariant == ReportSpec => [](ReportTypeOK /\ ReportIsSound)
  <1>1. ReportInit => Sound(report)
    BY NewReportSound DEF ReportInit
  <1>2. Sound(report) /\ [ReportNext]_report => Sound(report)'
    <2>1. ASSUME Sound(report), NEW f \in Findings, AddFinding(f)
          PROVE  Sound(report)'
      <3>1. Sound(Push(report, f))
        BY <2>1, PushSound
      <3> QED BY <2>1, <3>1 DEF AddFinding
    <2> QED
      BY <2>1 DEF ReportNext
  <1> QED
    BY <1>1, <1>2, SoundReport, PTL DEF ReportSpec

(* The report keeps its types and its bound, whatever is found.            *)
THEOREM ReportTypeCorrect == ReportSpec => []ReportTypeOK
  BY ReportInvariant, PTL

(* For every bound on the diagnostics and every sequence of findings, an
   error verdict shows an error among the diagnostics, and nothing else does. *)
THEOREM ErrorsVisible == ReportSpec => []ErrorsStayVisible
  BY ReportInvariant, PTL DEF ReportIsSound

(* The verdict is the one the check summaries explain.                     *)
THEOREM SummariesExplain == ReportSpec => []SummariesExplainTheVerdict
  BY ReportInvariant, PTL DEF ReportIsSound

(* Shown and omitted diagnostics account for every finding, however many
   there are.                                                              *)
THEOREM OmissionsCounted == ReportSpec => []OmissionsAreCounted
  BY ReportInvariant, PTL DEF ReportIsSound

-------------------------------------------------------------------------------
(* The event reducer: what a record does to the tables.                    *)

EventsInv == EventsTypeOK /\ StreamsFollowDeliveries

(* What StreamsFollowDeliveries says of one stream.                        *)
Follows(k) ==
  LET p == streams[k]
      d == deliveries[p.delivery]
  IN  /\ p.delivery \in DOMAIN deliveries
      /\ <<d.subscription, d.stream>> = k /\ d.sequence = p.sequence
      /\ p.terminal <=> d.terminal_ack # None
      /\ p.capture_gap_epoch <= capture_gap_epoch
      /\ p.protocol_gap_epoch <= protocol_gap_epochs[k[1]]

DeliveryRecords ==
  [occurrence : Occurrences, hash : Hashes, subscription : Subscriptions,
   stream : Streams, sequence : Nat, cursor : Cursors,
   last_attempt : Nat, terminal_ack : Answers \cup {None}]

ProgressRecords ==
  [sequence : Nat, delivery : Deliveries, terminal : BOOLEAN,
   capture_gap_epoch : Nat, protocol_gap_epoch : Nat]

(* What a step does to one known delivery, and to both tables.             *)
DeliveryKeeps(d) ==
  /\ d \in DOMAIN deliveries'
  /\ Identity(deliveries'[d]) = Identity(deliveries[d])
  /\ deliveries[d].terminal_ack # None => deliveries'[d] = deliveries[d]

TablesStep ==
  /\ \A d \in DOMAIN deliveries : DeliveryKeeps(d)
  /\ \A k \in DOMAIN streams : k \in DOMAIN streams' /\ StreamAdvances(k)
  /\ DOMAIN deliveries' \subseteq Deliveries
  /\ \A d \in DOMAIN deliveries' : deliveries'[d] \in DeliveryRecords
  /\ DOMAIN streams' \subseteq StreamKeys
  /\ \A k \in DOMAIN streams' : streams'[k] \in ProgressRecords
  /\ StreamsFollowDeliveries'

-----------------------------------------------------------------------------
(* Records of one kind are of that kind's type.                            *)
LEMMA RecordKinds ==
  ASSUME NEW r \in Records
  PROVE  /\ r.kind = "event_delivery" => r \in Events
         /\ r.kind = "event_ack" => r \in Acks
         /\ r.kind = "event_gap" => r \in EventGaps
  BY RecordsAssumption DEF Transitions, Events, Acks, EventGaps, CaptureGaps

(* What a delivery that takes a position may have in front of it.          *)
LEMMA PositionFacts ==
  ASSUME EventsTypeOK, NEW e \in Events, TakesPosition(e),
         Key(e) \in DOMAIN streams
  PROVE  /\ e.sequence > streams[Key(e)].sequence
         /\ \/ streams[Key(e)].terminal
            \/ capture_gap_epoch > streams[Key(e)].capture_gap_epoch
  <1>1. e.sequence \in Nat /\ streams[Key(e)].sequence \in Nat
    BY DEF EventsTypeOK, Events
  <1>2. e.sequence > streams[Key(e)].sequence
    BY <1>1 DEF TakesPosition, Behind
  <1>3. CASE ~streams[Key(e)].terminal
    <2>1. Unacknowledged(e)
      BY <1>3 DEF Unacknowledged
    <2>2. Covered(e)
      BY <2>1 DEF TakesPosition, Missing
    <2>3. CaptureGapSince(e)
      BY <2>1, <2>2 DEF Covered
    <2> QED
      BY <2>3, <1>2 DEF CaptureGapSince
  <1> QED
    BY <1>2, <1>3

-----------------------------------------------------------------------------
(* A delivery record: the tables it changes                                *)

(* A first transmission that takes its position moves its stream forward.  *)
LEMMA FirstTransmissionStep ==
  ASSUME EventsInv, NEW e \in Events, FirstTransmission(e),
         UNCHANGED <<capture_gap_epoch, protocol_gap_epochs>>
  PROVE  TablesStep
  <1> DEFINE id == e.delivery
             key == Key(e)
             new == Delivery(e)
             pos == Progress(e)
  <1>t. /\ id \in Deliveries /\ key \in StreamKeys
        /\ new \in DeliveryRecords /\ pos \in ProgressRecords
    BY DEF EventsInv, EventsTypeOK, Events, Key, StreamKeys, Delivery, Progress,
           DeliveryRecords, ProgressRecords
  <1>n. /\ new.terminal_ack = None /\ new.sequence = e.sequence
        /\ <<new.subscription, new.stream>> = key
        /\ pos.delivery = id /\ pos.terminal = FALSE /\ pos.sequence = e.sequence
        /\ pos.capture_gap_epoch = capture_gap_epoch
        /\ pos.protocol_gap_epoch = protocol_gap_epochs[key[1]]
    BY DEF Delivery, Progress, Key
  <1>d. /\ id \notin DOMAIN deliveries
        /\ deliveries' = Put(deliveries, id, new)
        /\ \/ TakesPosition(e) /\ streams' = Put(streams, key, pos)
           \/ streams' = streams
    BY DEF FirstTransmission, Known
  <1>e. /\ capture_gap_epoch \in Nat /\ protocol_gap_epochs[key[1]] \in Nat
        /\ UNCHANGED <<capture_gap_epoch, protocol_gap_epochs>>
    BY DEF EventsInv, EventsTypeOK, Key, Events
  <1>o. /\ DOMAIN deliveries \subseteq Deliveries
        /\ \A d \in DOMAIN deliveries : deliveries[d] \in DeliveryRecords
        /\ DOMAIN streams \subseteq StreamKeys
        /\ \A k \in DOMAIN streams : streams[k] \in ProgressRecords
    BY DEF EventsInv, EventsTypeOK, DeliveryRecords, ProgressRecords
  <1> HIDE DEF id, key, new, pos
  <1>1. /\ DOMAIN deliveries' = DOMAIN deliveries \cup {id}
        /\ deliveries'[id] = new
        /\ \A d \in DOMAIN deliveries : deliveries'[d] = deliveries[d]
    BY <1>d, <1>t DEF Put
  <1>2. /\ DOMAIN deliveries' \subseteq Deliveries
        /\ \A d \in DOMAIN deliveries' : deliveries'[d] \in DeliveryRecords
    BY <1>1, <1>o, <1>t
  <1>k. \A d \in DOMAIN deliveries : DeliveryKeeps(d)
    BY <1>1 DEF DeliveryKeeps, Identity
  <1>3. CASE streams' = streams
    <2>1. StreamsFollowDeliveries'
      BY <1>1, <1>3 DEF EventsInv, StreamsFollowDeliveries
    <2>2. \A k \in DOMAIN streams : StreamAdvances(k)
      BY <1>3, Zenon DEF StreamAdvances
    <2>3. /\ \A d \in DOMAIN deliveries :
                d \in DOMAIN deliveries' /\ deliveries'[d] = deliveries[d]
          /\ \A k \in DOMAIN streams : k \in DOMAIN streams'
      BY <1>1, <1>3
    <2>4. /\ DOMAIN streams' \subseteq StreamKeys
          /\ \A k \in DOMAIN streams' : streams'[k] \in ProgressRecords
      BY <1>3, <1>o
    <2> QED
      BY <1>2, <1>k, <2>1, <2>2, <2>3, <2>4 DEF TablesStep
  <1>4. CASE TakesPosition(e) /\ streams' = Put(streams, key, pos)
    <2>1. /\ DOMAIN streams' = DOMAIN streams \cup {key}
          /\ streams'[key] = pos
          /\ \A k \in DOMAIN streams : k # key => streams'[k] = streams[k]
      BY <1>4 DEF Put
    <2>2. /\ DOMAIN streams' \subseteq StreamKeys
          /\ \A k \in DOMAIN streams' : streams'[k] \in ProgressRecords
      BY <2>1, <1>o, <1>t
    <2>3. ASSUME NEW k \in DOMAIN streams PROVE StreamAdvances(k)
      <3>1. CASE k = key
        <4>1. /\ e.sequence > streams[k].sequence
              /\ \/ streams[k].terminal
                 \/ capture_gap_epoch > streams[k].capture_gap_epoch
          BY <1>4, <3>1, PositionFacts DEF EventsInv, key
        <4> QED
          BY <4>1, <3>1, <2>1, <1>n DEF StreamAdvances
      <3>2. CASE k # key
        BY <3>2, <2>1 DEF StreamAdvances
      <3> QED
        BY <3>1, <3>2
    <2>5. ASSUME NEW k \in DOMAIN streams, k # key PROVE Follows(k)'
      <3> DEFINE p == streams[k]
      <3>1. /\ Follows(k)
            /\ streams'[k] = p
            /\ deliveries'[p.delivery] = deliveries[p.delivery]
            /\ p.delivery \in DOMAIN deliveries'
        BY <2>1, <2>5, <1>1 DEF EventsInv, StreamsFollowDeliveries, Follows
      <3> QED
        BY <3>1, <1>e DEF Follows
    <2>6. Follows(key)'
      BY <2>1, <1>1, <1>n, <1>e DEF Follows
    <2>7. StreamsFollowDeliveries'
      BY <2>1, <2>5, <2>6 DEF StreamsFollowDeliveries, Follows
    <2> QED
      BY <1>2, <1>k, <2>1, <2>2, <2>3, <2>7 DEF TablesStep
  <1> QED
    BY <1>3, <1>4, <1>d

(* A retransmission changes nothing but the attempt, of a delivery that is
   not yet terminally acknowledged.                                        *)
LEMMA RetransmissionStep ==
  ASSUME EventsInv, NEW e \in Events, Retransmission(e),
         UNCHANGED <<capture_gap_epoch, protocol_gap_epochs>>
  PROVE  TablesStep
  <1> DEFINE id == e.delivery
  <1>1. /\ id \in DOMAIN deliveries /\ deliveries[id].terminal_ack = None
        /\ e.attempt \in Nat /\ streams' = streams
        /\ deliveries' = [deliveries EXCEPT ![id].last_attempt = e.attempt]
    BY DEF Retransmission, Known, IsRetry, Events
  <1>o. /\ DOMAIN deliveries \subseteq Deliveries
        /\ \A d \in DOMAIN deliveries : deliveries[d] \in DeliveryRecords
        /\ DOMAIN streams \subseteq StreamKeys
        /\ \A k \in DOMAIN streams : streams[k] \in ProgressRecords
    BY DEF EventsInv, EventsTypeOK, DeliveryRecords, ProgressRecords
  <1> HIDE DEF id
  <1>2. /\ DOMAIN deliveries' = DOMAIN deliveries
        /\ deliveries'[id] = [deliveries[id] EXCEPT !.last_attempt = e.attempt]
        /\ \A d \in DOMAIN deliveries : d # id => deliveries'[d] = deliveries[d]
    BY <1>1, Zenon
  <1>3. /\ deliveries'[id] \in DeliveryRecords
        /\ Identity(deliveries'[id]) = Identity(deliveries[id])
        /\ deliveries'[id].terminal_ack = deliveries[id].terminal_ack
    BY <1>1, <1>2, <1>o DEF DeliveryRecords, Identity
  <1>4. \A d \in DOMAIN deliveries : DeliveryKeeps(d)
    BY <1>1, <1>2, <1>3 DEF DeliveryKeeps
  <1>5. /\ \A k \in DOMAIN streams : StreamAdvances(k)
        /\ \A k \in DOMAIN streams : k \in DOMAIN streams'
    BY <1>1, Zenon DEF StreamAdvances
  <1>6. ASSUME NEW k \in DOMAIN streams PROVE Follows(k)'
    <2> DEFINE d == streams[k].delivery
    <2>1. /\ Follows(k) /\ d \in DOMAIN deliveries' /\ streams'[k] = streams[k]
      BY <1>1, <1>2 DEF EventsInv, StreamsFollowDeliveries, Follows
    <2>2. /\ deliveries'[d].subscription = deliveries[d].subscription
          /\ deliveries'[d].stream = deliveries[d].stream
          /\ deliveries'[d].sequence = deliveries[d].sequence
          /\ deliveries'[d].terminal_ack = deliveries[d].terminal_ack
      BY <1>2, <1>3, <2>1 DEF Identity
    <2> QED
      BY <2>1, <2>2 DEF Follows
  <1>7. StreamsFollowDeliveries'
    BY <1>1, <1>6 DEF StreamsFollowDeliveries, Follows
  <1>8. /\ DOMAIN deliveries' \subseteq Deliveries
        /\ \A d \in DOMAIN deliveries' : deliveries'[d] \in DeliveryRecords
        /\ DOMAIN streams' \subseteq StreamKeys
        /\ \A k \in DOMAIN streams' : streams'[k] \in ProgressRecords
    BY <1>1, <1>2, <1>3, <1>o
  <1> QED
    BY <1>4, <1>5, <1>7, <1>8 DEF TablesStep

(* A first terminal acknowledgement reaches the stream that stands at the
   delivery and no other: every other stream stands at a delivery of its
   own.                                                                    *)
LEMMA TakeTerminalAckStep ==
  ASSUME EventsInv, NEW a \in Acks, TakeTerminalAck(a),
         UNCHANGED <<capture_gap_epoch, protocol_gap_epochs>>
  PROVE  TablesStep
  <1> DEFINE id == a.delivery
             key == <<deliveries[id].subscription, deliveries[id].stream>>
             answer == Answer(a)
  <1>1. /\ id \in DOMAIN deliveries /\ deliveries[id].terminal_ack = None
        /\ deliveries' = [deliveries EXCEPT ![id].terminal_ack = answer]
        /\ streams' = IF key \in DOMAIN streams /\ streams[key].delivery = id
                        THEN [streams EXCEPT ![key].terminal = TRUE] ELSE streams
    BY DEF TakeTerminalAck, FirstTerminal
  <1>a. answer \in Answers /\ answer # None
    BY EventsAssumption DEF Acks, Answer, Answers
  <1>o. /\ DOMAIN deliveries \subseteq Deliveries
        /\ \A d \in DOMAIN deliveries : deliveries[d] \in DeliveryRecords
        /\ DOMAIN streams \subseteq StreamKeys
        /\ \A k \in DOMAIN streams : streams[k] \in ProgressRecords
    BY DEF EventsInv, EventsTypeOK, DeliveryRecords, ProgressRecords
  <1>f. \A k \in DOMAIN streams : Follows(k)
    BY DEF EventsInv, StreamsFollowDeliveries, Follows
  <1>k. \A k \in DOMAIN streams : streams[k].delivery = id => k = key
    BY <1>f DEF Follows
  <1> HIDE DEF id, key, answer
  <1>2. /\ DOMAIN deliveries' = DOMAIN deliveries
        /\ deliveries'[id] = [deliveries[id] EXCEPT !.terminal_ack = answer]
        /\ \A d \in DOMAIN deliveries : d # id => deliveries'[d] = deliveries[d]
    BY <1>1, Zenon
  <1>3. /\ deliveries'[id] \in DeliveryRecords
        /\ Identity(deliveries'[id]) = Identity(deliveries[id])
        /\ deliveries'[id].terminal_ack = answer
    BY <1>1, <1>2, <1>o, <1>a DEF DeliveryRecords, Identity
  <1>4. \A d \in DOMAIN deliveries : DeliveryKeeps(d)
    BY <1>1, <1>2, <1>3 DEF DeliveryKeeps
  <1>5. /\ DOMAIN streams' = DOMAIN streams
        /\ \A k \in DOMAIN streams :
             IF streams[k].delivery = id
               THEN streams'[k] = [streams[k] EXCEPT !.terminal = TRUE]
               ELSE streams'[k] = streams[k]
    <2>1. CASE key \in DOMAIN streams /\ streams[key].delivery = id
      <3>1. streams' = [streams EXCEPT ![key].terminal = TRUE]
        BY <1>1, <2>1
      <3>2. /\ DOMAIN streams' = DOMAIN streams
            /\ streams'[key] = [streams[key] EXCEPT !.terminal = TRUE]
            /\ \A k \in DOMAIN streams : k # key => streams'[k] = streams[k]
        BY <2>1, <3>1, Zenon
      <3> QED
        BY <3>2, <2>1, <1>k
    <2>2. CASE ~(key \in DOMAIN streams /\ streams[key].delivery = id)
      BY <1>1, <2>2, <1>k
    <2> QED
      BY <2>1, <2>2
  <1>6. \A k \in DOMAIN streams :
          /\ k \in DOMAIN streams' /\ StreamAdvances(k)
          /\ streams'[k] \in ProgressRecords
    BY <1>5, <1>o DEF StreamAdvances, ProgressRecords
  <1>7. ASSUME NEW k \in DOMAIN streams PROVE Follows(k)'
    <2> DEFINE d == streams[k].delivery
    <2>1. /\ Follows(k) /\ d \in DOMAIN deliveries' /\ d \in DOMAIN deliveries
          /\ streams[k] \in ProgressRecords
      BY <1>f, <1>2, <1>o DEF Follows
    <2>2. /\ streams'[k].delivery = d
          /\ streams'[k].sequence = streams[k].sequence
          /\ streams'[k].capture_gap_epoch = streams[k].capture_gap_epoch
          /\ streams'[k].protocol_gap_epoch = streams[k].protocol_gap_epoch
          /\ d = id => streams'[k].terminal = TRUE
          /\ d # id => streams'[k] = streams[k]
      BY <1>5, <2>1 DEF ProgressRecords
    <2>3. /\ deliveries'[d].subscription = deliveries[d].subscription
          /\ deliveries'[d].stream = deliveries[d].stream
          /\ deliveries'[d].sequence = deliveries[d].sequence
          /\ d = id => deliveries'[d].terminal_ack = answer
          /\ d # id => deliveries'[d] = deliveries[d]
      BY <1>2, <1>3, <2>1 DEF Identity
    <2>4. CASE d = id
      BY <2>1, <2>2, <2>3, <2>4, <1>a DEF Follows
    <2>5. CASE d # id
      BY <2>1, <2>2, <2>3, <2>5 DEF Follows
    <2> QED
      BY <2>4, <2>5
  <1>8. StreamsFollowDeliveries'
    BY <1>5, <1>7 DEF StreamsFollowDeliveries, Follows
  <1>9. /\ DOMAIN deliveries' \subseteq Deliveries
        /\ \A d \in DOMAIN deliveries' : deliveries'[d] \in DeliveryRecords
        /\ DOMAIN streams' \subseteq StreamKeys
        /\ \A k \in DOMAIN streams' : streams'[k] \in ProgressRecords
    BY <1>2, <1>3, <1>5, <1>6, <1>o
  <1> QED
    BY <1>4, <1>6, <1>8, <1>9 DEF TablesStep

(* Where both tables stay, gaps may only make the epochs larger.           *)
LEMMA TablesStay ==
  ASSUME EventsInv, UNCHANGED <<deliveries, streams>>,
         capture_gap_epoch' \in Nat, capture_gap_epoch' >= capture_gap_epoch,
         \A s \in Subscriptions :
           /\ protocol_gap_epochs'[s] \in Nat
           /\ protocol_gap_epochs'[s] >= protocol_gap_epochs[s]
  PROVE  TablesStep
  <1>o. /\ DOMAIN deliveries \subseteq Deliveries
        /\ \A d \in DOMAIN deliveries : deliveries[d] \in DeliveryRecords
        /\ DOMAIN streams \subseteq StreamKeys
        /\ \A k \in DOMAIN streams : streams[k] \in ProgressRecords
        /\ \A k \in DOMAIN streams : Follows(k)
        /\ capture_gap_epoch \in Nat
        /\ \A s \in Subscriptions : protocol_gap_epochs[s] \in Nat
    BY DEF EventsInv, EventsTypeOK, DeliveryRecords, ProgressRecords,
           StreamsFollowDeliveries, Follows
  <1>1. \A d \in DOMAIN deliveries : DeliveryKeeps(d)
    BY DEF DeliveryKeeps
  <1>2. \A k \in DOMAIN streams : k \in DOMAIN streams' /\ StreamAdvances(k)
    BY Zenon DEF StreamAdvances
  <1>3. ASSUME NEW k \in DOMAIN streams PROVE Follows(k)'
    <2>1. k[1] \in Subscriptions
      BY <1>o DEF StreamKeys
    <2>2. /\ streams[k].capture_gap_epoch \in Nat
          /\ streams[k].protocol_gap_epoch \in Nat
      BY <1>o DEF ProgressRecords
    <2>3. /\ streams[k].capture_gap_epoch <= capture_gap_epoch'
          /\ streams[k].protocol_gap_epoch <= protocol_gap_epochs'[k[1]]
      BY <1>o, <2>1, <2>2 DEF Follows
    <2> QED
      BY <1>o, <2>3 DEF Follows
  <1>4. StreamsFollowDeliveries'
    BY <1>3 DEF StreamsFollowDeliveries, Follows
  <1> QED
    BY <1>o, <1>1, <1>2, <1>4 DEF TablesStep

-----------------------------------------------------------------------------
(* Every step of the validator                                             *)

OtherTypes ==
  /\ DOMAIN occurrence_hashes \subseteq Occurrences
  /\ \A o \in DOMAIN occurrence_hashes : occurrence_hashes[o] \in Hashes
  /\ capture_gap_epoch \in Nat /\ capture_gaps \in Nat
  /\ protocol_gap_epochs \in [Subscriptions -> Nat]
  /\ pending \in Seq(Deliveries)

(* check_event, branch by branch.                                          *)
LEMMA EventStep ==
  ASSUME EventsInv, NEW e \in Events, CheckEvent(e)
  PROVE  OtherTypes' /\ TablesStep
  <1>1. UNCHANGED <<capture_gap_epoch, protocol_gap_epochs, capture_gaps, pending>>
    BY DEF CheckEvent
  <1>2. TablesStep
    <2>1. CASE FirstTransmission(e)
      BY <2>1, <1>1, FirstTransmissionStep
    <2>2. CASE Retransmission(e)
      BY <2>2, <1>1, RetransmissionStep
    <2>3. CASE RefusedTransmission(e)
      <3>1. /\ UNCHANGED <<deliveries, streams>>
            /\ capture_gap_epoch \in Nat
            /\ protocol_gap_epochs \in [Subscriptions -> Nat]
        BY <2>3 DEF RefusedTransmission, EventsInv, EventsTypeOK
      <3> QED
        BY <3>1, <1>1, TablesStay
    <2> QED
      BY <2>1, <2>2, <2>3 DEF CheckEvent
  <1>3. /\ DOMAIN occurrence_hashes' \subseteq Occurrences
        /\ \A o \in DOMAIN occurrence_hashes' : occurrence_hashes'[o] \in Hashes
    <2>1. /\ e.occurrence \in Occurrences /\ e.hash \in Hashes
          /\ DOMAIN occurrence_hashes \subseteq Occurrences
          /\ \A o \in DOMAIN occurrence_hashes : occurrence_hashes[o] \in Hashes
      BY DEF Events, EventsInv, EventsTypeOK
    <2>2. \/ occurrence_hashes' = Put(occurrence_hashes, e.occurrence, e.hash)
          \/ occurrence_hashes' = occurrence_hashes
      BY DEF CheckEvent, RecordOccurrence
    <2> QED
      BY <2>1, <2>2 DEF Put
  <1> QED
    BY <1>1, <1>2, <1>3 DEF OtherTypes, EventsInv, EventsTypeOK

(* check_ack, branch by branch.                                            *)
LEMMA AckStep ==
  ASSUME EventsInv, NEW a \in Acks, CheckAck(a)
  PROVE  OtherTypes' /\ TablesStep
  <1>1. UNCHANGED <<occurrence_hashes, capture_gap_epoch, protocol_gap_epochs,
                    capture_gaps>>
    BY DEF CheckAck
  <1>2. TablesStep
    <2>1. CASE TakeTerminalAck(a)
      BY <2>1, <1>1, TakeTerminalAckStep
    <2>2. CASE AckBeforeDelivery(a) \/ RepeatOrRefuseAck(a)
      <3>1. /\ UNCHANGED <<deliveries, streams>>
            /\ capture_gap_epoch \in Nat
            /\ protocol_gap_epochs \in [Subscriptions -> Nat]
        BY <2>2 DEF AckBeforeDelivery, RepeatOrRefuseAck, EventsInv, EventsTypeOK
      <3> QED
        BY <3>1, <1>1, TablesStay
    <2> QED
      BY <2>1, <2>2 DEF CheckAck
  <1>3. pending' \in Seq(Deliveries)
    <2>1. a.delivery \in Deliveries /\ pending \in Seq(Deliveries)
      BY DEF Acks, EventsInv, EventsTypeOK
    <2>2. pending' = Append(pending, a.delivery) \/ pending' = pending
      BY DEF CheckAck, AckBeforeDelivery, TakeTerminalAck, RepeatOrRefuseAck
    <2> QED
      BY <2>1, <2>2
  <1> QED
    BY <1>1, <1>2, <1>3 DEF OtherTypes, EventsInv, EventsTypeOK

(* A protocol gap moves an epoch and no table.                             *)
LEMMA EventGapStep ==
  ASSUME EventsInv, NEW g \in EventGaps, CheckEventGap(g)
  PROVE  OtherTypes' /\ TablesStep
  <1>1. /\ UNCHANGED <<occurrence_hashes, deliveries, streams,
                       capture_gap_epoch, capture_gaps, pending>>
        /\ capture_gap_epoch \in Nat
    BY DEF CheckEventGap, EventsInv, EventsTypeOK
  <1>2. /\ protocol_gap_epochs' \in [Subscriptions -> Nat]
        /\ \A s \in Subscriptions :
             protocol_gap_epochs'[s] >= protocol_gap_epochs[s]
    <2>1. /\ g.subscription \in Subscriptions
          /\ protocol_gap_epochs \in [Subscriptions -> Nat]
      BY DEF EventGaps, EventsInv, EventsTypeOK
    <2>2. \/ protocol_gap_epochs' = protocol_gap_epochs
          \/ protocol_gap_epochs' =
               [protocol_gap_epochs EXCEPT ![g.subscription] = @ + 1]
      BY DEF CheckEventGap
    <2> QED
      BY <2>1, <2>2
  <1>3. TablesStep
    BY <1>1, <1>2, TablesStay
  <1> QED
    BY <1>1, <1>2, <1>3 DEF OtherTypes, EventsInv, EventsTypeOK

(* A capture gap moves the common epoch and no table.                      *)
LEMMA CaptureGapStep ==
  ASSUME EventsInv, NEW validated \in BOOLEAN, EventsCaptureGap(validated)
  PROVE  OtherTypes' /\ TablesStep
  <1>1. /\ UNCHANGED <<occurrence_hashes, deliveries, streams,
                       protocol_gap_epochs, pending>>
        /\ protocol_gap_epochs \in [Subscriptions -> Nat]
        /\ capture_gap_epoch' \in Nat /\ capture_gaps' \in Nat
        /\ capture_gap_epoch' >= capture_gap_epoch
    BY DEF EventsCaptureGap, EventsInv, EventsTypeOK
  <1>2. TablesStep
    BY <1>1, TablesStay
  <1> QED
    BY <1>1, <1>2 DEF OtherTypes, EventsInv, EventsTypeOK

(* What does not touch the event reducer keeps its tables.                 *)
LEMMA EventsStay ==
  ASSUME EventsInv, UNCHANGED eventVars
  PROVE  OtherTypes' /\ TablesStep
  <1>1. /\ UNCHANGED <<occurrence_hashes, deliveries, streams, capture_gaps,
                       capture_gap_epoch, protocol_gap_epochs, pending>>
        /\ protocol_gap_epochs \in [Subscriptions -> Nat]
        /\ capture_gap_epoch \in Nat
    BY DEF eventVars, EventsInv, EventsTypeOK
  <1>2. TablesStep
    BY <1>1, TablesStay
  <1> QED
    BY <1>1, <1>2 DEF OtherTypes, EventsInv, EventsTypeOK

(* Every step of the validator.                                            *)
LEMMA ValidatorStep ==
  ASSUME EventsInv, [Next]_vars
  PROVE  OtherTypes' /\ TablesStep
  <1>1. CASE Preflight
    BY <1>1, EventsStay DEF Preflight, eventVars
  <1>2. ASSUME NEW r \in Records, ReadRecord(r)
        PROVE  OtherTypes' /\ TablesStep
    <2>1. CASE ReadTransition(r)
      BY <2>1, EventsStay DEF ReadTransition
    <2>2. CASE ReadEvent(r)
      BY <2>2, RecordKinds, EventStep DEF ReadEvent
    <2>3. CASE ReadAck(r)
      BY <2>3, RecordKinds, AckStep DEF ReadAck
    <2>4. CASE ReadEventGap(r)
      BY <2>4, RecordKinds, EventGapStep DEF ReadEventGap
    <2>5. CASE ReadCaptureGap(r)
      BY <2>5, CaptureGapStep DEF ReadCaptureGap
    <2>6. CASE RefuseCaptureGap(r)
      BY <2>6, CaptureGapStep DEF RefuseCaptureGap
    <2> QED
      BY <1>2, <2>1, <2>2, <2>3, <2>4, <2>5, <2>6 DEF ReadRecord
  <1>3. CASE Finish
    <2>1. /\ UNCHANGED <<occurrence_hashes, deliveries, streams, capture_gaps,
                         capture_gap_epoch, protocol_gap_epochs>>
          /\ pending' = <<>>
          /\ protocol_gap_epochs \in [Subscriptions -> Nat]
          /\ capture_gap_epoch \in Nat
      BY <1>3 DEF Finish, EventsInv, EventsTypeOK
    <2>2. TablesStep
      BY <2>1, TablesStay
    <2> QED
      BY <2>1, <2>2 DEF OtherTypes, EventsInv, EventsTypeOK
  <1>4. CASE UNCHANGED vars
    BY <1>4, EventsStay DEF vars
  <1> QED
    BY <1>1, <1>2, <1>3, <1>4 DEF Next

-----------------------------------------------------------------------------
(* The theorems                                                            *)

(* Empty tables agree.                                                     *)
LEMMA EventsInvInitially == Init => EventsInv
  BY DEF Init, EventsInit, EventsInv, EventsTypeOK, StreamsFollowDeliveries

(* Every step keeps the tables in agreement.                               *)
LEMMA EventsInvStep == EventsInv /\ [Next]_vars => EventsInv'
  <1> SUFFICES ASSUME EventsInv, [Next]_vars PROVE EventsInv'
    OBVIOUS
  <1>1. OtherTypes' /\ TablesStep
    BY ValidatorStep
  <1> QED
    BY <1>1 DEF OtherTypes, TablesStep, EventsInv, EventsTypeOK,
                DeliveryRecords, ProgressRecords

(* So they always agree.                                                   *)
LEMMA EventsInvAlways == Spec => []EventsInv
  BY EventsInvInitially, EventsInvStep, PTL DEF Spec

(* The event reducer's tables keep their types: whatever the records say,
   every delivery and stream it knows is one that a record named.          *)
THEOREM EventsTypeCorrect == Spec => []EventsTypeOK
  BY EventsInvAlways, PTL DEF EventsInv

(* check_event and check_ack keep the two tables of transmissions in
   agreement for any records in any order: every stream stands at a delivery
   of its own, terminal exactly when that delivery is acknowledged, and no
   stream has seen a gap that has not come.                                *)
THEOREM StreamsAgree == Spec => []StreamsFollowDeliveries
  BY EventsInvAlways, PTL DEF EventsInv

(* A stream never goes back, and never leaves an unacknowledged delivery
   without a newer capture gap.                                            *)
THEOREM StreamsAdvance == Spec => StreamsOnlyAdvance
  <1>1. EventsInv /\ [Next]_vars
          => [\A k \in DOMAIN streams :
                k \in DOMAIN streams' /\ StreamAdvances(k)]_vars
    BY ValidatorStep DEF TablesStep
  <1> QED
    BY <1>1, EventsInvAlways, PTL DEF Spec, StreamsOnlyAdvance

(* The identity of a delivery and its first terminal acknowledgement are
   never rewritten.                                                        *)
THEOREM AnswersStand == Spec => DeliveriesKeepTheirAnswer
  <1>1. EventsInv /\ [Next]_vars
          => [\A d \in DOMAIN deliveries :
                /\ d \in DOMAIN deliveries'
                /\ Identity(deliveries'[d]) = Identity(deliveries[d])
                /\ deliveries[d].terminal_ack # None =>
                     deliveries'[d] = deliveries[d]]_vars
    BY ValidatorStep DEF TablesStep, DeliveryKeeps
  <1> QED
    BY <1>1, EventsInvAlways, PTL DEF Spec, DeliveriesKeepTheirAnswer

(* The two together, for bundles of any length.                            *)
THEOREM EventsAdvance == Spec => EventsOnlyAdvance
  BY StreamsAdvance, AnswersStand DEF EventsOnlyAdvance
===============================================================================
