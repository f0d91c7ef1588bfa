------------------------ MODULE ConformanceRunnerProofs -----------------------
(****************************************************************************)
(* What holds of a conformance run for all catalogs and subjects, however   *)
(* the executables behave and however often the source tree is edited.      *)
(****************************************************************************)
EXTENDS ConformanceRunner, SequenceTheorems, Induction

(* Verifying a report touches no run.                                      *)
LEMMA VerifierTouchesNothing == VerifyReport => VerifierUnchanged
  BY DEF VerifyReport, VerifierTakesSnapshot, VerifierLoads, VerifyEdited

(* The exchange that ends is the only one with live processes, and it takes *)
(* them with it.                                                           *)
LEMMA StragglersStep == NoStragglers /\ [Next]_vars => NoStragglers'
  <1> SUFFICES ASSUME NoStragglers, [Next]_vars PROVE NoStragglers'
    OBVIOUS
  <1> USE DEF NoStragglers, Exchanging, Exchange
  <1>1. CASE TakeSnapshot \/ LoadCatalog \/ Prepare \/ BeginVector \/ Finish
    BY <1>1 DEF TakeSnapshot, LoadCatalog, Prepare, BeginVector, Finish, Record, Raise
  <1>2. CASE TakeInventory \/ TakeAcknowledgement \/ TakeObservation
    <2>1. alive' = {}
      BY <1>2 DEF TakeInventory, TakeAcknowledgement, TakeObservation, Over, EndExchange, KillGroup
    <2> QED BY <2>1
  <1>3. CASE Expire \/ ChildStarts \/ ChildPrints \/ ChildExits
    BY <1>3 DEF Expire, ChildStarts, ChildPrints, ChildExits, Quiet, runVars
  <1>4. CASE Edit \/ VerifyReport
    BY <1>4, VerifierTouchesNothing DEF Edit, VerifierUnchanged, runVars
  <1>5. CASE UNCHANGED vars
    BY <1>5 DEF vars
  <1> QED
    BY <1>1, <1>2, <1>3, <1>4, <1>5 DEF Next, Harness

(* No process outlives its exchange, whatever executables start and however *)
(* they end: run_suite kills the group of every exchange.                  *)
THEOREM NothingStraggles == Spec => []NoStragglers
  <1>1. Init => NoStragglers
    BY DEF Init, NoStragglers
  <1> QED
    BY <1>1, StragglersStep, PTL DEF Spec

-------------------------------------------------------------------------------
(* Which catalog a run is about.  Two edits can hide a third catalog between *)
(* the two looks at the digests, so the invariant counts edits: the tree     *)
(* differs from the snapshot after one, and differed and agrees again after  *)
(* two.                                                                     *)
EditsAreCounted ==
  /\ edits \in Nat
  /\ phase = "loading" /\ disk # snapshot => edits > 0
  /\ phase = "loaded" =>
       /\ disk # snapshot \/ catalog # snapshot => edits > 0
       /\ disk = snapshot /\ catalog # snapshot => edits > 1
  /\ phase \in {"inventory", "vector", "adapter", "probe", "done"} =>
       catalog = snapshot \/ edits > 1

ReportComesLast == phase # "done" => report = None

LEMMA EditsStep == EditsAreCounted /\ [Next]_vars => EditsAreCounted'
  <1> SUFFICES ASSUME EditsAreCounted, [Next]_vars PROVE EditsAreCounted'
    OBVIOUS
  <1> USE DEF EditsAreCounted, sourceVars
  <1>1. CASE TakeSnapshot \/ LoadCatalog \/ Prepare
    BY <1>1 DEF TakeSnapshot, LoadCatalog, Prepare, Raise
  <1>2. CASE BeginVector \/ Finish
    BY <1>2 DEF BeginVector, Finish, Record, Raise
  <1>3. CASE TakeInventory \/ TakeAcknowledgement \/ TakeObservation
    BY <1>3 DEF TakeInventory, TakeAcknowledgement, TakeObservation, EndExchange, Record, Raise
  <1>4. CASE Expire \/ ChildStarts \/ ChildPrints \/ ChildExits
    BY <1>4 DEF Expire, ChildStarts, ChildPrints, ChildExits, Quiet
  <1>5. CASE Edit
    BY <1>5 DEF Edit
  <1>6. CASE VerifyReport
    BY <1>6, VerifierTouchesNothing DEF VerifierUnchanged
  <1>7. CASE UNCHANGED vars
    BY <1>7 DEF vars
  <1> QED
    BY <1>1, <1>2, <1>3, <1>4, <1>5, <1>6, <1>7 DEF Next, Harness

LEMMA ReportComesLastStep == ReportComesLast /\ [Next]_vars => ReportComesLast'
  <1> SUFFICES ASSUME ReportComesLast, [Next]_vars PROVE ReportComesLast'
    OBVIOUS
  <1> USE DEF ReportComesLast
  <1>1. CASE TakeSnapshot \/ LoadCatalog \/ Prepare
    BY <1>1 DEF TakeSnapshot, LoadCatalog, Prepare, Raise
  <1>2. CASE BeginVector \/ Finish
    BY <1>2 DEF BeginVector, Finish, Record, Raise
  <1>3. CASE TakeInventory \/ TakeAcknowledgement \/ TakeObservation
    BY <1>3 DEF TakeInventory, TakeAcknowledgement, TakeObservation, EndExchange, Record, Raise
  <1>4. CASE Expire \/ ChildStarts \/ ChildPrints \/ ChildExits
    BY <1>4 DEF Expire, ChildStarts, ChildPrints, ChildExits, Quiet
  <1>5. CASE Edit \/ VerifyReport
    BY <1>5, VerifierTouchesNothing DEF Edit, VerifierUnchanged
  <1>6. CASE UNCHANGED vars
    BY <1>6 DEF vars
  <1> QED
    BY <1>1, <1>2, <1>3, <1>4, <1>5, <1>6 DEF Next, Harness

LEMMA ReportStep ==
  EditsAreCounted /\ ReportComesLast /\ [Next]_vars =>
    (report' # report => report'.catalog = disk /\ (catalog = disk \/ edits > 1))
  <1> SUFFICES ASSUME EditsAreCounted, ReportComesLast, [Next]_vars, report' # report
               PROVE  report'.catalog = disk /\ (catalog = disk \/ edits > 1)
    OBVIOUS
  <1>1. CASE Finish
    <2>1. Report.catalog = snapshot /\ phase = "vector"
      BY <1>1 DEF Report, Finish
    <2>2. CASE Reusable /\ Verifies(Report, Loaded)
      BY <1>1, <2>1, <2>2 DEF Finish, Reusable, EditsAreCounted
    <2>3. CASE ~(Reusable /\ Verifies(Report, Loaded))
      BY <1>1, <2>3 DEF Finish, ReportComesLast
    <2> QED
      BY <2>2, <2>3
  <1>2. CASE ~Finish
    BY <1>2, VerifierTouchesNothing
       DEF Next, Harness, vars, TakeSnapshot, LoadCatalog, Prepare, BeginVector,
           TakeInventory, TakeAcknowledgement, TakeObservation, EndExchange, Expire,
           ChildStarts, ChildPrints, ChildExits, Quiet, Edit, VerifierUnchanged
  <1> QED
    BY <1>1, <1>2

(* The report names the catalog in the source tree, and the run used that    *)
(* one unless the tree was changed and changed back while it was read.       *)
THEOREM OneCatalog == Spec => ReportsBindOneCatalog
  <1>1. Init => EditsAreCounted /\ ReportComesLast
    BY DEF Init, EditsAreCounted, ReportComesLast
  <1> QED
    BY <1>1, EditsStep, ReportComesLastStep, ReportStep, PTL DEF Spec, ReportsBindOneCatalog

-------------------------------------------------------------------------------
(* Why a compared result rests on answers in time: there is one result per   *)
(* vector begun before, and a probe is only asked after the adapter's        *)
(* acknowledgement has counted.                                             *)
ResultsFollowVectors ==
  /\ next \in Nat
  /\ \E S : results \in Seq(S)
  /\ \E S : observations \in Seq(S)
  /\ phase \in {"start", "loading", "loaded", "inventory"} => results = <<>>
  /\ phase \in {"vector", "adapter", "probe"} => Len(results) = next - 1
  /\ phase = "probe" => <<"adapter", next, "acknowledged">> \in inTime

ResultsInv == ResultsFollowVectors /\ ResultsRestOnTimelyAnswers

(* Appending keeps what was there, whatever the elements are.              *)
LEMMA AppendAny ==
  ASSUME NEW s, \E S : s \in Seq(S), NEW e
  PROVE  /\ \E S : Append(s, e) \in Seq(S)
         /\ Len(Append(s, e)) = Len(s) + 1 /\ Len(s) \in Nat
         /\ DOMAIN s = 1..Len(s)
         /\ DOMAIN Append(s, e) = 1..(Len(s) + 1)
         /\ \A i \in 1..Len(s) : Append(s, e)[i] = s[i]
         /\ Append(s, e)[Len(s) + 1] = e
         /\ s \o <<e>> = Append(s, e) /\ s \o <<>> = s
         /\ Range(s \o <<e>>) = Range(s) \cup {e}
  <1>1. PICK S : s \in Seq(S)
    OBVIOUS
  <1> DEFINE T == S \cup {e}
  <1>2. s \in Seq(T) /\ e \in T
    BY <1>1, SeqMonotonic
  <1> HIDE DEF T
  <1>3. Append(s, e) \in Seq(T) /\ Len(Append(s, e)) = Len(s) + 1 /\ Len(s) \in Nat
    BY <1>2
  <1>4. /\ DOMAIN s = 1..Len(s) /\ DOMAIN Append(s, e) = 1..(Len(s) + 1)
        /\ \A i \in 1..Len(s) : Append(s, e)[i] = s[i]
        /\ Append(s, e)[Len(s) + 1] = e
    BY <1>2
  <1>5. s \o <<e>> = Append(s, e) /\ s \o <<>> = s
    BY <1>2
  <1>6. Range(s \o <<e>>) = Range(s) \cup {e}
    <2>1. Range(Append(s, e)) = {Append(s, e)[i] : i \in 1..(Len(s) + 1)}
      BY <1>4 DEF Range
    <2>2. Range(s) = {s[i] : i \in 1..Len(s)}
      BY <1>4 DEF Range
    <2>3. /\ Len(s) + 1 \in 1..(Len(s) + 1)
          /\ \A i \in 1..(Len(s) + 1) : (i \in 1..Len(s)) \/ (i = Len(s) + 1)
          /\ \A i \in 1..Len(s) : i \in 1..(Len(s) + 1)
      BY <1>3
    <2>4. \A x : x \in Range(Append(s, e)) => x \in Range(s) \cup {e}
      BY <1>4, <2>1, <2>2, <2>3
    <2>5. \A x \in Range(s) \cup {e} : x \in Range(Append(s, e))
      BY <1>4, <2>1, <2>2, <2>3
    <2> QED
      BY <1>5, <2>4, <2>5
  <1> QED
    BY <1>3, <1>4, <1>5, <1>6

(* A step that leaves the plan, the results and what was seen alone.       *)
LEMMA ResultsStand ==
  ASSUME ResultsInv, UNCHANGED <<catalog, plan, next, results, observations>>,
         inTime \subseteq inTime',
         phase' \in {"start", "loading", "loaded", "inventory"} => results = <<>>,
         phase' \in {"vector", "adapter", "probe"} => Len(results) = next - 1,
         phase' = "probe" => <<"adapter", next, "acknowledged">> \in inTime'
  PROVE  ResultsInv'
  <1>1. ResultsFollowVectors'
    BY DEF ResultsInv, ResultsFollowVectors
  <1>2. ResultsRestOnTimelyAnswers'
    BY DEF ResultsInv, ResultsRestOnTimelyAnswers, Vector, Loaded
  <1> QED
    BY <1>1, <1>2 DEF ResultsInv

(* The result of the next vector, with what the probe saw if it counts.    *)
LEMMA RecordStep ==
  ASSUME ResultsInv, phase \in {"vector", "adapter", "probe"}, UNCHANGED catalog,
         inTime \subseteq inTime',
         NEW r, NEW seen, Record(r, seen),
         \/ r.status = "error" /\ seen = <<>>
         \/ \E o : /\ seen = <<o>>
                  /\ r = ComparedResult(Vector(next), o)
                  /\ <<"adapter", next, "acknowledged">> \in inTime'
                  /\ <<"probe", next, o>> \in inTime'
  PROVE  ResultsInv'
  <1> USE DEF ResultsInv, ResultsFollowVectors
  <1>1. /\ results' = Append(results, r) /\ observations' = observations \o seen
        /\ next' = next + 1 /\ phase' = "vector" /\ UNCHANGED plan
    BY DEF Record
  <1>2. Len(results) = next - 1
    OBVIOUS
  <1>3. /\ \E S : results' \in Seq(S)
        /\ Len(results') = next
        /\ DOMAIN results' = 1..next /\ DOMAIN results = 1..(next - 1)
        /\ \A i \in 1..(next - 1) : results'[i] = results[i]
        /\ results'[next] = r
    <2>1. /\ \E S : Append(results, r) \in Seq(S)
          /\ Len(Append(results, r)) = Len(results) + 1
          /\ DOMAIN results = 1..Len(results)
          /\ DOMAIN Append(results, r) = 1..(Len(results) + 1)
          /\ \A i \in 1..Len(results) : Append(results, r)[i] = results[i]
          /\ Append(results, r)[Len(results) + 1] = r
      BY AppendAny
    <2>2. Len(results) + 1 = next
      BY <1>2
    <2> QED
      BY <1>1, <1>2, <2>1, <2>2
  <1>4. /\ \E S : observations' \in Seq(S)
        /\ Range(observations) \subseteq Range(observations')
        /\ \A o : seen = <<o>> => o \in Range(observations')
    <2>1. CASE seen = <<>>
      <3>1. observations \o <<>> = observations
        BY AppendAny
      <3> QED
        BY <1>1, <2>1, <3>1
    <2>2. ASSUME NEW o, seen = <<o>>
          PROVE  <1>4!1 /\ <1>4!2 /\ o \in Range(observations')
      <3>1. /\ \E S : Append(observations, o) \in Seq(S)
            /\ observations \o <<o>> = Append(observations, o)
            /\ Range(observations \o <<o>>) = Range(observations) \cup {o}
        BY AppendAny
      <3> QED
        BY <1>1, <2>2, <3>1
    <2> QED
      BY <2>1, <2>2
  <1>5. ResultsFollowVectors'
    BY <1>1, <1>3, <1>4
  <1>6. ResultsRestOnTimelyAnswers'
    <2> SUFFICES ASSUME NEW i \in 1..next, results'[i].status # "error"
                 PROVE  /\ <<"adapter", i, "acknowledged">> \in inTime'
                        /\ \E o \in Range(observations') :
                             /\ <<"probe", i, o>> \in inTime'
                             /\ results'[i] = ComparedResult(Vector(i)', o)
      BY <1>3 DEF ResultsRestOnTimelyAnswers
    <2>1. Vector(i)' = Vector(i)
      BY <1>1 DEF Vector, Loaded
    <2>2. CASE i = next
      BY <2>1, <2>2, <1>3, <1>4
    <2>3. CASE i \in 1..(next - 1)
      <3>1. results'[i] = results[i] /\ i \in DOMAIN results
        BY <2>3, <1>3
      <3>2. PICK o \in Range(observations) :
              <<"probe", i, o>> \in inTime /\ results[i] = ComparedResult(Vector(i), o)
        BY <3>1 DEF ResultsRestOnTimelyAnswers
      <3>3. <<"adapter", i, "acknowledged">> \in inTime
        BY <3>1 DEF ResultsRestOnTimelyAnswers
      <3> QED
        BY <2>1, <3>1, <3>2, <3>3, <1>4
    <2>4. i = next \/ i \in 1..(next - 1)
      <3>1. next \in Nat
        OBVIOUS
      <3> QED BY <3>1
    <2> QED
      BY <2>2, <2>3, <2>4
  <1> QED
    BY <1>5, <1>6

(* What an answered exchange leaves behind when it is over.                *)
LEMMA AnsweredInTime ==
  ASSUME Over, Outcome(child) = "answered", EndExchange
  PROVE  <<phase, next, child.out>> \in inTime'
  BY DEF Over, Outcome, EndExchange

LEMMA ResultsStep == ResultsInv /\ [Next]_vars => ResultsInv'
  <1> SUFFICES ASSUME ResultsInv, [Next]_vars PROVE ResultsInv'
    OBVIOUS
  <1> USE DEF runVars, sourceVars
  <1>1. CASE TakeSnapshot
    BY <1>1, ResultsStand DEF TakeSnapshot, ResultsInv, ResultsFollowVectors
  <1>2. CASE LoadCatalog
    <2>1. results = <<>> /\ results' = results /\ phase' \in {"loaded", "raised"}
      BY <1>2 DEF LoadCatalog, ResultsInv, ResultsFollowVectors
    <2>2. ResultsRestOnTimelyAnswers'
      BY <2>1 DEF ResultsRestOnTimelyAnswers
    <2>3. ResultsFollowVectors'
      BY <1>2, <2>1 DEF LoadCatalog, ResultsInv, ResultsFollowVectors
    <2> QED
      BY <2>2, <2>3 DEF ResultsInv
  <1>3. CASE Prepare
    BY <1>3, ResultsStand DEF Prepare, Raise, ResultsInv, ResultsFollowVectors
  <1>4. CASE TakeInventory
    <2>1. results = <<>> /\ results' = results /\ observations' = observations
          /\ next \in Nat /\ \E S : observations \in Seq(S)
      BY <1>4 DEF TakeInventory, Raise, ResultsInv, ResultsFollowVectors
    <2>2. ResultsRestOnTimelyAnswers'
      BY <2>1 DEF ResultsRestOnTimelyAnswers
    <2>3. (phase' = "vector" /\ next' = 1) \/ (phase' = "raised" /\ next' = next)
      <3>1. CASE Raise
        BY <3>1 DEF Raise
      <3>2. CASE ~Raise
        BY <1>4, <3>2 DEF TakeInventory
      <3> QED
        BY <3>1, <3>2
    <2>4. ResultsFollowVectors'
      BY <2>1, <2>3 DEF ResultsFollowVectors
    <2> QED
      BY <2>2, <2>4 DEF ResultsInv
  <1>5. CASE BeginVector
    <2>1. CASE CounterpartDigests(Vector(next), subject) = None
      BY <1>5, <2>1, RecordStep DEF BeginVector, ErrorResult
    <2>2. CASE CounterpartDigests(Vector(next), subject) # None
      BY <1>5, <2>2, ResultsStand DEF BeginVector, Raise, ResultsInv, ResultsFollowVectors
    <2> QED
      BY <2>1, <2>2
  <1>6. CASE TakeAcknowledgement
    <2>1. phase = "adapter" /\ UNCHANGED catalog /\ inTime \subseteq inTime'
          /\ Over /\ EndExchange
      BY <1>6 DEF TakeAcknowledgement, EndExchange
    <2>2. CASE Outcome(child) = "answered" /\ child.out = "acknowledged"
      <3>1. phase' = "probe" /\ UNCHANGED runVars
        BY <1>6, <2>2 DEF TakeAcknowledgement
      <3>2. <<"adapter", next, "acknowledged">> \in inTime'
        BY <2>1, <2>2, AnsweredInTime
      <3> QED
        BY <2>1, <3>1, <3>2, ResultsStand DEF ResultsInv, ResultsFollowVectors
    <2>3. CASE ~(Outcome(child) = "answered" /\ child.out = "acknowledged")
      <3>1. PICK token : Record(ErrorResult(Vector(next), token), <<>>)
        BY <1>6, <2>3 DEF TakeAcknowledgement
      <3>2. ErrorResult(Vector(next), token).status = "error"
        BY DEF ErrorResult
      <3> QED
        BY <2>1, <3>1, <3>2, RecordStep
    <2> QED
      BY <2>2, <2>3
  <1>7. CASE TakeObservation
    <2>1. phase = "probe" /\ UNCHANGED catalog /\ inTime \subseteq inTime'
          /\ Over /\ EndExchange
      BY <1>7 DEF TakeObservation, EndExchange
    <2>2. CASE Outcome(child) = "answered" /\ ObservationBound(Vector(next), child.out)
      <3>1. Record(ComparedResult(Vector(next), child.out), <<child.out>>)
        BY <1>7, <2>2 DEF TakeObservation
      <3>2. <<"probe", next, child.out>> \in inTime'
        BY <2>1, <2>2, AnsweredInTime
      <3>3. <<"adapter", next, "acknowledged">> \in inTime'
        BY <2>1 DEF ResultsInv, ResultsFollowVectors
      <3> QED
        BY <2>1, <3>1, <3>2, <3>3, RecordStep
    <2>3. CASE ~(Outcome(child) = "answered" /\ ObservationBound(Vector(next), child.out))
      <3>1. PICK token : Record(ErrorResult(Vector(next), token), <<>>)
        BY <1>7, <2>3 DEF TakeObservation
      <3>2. ErrorResult(Vector(next), token).status = "error"
        BY DEF ErrorResult
      <3> QED
        BY <2>1, <3>1, <3>2, RecordStep
    <2> QED
      BY <2>2, <2>3
  <1>8. CASE Finish
    BY <1>8, ResultsStand DEF Finish
  <1>9. CASE Expire \/ ChildStarts \/ ChildPrints \/ ChildExits
    BY <1>9, ResultsStand
       DEF Expire, ChildStarts, ChildPrints, ChildExits, Quiet, ResultsInv, ResultsFollowVectors
  <1>10. CASE Edit \/ VerifyReport
    BY <1>10, VerifierTouchesNothing, ResultsStand
       DEF Edit, VerifierUnchanged, ResultsInv, ResultsFollowVectors
  <1>11. CASE UNCHANGED vars
    BY <1>11, ResultsStand DEF vars, ResultsInv, ResultsFollowVectors
  <1> QED
    BY <1>1, <1>2, <1>3, <1>4, <1>5, <1>6, <1>7, <1>8, <1>9, <1>10, <1>11 DEF Next, Harness

(* A run begins with no results.                                           *)
LEMMA ResultsBegin == Init => ResultsInv
  <1> SUFFICES ASSUME Init PROVE ResultsInv
    OBVIOUS
  <1>1. results = <<>> /\ observations = <<>> /\ next = 0 /\ phase = "start"
    BY DEF Init
  <1>2. \E S : <<>> \in Seq(S)
    BY EmptySeq
  <1>3. ResultsFollowVectors
    BY <1>1, <1>2 DEF ResultsFollowVectors
  <1>4. ResultsRestOnTimelyAnswers
    BY <1>1 DEF ResultsRestOnTimelyAnswers
  <1> QED
    BY <1>3, <1>4 DEF ResultsInv

(* What a vector passes or fails by was written by an adapter and a probe    *)
(* that ended by themselves in time, for any executables and any catalog.   *)
THEOREM ResultsAreTimely == Spec => []ResultsRestOnTimelyAnswers
  <1>1. Init => ResultsInv
    BY ResultsBegin
  <1>2. ResultsInv => ResultsRestOnTimelyAnswers
    BY DEF ResultsInv
  <1> QED
    BY <1>1, <1>2, ResultsStep, PTL DEF Spec

-------------------------------------------------------------------------------
(* Why these edits turn no report into a pass: the inventory binds the      *)
(* subject, the subject the plan, and the plan the results; what is left to  *)
(* edit is derived again from the observations.                             *)

(* A value is a sequence of something.                                     *)
IsSequence(s) == \E S : s \in Seq(S)

IsInventory(x) ==
  x = [bound |-> x.bound, features |-> x.features, timely |-> x.timely]
IsReport(r) ==
  /\ r = [catalog |-> r.catalog, subject |-> r.subject, inventory |-> r.inventory,
          plan |-> r.plan, results |-> r.results, observations |-> r.observations,
          summary |-> r.summary]
  /\ IsInventory(r.inventory)

(* What an executable answers to the first exchange has the members of an   *)
(* inventory, and so has the one a run keeps.                               *)
InventoriesAreRead ==
  /\ Exchanging => child = [state |-> child.state, out |-> child.out,
                            code |-> child.code, expired |-> child.expired]
  /\ phase = "inventory" /\ child.out \notin {None, Unreadable} => IsInventory(child.out)
  /\ phase \in {"vector", "adapter", "probe", "done"} => IsInventory(inventory)

(* A report that is out verifies with the catalog that was loaded.         *)
ReportsVerify ==
  phase = "done" => IsReport(report) /\ Verifies(report, Loaded) /\ IsSequence(report.results)

(* Inventories differ in their members' values, never in which they have.  *)
LEMMA InventoriesHaveTheirMembers ==
  ASSUME NEW c, NEW s
  PROVE  \A x \in Inventories(c, s) : IsInventory(x)
  <1>1. ASSUME NEW b, NEW f, NEW t
        PROVE  IsInventory([bound |-> b, features |-> f, timely |-> t])
    BY DEF IsInventory
  <1>2. ASSUME NEW x \in Inventories(c, s)
        PROVE  \E b, f, t : x = [bound |-> b, features |-> f, timely |-> t]
    BY <1>2 DEF Inventories
  <1> QED BY <1>1, <1>2

LEMMA InventoriesStep == InventoriesAreRead /\ [Next]_vars => InventoriesAreRead'
  <1> SUFFICES ASSUME InventoriesAreRead, [Next]_vars PROVE InventoriesAreRead'
    OBVIOUS
  <1> USE DEF InventoriesAreRead, Exchanging, runVars
  <1>1. NewChild = [state |-> NewChild.state, out |-> NewChild.out, code |-> NewChild.code,
                    expired |-> NewChild.expired] /\ NewChild.out = None
    BY DEF NewChild
  <1>2. CASE TakeSnapshot \/ LoadCatalog
    BY <1>2 DEF TakeSnapshot, LoadCatalog
  <1>3. CASE Prepare
    BY <1>1, <1>3 DEF Prepare, Raise
  <1>4. CASE TakeInventory
    <2>1. CASE Raise
      BY <2>1 DEF Raise
    <2>2. CASE ~Raise
      <3>1. inventory' = child.out /\ phase' = "vector" /\ Outcome(child) = "answered"
            /\ phase = "inventory"
        BY <1>4, <2>2 DEF TakeInventory
      <3>2. child.out \notin {None, Unreadable}
        BY <3>1 DEF Outcome
      <3> QED BY <3>1, <3>2
    <2> QED BY <2>1, <2>2
  <1>5. CASE BeginVector
    BY <1>1, <1>5 DEF BeginVector, Record, Raise
  <1>6. CASE TakeAcknowledgement
    BY <1>1, <1>6 DEF TakeAcknowledgement, Record
  <1>7. CASE TakeObservation
    BY <1>7 DEF TakeObservation, Record
  <1>8. CASE Finish
    BY <1>8 DEF Finish
  <1>9. CASE ChildPrints
    <2>1. phase' = phase /\ inventory' = inventory /\ Exchanging
      BY <1>9 DEF ChildPrints, Quiet
    <2>2. PICK o : child' = [child EXCEPT !.out = o] /\ (o = Unreadable \/ o \in Answers)
      BY <1>9 DEF ChildPrints
    <2>3. child' = [state |-> child'.state, out |-> o, code |-> child'.code,
                    expired |-> child'.expired]
      BY <2>1, <2>2
    <2>4. \A x \in Inventories(Loaded, subject) : IsInventory(x)
      BY InventoriesHaveTheirMembers
    <2>5. phase = "inventory" => Answers = Inventories(Loaded, subject)
      BY DEF Answers
    <2> QED BY <2>1, <2>2, <2>3, <2>4, <2>5
  <1>10. CASE Expire \/ ChildStarts \/ ChildExits
    <2>1. phase' = phase /\ inventory' = inventory /\ Exchanging
      BY <1>10 DEF Expire, ChildStarts, ChildExits, Quiet
    <2>2. \/ \E x : child' = [child EXCEPT !.state = x]
          \/ \E x : child' = [child EXCEPT !.expired = x]
          \/ \E x, y : child' = [child EXCEPT !.state = x, !.code = y]
      BY <1>10 DEF Expire, ChildStarts, ChildExits
    <2>3. child' = [state |-> child'.state, out |-> child.out, code |-> child'.code,
                    expired |-> child'.expired]
      BY <2>1, <2>2
    <2> QED BY <2>1, <2>3
  <1>11. CASE Edit \/ VerifyReport
    BY <1>11, VerifierTouchesNothing DEF Edit, VerifierUnchanged
  <1>12. CASE UNCHANGED vars
    BY <1>12 DEF vars
  <1> QED
    BY <1>2, <1>3, <1>4, <1>5, <1>6, <1>7, <1>8, <1>9, <1>10, <1>11, <1>12 DEF Next, Harness

LEMMA ReportsVerifyStep ==
  ResultsInv /\ InventoriesAreRead /\ ReportsVerify /\ [Next]_vars => ReportsVerify'
  <1> SUFFICES ASSUME ResultsInv, InventoriesAreRead, ReportsVerify, [Next]_vars
               PROVE  ReportsVerify'
    OBVIOUS
  <1> USE DEF ReportsVerify, Loaded
  <1>1. CASE Finish
    <2>1. phase = "vector" /\ Report.results = results /\ catalog' = catalog
      BY <1>1 DEF Finish, Report, sourceVars
    <2>2. IsReport(Report)
      BY <2>1 DEF Report, IsReport, InventoriesAreRead
    <2>3. IsSequence(results)
      BY DEF ResultsInv, ResultsFollowVectors, IsSequence
    <2> QED BY <1>1, <2>1, <2>2, <2>3 DEF Finish
  <1>2. CASE VerifyReport
    BY <1>2, VerifierTouchesNothing DEF VerifierUnchanged, sourceVars
  <1>3. CASE UNCHANGED vars
    BY <1>3 DEF vars
  <1>4. CASE Edit
    BY <1>4 DEF Edit
  <1>5. CASE \/ TakeSnapshot \/ LoadCatalog \/ Prepare \/ TakeInventory \/ BeginVector
             \/ TakeAcknowledgement \/ TakeObservation \/ Expire \/ ChildStarts
             \/ ChildPrints \/ ChildExits
    <2>1. phase' # "done"
      BY <1>5 DEF TakeSnapshot, LoadCatalog, Prepare, TakeInventory, BeginVector,
                  TakeAcknowledgement, TakeObservation, EndExchange, Record, Raise, Expire,
                  ChildStarts, ChildPrints, ChildExits, Quiet, Exchanging
    <2> QED BY <2>1
  <1> QED
    BY <1>1, <1>2, <1>3, <1>4, <1>5 DEF Next, Harness

(* The results of r are those of the report R but for the i-th, which is    *)
(* said to have passed on what it observed or on another observation.      *)
IsPassPutIn(R, r, i) ==
  \E seen :
    /\ seen = R.results[i].observed \/ \E o \in Range(R.observations) : seen = {o.id}
    /\ r.results = [R.results EXCEPT ![i] = [@ EXCEPT !.status = "pass", !.failure = None,
                                                      !.observed = seen]]

(* What an edit leaves of a report: nothing is added to what was seen; the   *)
(* results and what the inventory is bound to, all but one result, or a list *)
(* of vectors that is too short.                                           *)
Edited(R, r) ==
  \/ /\ r.inventory.bound = R.inventory.bound /\ r.observations = R.observations
     /\ r.results = R.results
  \/ \E i \in DOMAIN R.results :
       /\ r.inventory = R.inventory /\ r.observations = R.observations
       /\ IsPassPutIn(R, r, i)
  \/ \E i \in DOMAIN R.results : \E x :
       x.status = "error" /\ r.results = [R.results EXCEPT ![i] = x]
  \/ \E i \in DOMAIN R.results :
       /\ r.inventory = R.inventory /\ r.results = RemoveAt(R.results, i)
       /\ r.observations \in ObservationsWithout(R, i)
       /\ r.plan.applicable = RemoveAt(R.plan.applicable, i)

(* The results of a report that verifies are a sequence of records, one for *)
(* each vector that applies, and no observation counts for two of them.    *)
LEMMA VerifiedResults ==
  ASSUME NEW R, NEW c, Verifies(R, c), NEW i \in DOMAIN R.results
  PROVE  LET v == TheOne(c.vectors, "id", R.results[i].row.vector)
         IN  \/ /\ R.results[i].status = "error" /\ R.results[i].observed = {}
                /\ \E token : R.results[i] = ErrorResult(v, token)
             \/ /\ CounterpartDigests(v, R.subject) # None
                /\ \E o \in Range(R.observations) :
                     R.results[i] = ComparedResult(v, o) /\ R.results[i].observed = {o.id}
  <1> DEFINE x == R.results[i]
             v == TheOne(c.vectors, "id", x.row.vector)
  <1>1. x \in Derived(c, R, x)
    BY DEF Verifies
  <1>2. \A token : ErrorResult(v, token).status = "error" /\ ErrorResult(v, token).observed = {}
    BY DEF ErrorResult
  <1>3. \A o : ComparedResult(v, o).observed = {o.id}
    BY DEF ComparedResult
  <1>4. CASE \E token : x = ErrorResult(v, token)
    BY <1>2, <1>4
  <1>5. CASE ~\E token : x = ErrorResult(v, token)
    <2>1. /\ CounterpartDigests(v, R.subject) # None
          /\ \E o \in Range(R.observations) : x = ComparedResult(v, o)
      BY <1>1, <1>5 DEF Derived
    <2> QED BY <1>3, <2>1
  <1> QED BY <1>4, <1>5

(* A report that verifies with the same binding has the same plan.         *)
LEMMA BoundReportsAgree ==
  ASSUME NEW R, NEW r, NEW c, Verifies(R, c), Verifies(r, c),
         r.inventory.bound = R.inventory.bound
  PROVE  /\ r.subject = R.subject /\ r.plan = R.plan
         /\ r.results = R.results => r.summary = R.summary
  <1>1. Binding(r.subject) = Binding(R.subject)
    BY DEF Verifies, InventoryBound
  <1>2. r.subject = R.subject
    BY <1>1 DEF Binding
  <1> QED BY <1>2 DEF Verifies

(* Positions of a sequence are finitely many.                              *)
LEMMA FinitePositions ==
  ASSUME NEW s, IsSequence(s), NEW T \in SUBSET DOMAIN s
  PROVE  /\ DOMAIN s = 1..Len(s) /\ Len(s) \in Nat
         /\ \E S : s \in [1..Len(s) -> S]
         /\ IsFiniteSet(T)
  <1>1. DOMAIN s = 1..Len(s) /\ Len(s) \in Nat /\ \E S : s \in [1..Len(s) -> S]
    <2>1. PICK S : s \in Seq(S)
      BY DEF IsSequence
    <2>2. s \in [1..Len(s) -> S]
      BY <2>1
    <2> QED BY <2>1, <2>2
  <1>2. 1 \in Int /\ Len(s) \in Int
    BY <1>1
  <1>3. IsFiniteSet(1..Len(s))
    BY <1>2, FS_Interval
  <1>4. T \in SUBSET (1..Len(s))
    BY <1>1
  <1> QED BY <1>1, <1>3, <1>4, FS_Subset

(* Putting another result in keeps the results a sequence.                 *)
LEMMA PutIn ==
  ASSUME NEW s, IsSequence(s), NEW i \in DOMAIN s, NEW x,
         NEW t, t = [s EXCEPT ![i] = x]
  PROVE  /\ IsSequence(t)
         /\ DOMAIN t = DOMAIN s /\ t[i] = x
         /\ \A j \in DOMAIN s : j # i => t[j] = s[j]
         /\ x = s[i] => t = s
  <1>1. PICK S : s \in Seq(S)
    BY DEF IsSequence
  <1> DEFINE T == S \cup {x}
  <1>2. s \in Seq(T) /\ x \in T
    BY <1>1, SeqMonotonic
  <1> HIDE DEF T
  <1>3. i \in 1..Len(s) /\ DOMAIN s = 1..Len(s)
    BY <1>2
  <1>4. t \in Seq(T)
    BY <1>2, <1>3, ExceptSeq
  <1>5. s \in [1..Len(s) -> T]
    BY <1>2
  <1> QED BY <1>3, <1>4, <1>5 DEF IsSequence

(* An error among the results is reason enough not to pass.                *)
LEMMA ErrorsAreNoPass ==
  ASSUME NEW r, NEW c, Verifies(r, c), IsSequence(r.results),
         NEW i \in DOMAIN r.results, r.results[i].status \in {"error", "fail"}
  PROVE  r.summary.verdict # "pass"
  <1> DEFINE bad(status) == {j \in DOMAIN r.results : r.results[j].status = status}
  <1>1. DOMAIN r.results = 1..Len(r.results) /\ Len(r.results) \in Nat
    BY DEF IsSequence
  <1>2. ASSUME NEW status
        PROVE  IsFiniteSet(bad(status)) /\ Count(r.results, status) = Cardinality(bad(status))
    <2>3. IsFiniteSet(bad(status))
      BY FinitePositions
    <2> QED BY <2>3 DEF Count
  <1>3. ASSUME NEW status, r.results[i].status = status
        PROVE  Count(r.results, status) > 0
    <2>1. i \in bad(status)
      BY <1>3
    <2>2. bad(status) # {}
      BY <2>1
    <2> HIDE DEF bad
    <2>3. Cardinality(bad(status)) # 0 /\ Cardinality(bad(status)) \in Nat
      BY <1>2, <2>2, FS_EmptySet, FS_CardinalityType
    <2> QED BY <1>2, <2>3
  <1> HIDE DEF bad
  <1>4. r.summary.verdict =
          (IF Count(r.results, "fail") > 0 THEN "fail"
           ELSE IF Reasons(r.results, r.plan.uncovered, r.subject.kind) # {}
                THEN "incomplete" ELSE "pass")
    BY DEF Verifies, Summary
  <1>5. CASE r.results[i].status = "fail"
    BY <1>3, <1>4, <1>5
  <1>6. CASE r.results[i].status = "error"
    <2>1. Count(r.results, "error") > 0
      BY <1>3, <1>6
    <2>2. "execution_error" \in Reasons(r.results, r.plan.uncovered, r.subject.kind)
      BY <2>1 DEF Reasons
    <2> QED BY <1>4, <2>2
  <1> QED BY <1>5, <1>6

(* The edits a run tries are edits in this sense.                          *)
LEMMA EditsAreEdits ==
  ASSUME NEW R, IsReport(R), NEW c, Verifies(R, c), NEW now, NEW r \in EditedReports(R, now)
  PROVE  Edited(R, r)
  <1> DEFINE Shape(x) ==
               x = [catalog |-> x.catalog, subject |-> x.subject, inventory |-> x.inventory,
                    plan |-> x.plan, results |-> x.results, observations |-> x.observations,
                    summary |-> x.summary]
             Same(e) == /\ r.inventory = e.inventory /\ r.results = e.results
                        /\ r.observations = e.observations /\ r.plan = e.plan
  <1>1. Shape(R) /\ IsInventory(R.inventory)
    BY DEF IsReport
  <1>2. ASSUME NEW e, Shape(e), r \in Resummarized(e)
        PROVE  Same(e)
    BY <1>2 DEF Resummarized
  <1>3. ASSUME NEW e, Same(e), e.inventory.bound = R.inventory.bound,
               e.results = R.results, e.observations = R.observations
        PROVE  Edited(R, r)
    BY <1>3 DEF Edited
  <1>4. ASSUME NEW e, e \in {R, [R EXCEPT !.summary.verdict = "pass"],
                             [R EXCEPT !.subject.kind = "implementation"],
                             [R EXCEPT !.plan.uncovered = {}], [R EXCEPT !.catalog = now]},
               r \in Resummarized(e)
        PROVE  Edited(R, r)
    <2>1. /\ Shape(e) /\ e.inventory = R.inventory /\ e.results = R.results
          /\ e.observations = R.observations
      BY <1>1, <1>4
    <2> QED BY <1>2, <1>3, <1>4, <2>1
  <1>5. ASSUME r \in Resummarized([R EXCEPT !.subject.features = {},
                                            !.inventory.features = {}])
        PROVE  Edited(R, r)
    <2> DEFINE e == [R EXCEPT !.subject.features = {}, !.inventory.features = {}]
    <2>1. Shape(e) /\ e.results = R.results /\ e.observations = R.observations
          /\ e.inventory = [R.inventory EXCEPT !.features = {}]
      <3> DEFINE f == [R EXCEPT !.subject = [R.subject EXCEPT !.features = {}]]
      <3>1. e = [f EXCEPT !.inventory = [R.inventory EXCEPT !.features = {}]]
        BY <1>1
      <3>2. Shape(f) /\ f.results = R.results /\ f.observations = R.observations
        BY <1>1
      <3> HIDE DEF e, f
      <3> QED BY <3>1, <3>2
    <2>2. e.inventory.bound = R.inventory.bound
      BY <1>1, <2>1 DEF IsInventory
    <2> HIDE DEF e
    <2>3. r \in Resummarized(e)
      BY <1>5 DEF e
    <2> QED BY <1>2, <1>3, <2>1, <2>2, <2>3
  <1>6. ASSUME NEW i \in DOMAIN R.results
        PROVE  R.results[i] = [row |-> R.results[i].row, status |-> R.results[i].status,
                               observed |-> R.results[i].observed,
                               failure |-> R.results[i].failure]
    <2>1. \/ \E v, token : R.results[i] = ErrorResult(v, token)
          \/ \E v, o : R.results[i] = ComparedResult(v, o)
      BY <1>6, VerifiedResults
    <2> QED BY <2>1 DEF ErrorResult, ComparedResult
  <1>7. ASSUME NEW i \in DOMAIN R.results, NEW x, NEW e, r \in Resummarized(e),
               e = [R EXCEPT !.results = [R.results EXCEPT ![i] = x]]
        PROVE  /\ r.inventory = R.inventory /\ r.observations = R.observations
               /\ r.results = [R.results EXCEPT ![i] = x]
    <2>1. /\ Shape(e) /\ e.inventory = R.inventory /\ e.observations = R.observations
          /\ e.results = [R.results EXCEPT ![i] = x]
      BY <1>1, <1>7
    <2> QED BY <1>2, <1>7, <2>1
  <1>8. ASSUME NEW i \in DOMAIN R.results, NEW seen, NEW e, r \in Resummarized(e),
               e = PassPutIn(R, i, seen),
               seen = R.results[i].observed \/ \E o \in Range(R.observations) : seen = {o.id}
        PROVE  Edited(R, r)
    <2> DEFINE x == [R.results[i] EXCEPT !.status = "pass", !.failure = None,
                                         !.observed = seen]
    <2>1. e = [R EXCEPT !.results = [R.results EXCEPT ![i] = x]]
      BY <1>8 DEF PassPutIn
    <2>2. /\ r.inventory = R.inventory /\ r.observations = R.observations
          /\ r.results = [R.results EXCEPT ![i] = x]
      <3> HIDE DEF x
      <3> QED BY <1>7, <1>8, <2>1
    <2>3. IsPassPutIn(R, r, i)
      BY <1>8, <2>2 DEF IsPassPutIn
    <2> QED BY <2>2, <2>3 DEF Edited
  <1>10. ASSUME NEW i \in DOMAIN R.results, NEW obs, NEW e, r \in Resummarized(e),
                e = [R EXCEPT !.results[i] = [@ EXCEPT !.status = "error", !.observed = {},
                                                       !.failure = "timeout"],
                              !.observations = obs]
        PROVE  Edited(R, r)
    <2> DEFINE x == [R.results[i] EXCEPT !.status = "error", !.observed = {},
                                         !.failure = "timeout"]
    <2>1. x.status = "error"
      BY <1>6
    <2>2. e = [[R EXCEPT !.results = [R.results EXCEPT ![i] = x]] EXCEPT !.observations = obs]
      BY <1>10
    <2> HIDE DEF x
    <2>3. Shape(e) /\ e.results = [R.results EXCEPT ![i] = x]
      BY <1>1, <2>2
    <2>4. r.results = [R.results EXCEPT ![i] = x]
      BY <1>2, <1>10, <2>3
    <2> QED BY <2>1, <2>4 DEF Edited
  <1>11. ASSUME NEW i \in DOMAIN R.results, NEW obs \in ObservationsWithout(R, i), NEW e,
                r \in Resummarized(e),
                e = [R EXCEPT !.results = RemoveAt(@, i), !.plan.applicable = RemoveAt(@, i),
                              !.observations = obs]
        PROVE  Edited(R, r)
    <2> DEFINE short == RemoveAt(R.plan.applicable, i)
               plan2 == [R.plan EXCEPT !.applicable = short]
               some == RemoveAt(R.results, i)
    <2>1. plan2.applicable = short
      BY DEF Verifies, PlanOf
    <2>2. e = [[[R EXCEPT !.results = some] EXCEPT !.plan = plan2] EXCEPT !.observations = obs]
      BY <1>1, <1>11
    <2> HIDE DEF plan2
    <2>3. some = RemoveAt(R.results, i)
      OBVIOUS
    <2> HIDE DEF some
    <2>4. /\ Shape(e) /\ e.inventory = R.inventory /\ e.plan = plan2
          /\ e.results = some /\ e.observations = obs
      BY <1>1, <2>2
    <2>5. /\ r.inventory = R.inventory /\ r.plan = plan2
          /\ r.results = some /\ r.observations = obs
      BY <1>2, <1>11, <2>4
    <2> QED BY <1>11, <2>1, <2>3, <2>5 DEF Edited
  <1>12. PICK e : /\ r \in Resummarized(e)
                 /\ \/ e \in MembersEdited(R, now) \/ e \in PassesPutIn(R)
                    \/ e \in ErrorsPutIn(R) \/ e \in VectorsLeftOut(R)
    BY DEF EditedReports
  <1>13. CASE e \in MembersEdited(R, now)
    BY <1>4, <1>5, <1>12, <1>13, Zenon DEF MembersEdited
  <1>14. CASE e \in PassesPutIn(R)
    <2>1. PICK i \in DOMAIN R.results :
            e \in {PassPutIn(R, i, seen) :
                    seen \in {R.results[i].observed} \cup {{o.id} : o \in Range(R.observations)}}
      BY <1>14 DEF PassesPutIn
    <2>2. PICK seen :
            /\ e = PassPutIn(R, i, seen)
            /\ seen = R.results[i].observed \/ \E o \in Range(R.observations) : seen = {o.id}
      BY <2>1
    <2> QED BY <1>8, <1>12, <2>2
  <1>15. CASE e \in ErrorsPutIn(R)
    BY <1>10, <1>12, <1>15, Zenon DEF ErrorsPutIn
  <1>16. CASE e \in VectorsLeftOut(R)
    <2>1. PICK i \in DOMAIN R.results :
            e \in {[R EXCEPT !.results = RemoveAt(@, i), !.plan.applicable = RemoveAt(@, i),
                             !.observations = left] : left \in ObservationsWithout(R, i)}
      BY <1>16, Zenon DEF VectorsLeftOut
    <2>2. PICK left \in ObservationsWithout(R, i) :
            e = [R EXCEPT !.results = RemoveAt(@, i), !.plan.applicable = RemoveAt(@, i),
                          !.observations = left]
      BY <2>1, Zenon
    <2> QED BY <1>11, <1>12, <2>2, Zenon
  <1> QED BY <1>12, <1>13, <1>14, <1>15, <1>16

(* Each observation counts for one result only.                            *)
LEMMA ObservedOnce ==
  ASSUME NEW r, NEW c, Verifies(r, c), IsSequence(r.results),
         NEW o \in Range(r.observations),
         NEW i \in DOMAIN r.results, o.id \in r.results[i].observed,
         NEW j \in DOMAIN r.results, o.id \in r.results[j].observed
  PROVE  i = j
  <1> DEFINE at == {k \in DOMAIN r.results : o.id \in r.results[k].observed}
  <1>1. Cardinality(at) = 1
    BY DEF Verifies
  <1>3. IsFiniteSet(at)
    BY FinitePositions
  <1>4. PICK x : at = {x}
    BY <1>1, <1>3, FS_Singleton
  <1> QED BY <1>4

(* A pass that was put in was there before.                                *)
LEMMA PutInIsNoChange ==
  ASSUME NEW R, NEW r, NEW c, Verifies(R, c), Verifies(r, c),
         IsSequence(R.results), r.subject = R.subject,
         r.observations = R.observations, NEW i \in DOMAIN R.results, IsPassPutIn(R, r, i)
  PROVE  r.results = R.results
  <1> DEFINE y == R.results[i]
             x == r.results[i]
             v == TheOne(c.vectors, "id", y.row.vector)
  <1>1. PICK seen :
          /\ seen = y.observed \/ \E o \in Range(R.observations) : seen = {o.id}
          /\ r.results = [R.results EXCEPT ![i] = [y EXCEPT !.status = "pass",
                                                            !.failure = None, !.observed = seen]]
    BY DEF IsPassPutIn
  <1>2. /\ DOMAIN r.results = DOMAIN R.results
        /\ \A j \in DOMAIN R.results : j # i => r.results[j] = R.results[j]
        /\ x = [y EXCEPT !.status = "pass", !.failure = None, !.observed = seen]
    BY <1>1
  <1>3. /\ y = [row |-> y.row, status |-> y.status, observed |-> y.observed,
                failure |-> y.failure]
    <2>1. \/ \E token : y = ErrorResult(v, token)
          \/ \E o : y = ComparedResult(v, o)
      BY VerifiedResults
    <2> QED BY <2>1 DEF ErrorResult, ComparedResult
  <1>4. x = [row |-> y.row, status |-> "pass", observed |-> seen, failure |-> None]
    BY <1>2, <1>3
  <1>5. PICK k \in Range(R.observations) : x = ComparedResult(v, k) /\ seen = {k.id}
    <2>1. x.row = y.row /\ x.status = "pass" /\ x.observed = seen
      BY <1>4
    <2>2. \A w : ComparedResult(TheOne(c.vectors, "id", x.row.vector), w)
                   = ComparedResult(v, w)
      BY <2>1
    <2>3. i \in DOMAIN r.results
      BY <1>2
    <2>4. \E o \in Range(r.observations) :
            /\ x = ComparedResult(TheOne(c.vectors, "id", x.row.vector), o)
            /\ x.observed = {o.id}
      BY <2>1, <2>3, VerifiedResults
    <2> QED BY <2>1, <2>2, <2>4
  <1>6. IsSequence(r.results)
    BY <1>1, PutIn
  <1>7. k.id \in y.observed
    <2>1. k.id \in x.observed /\ i \in DOMAIN r.results
      BY <1>2, <1>4, <1>5
    <2>2. \E j \in DOMAIN R.results : k.id \in R.results[j].observed
      <3> DEFINE at == {j \in DOMAIN R.results : k.id \in R.results[j].observed}
      <3>1. Cardinality(at) = 1
        BY DEF Verifies
      <3>2. ASSUME NEW T, Cardinality(T) = 1
            PROVE  \E j : j \in T
        <4>1. Cardinality({}) = 0
          BY FS_EmptySet
        <4>2. T # {}
          <5>1. 0 # 1
            OBVIOUS
          <5> QED BY <3>2, <4>1, <5>1, Zenon
        <4> QED BY <4>2
      <3> QED BY <3>1, <3>2
    <2>3. PICK j \in DOMAIN R.results : k.id \in R.results[j].observed
      BY <2>2
    <2>4. j = i
      <3> SUFFICES ASSUME j # i PROVE FALSE
        OBVIOUS
      <3>1. j \in DOMAIN r.results /\ k.id \in r.results[j].observed
        BY <1>2, <2>3
      <3>2. k \in Range(r.observations)
        OBVIOUS
      <3> QED BY <1>6, <2>1, <3>1, <3>2, ObservedOnce
    <2> QED BY <2>3, <2>4
  <1>8. PICK k2 \in Range(R.observations) : y = ComparedResult(v, k2) /\ y.observed = {k2.id}
    BY <1>7, VerifiedResults
  <1>9. k2 = k
    <2>1. PICK a \in DOMAIN R.observations, b \in DOMAIN R.observations :
            R.observations[a] = k /\ R.observations[b] = k2
      BY DEF Range
    <2>2. k.id = k2.id
      BY <1>7, <1>8
    <2>3. IsInjective(Column(R.observations, "id"))
      BY DEF Verifies
    <2>4. a = b
      BY <2>1, <2>2, <2>3 DEF IsInjective, Column
    <2> QED BY <2>1, <2>4
  <1>10. x = y
    BY <1>5, <1>8, <1>9
  <1>11. [y EXCEPT !.status = "pass", !.failure = None, !.observed = seen] = y
    BY <1>2, <1>10
  <1> QED BY <1>1, <1>11, PutIn

(* None of the edits turns a report into one that verifies and passes.     *)
LEMMA EditsForgeNothing ==
  ASSUME NEW R, NEW r, NEW c, Verifies(R, c), Verifies(r, c), Edited(R, r),
         IsSequence(R.results), r.summary.verdict = "pass"
  PROVE  R.summary.verdict = "pass" /\ r.plan = R.plan
  <1>1. CASE r.inventory.bound = R.inventory.bound /\ r.results = R.results
    BY <1>1, BoundReportsAgree
  <1>2. ASSUME NEW i \in DOMAIN R.results, r.inventory = R.inventory,
               r.observations = R.observations, IsPassPutIn(R, r, i)
        PROVE  R.summary.verdict = "pass" /\ r.plan = R.plan
    <2>1. r.subject = R.subject
      BY <1>2, BoundReportsAgree
    <2>2. r.results = R.results
      BY <1>2, <2>1, PutInIsNoChange
    <2> QED BY <1>2, <2>2, BoundReportsAgree
  <1>3. ASSUME NEW i \in DOMAIN R.results, NEW x, x.status = "error",
               r.results = [R.results EXCEPT ![i] = x]
        PROVE  FALSE
    <2>4. IsSequence(r.results)
      BY <1>3, PutIn
    <2>5. i \in DOMAIN r.results /\ r.results[i].status = "error"
      BY <1>3
    <2> QED BY <2>4, <2>5, ErrorsAreNoPass
  <1>4. ASSUME NEW i \in DOMAIN R.results, r.inventory = R.inventory,
               r.plan.applicable = RemoveAt(R.plan.applicable, i)
        PROVE  FALSE
    <2> DEFINE a == R.plan.applicable
               n == Len(R.results)
    <2>1. DOMAIN R.results = 1..n /\ n \in Nat
      BY DEF IsSequence
    <2>2. a = [j \in 1..n |-> R.results[j].row.vector]
      BY <2>1 DEF Verifies
    <2>3. a \in Seq(Range(a)) /\ Len(a) = n
      <3>1. a \in [1..n -> Range(a)]
        BY <2>2 DEF Range
      <3> QED BY <2>1, <3>1, SeqDef
    <2>4. r.plan = R.plan
      BY <1>4, BoundReportsAgree
    <2>5. RemoveAt(a, i) = a
      BY <1>4, <2>4
    <2> HIDE DEF a, n
    <2>6. i \in 1..n
      BY <2>1
    <2>7. Len(SubSeq(a, 1, i - 1)) = i - 1 /\ Len(SubSeq(a, i + 1, n)) = n - i
          /\ SubSeq(a, 1, i - 1) \in Seq(Range(a)) /\ SubSeq(a, i + 1, n) \in Seq(Range(a))
      BY <2>1, <2>3, <2>6
    <2>8. Len(RemoveAt(a, i)) = n - 1
      BY <2>1, <2>3, <2>6, <2>7 DEF RemoveAt
    <2> QED BY <2>1, <2>3, <2>5, <2>8
  <1> QED BY <1>1, <1>2, <1>3, <1>4 DEF Edited

-------------------------------------------------------------------------------
(* What a catalog that is accepted makes of its matrix: every row is where   *)
(* its profile lists it, and the lists of vectors contain what they should. *)

(* What is named by an identifier that nothing else has.                   *)
LEMMA OneOfAName ==
  ASSUME NEW items, NEW f, IsInjective(Column(items, f)), NEW x \in Range(items)
  PROVE  TheOne(items, f, x[f]) = x
  <1>1. PICK i \in DOMAIN items : items[i] = x
    BY DEF Range
  <1>2. ASSUME NEW y \in Range(items), y[f] = x[f]
        PROVE  y = x
    <2>1. PICK j \in DOMAIN items : items[j] = y
      BY DEF Range
    <2>2. Column(items, f)[i] = Column(items, f)[j] /\ i \in DOMAIN Column(items, f)
          /\ j \in DOMAIN Column(items, f)
      BY <1>1, <1>2, <2>1 DEF Column
    <2>3. i = j
      BY <2>2 DEF IsInjective
    <2> QED BY <1>1, <2>1, <2>3
  <1>3. \E y \in Range(items) : y[f] = x[f]
    OBVIOUS
  <1>4. TheOne(items, f, x[f]) \in Range(items) /\ TheOne(items, f, x[f])[f] = x[f]
    BY <1>3 DEF TheOne
  <1> QED BY <1>2, <1>4

(* Numbers are in their order.                                             *)
LEMMA NumbersOrder ==
  ASSUME NEW S \in SUBSET Nat
  PROVE  Orders(S, {p \in S \X S : p[1] < p[2]})
  BY DEF Orders

(* A row is where its profile lists it.                                    *)
LEMMA RowsListed ==
  ASSUME NEW c, IsList(c.requirements), NEW ids, NEW rows \in SUBSET DOMAIN c.requirements,
         IsList(ids), InMatrixOrder(c, ids, rows)
  PROVE  /\ \A i \in rows : \E k \in DOMAIN ids : ids[k] = c.requirements[i].id
         /\ \A k \in DOMAIN ids : \E i \in rows : ids[k] = c.requirements[i].id
  <1> DEFINE before == {p \in rows \X rows : p[1] < p[2]}
             n == Cardinality(rows)
             upto(i) == {j \in rows : j <= i}
  <1>1. DOMAIN c.requirements = 1..Len(c.requirements) /\ Len(c.requirements) \in Nat
    BY DEF IsList
  <1>2. IsFiniteSet(rows) /\ n \in Nat /\ rows \in SUBSET Nat
    <2>1. IsFiniteSet(DOMAIN c.requirements)
      BY <1>1, FS_Interval
    <2>2. rows \in SUBSET Nat
      BY <1>1
    <2> QED BY <2>1, <2>2, FS_Subset, FS_CardinalityType
  <1>3. Orders(rows, before)
    BY <1>2, NumbersOrder
  <1>4. DOMAIN ids = 1..n
    BY DEF IsList, InMatrixOrder
  <1>5. ASSUME NEW i \in rows
        PROVE  Cardinality(upto(i)) = Ahead(rows, before, i) + 1
    <2>1. upto(i) = Before(rows, before, i) \cup {i} /\ i \notin Before(rows, before, i)
          /\ Before(rows, before, i) \in SUBSET rows
      BY <1>2 DEF Before
    <2>2. IsFiniteSet(Before(rows, before, i))
      BY <1>2, <2>1, FS_Subset
    <2>3. Cardinality(Before(rows, before, i) \cup {i}) = Cardinality(Before(rows, before, i)) + 1
      BY <2>1, <2>2, FS_AddElement
    <2> QED BY <2>1, <2>3 DEF Ahead
  <1>6. \A i \in rows : ids[Cardinality(upto(i))] = c.requirements[i].id
    BY DEF InMatrixOrder
  <1>7. /\ \A i \in rows : Ahead(rows, before, i) \in 0..(n - 1)
        /\ \A k \in 1..n : \E i \in rows : Ahead(rows, before, i) = k - 1
    BY <1>2, <1>3, CountsAreRanks
  <1> HIDE DEF before, n, upto
  <1>8. ASSUME NEW i \in rows
        PROVE  \E k \in DOMAIN ids : ids[k] = c.requirements[i].id
    <2>1. Ahead(rows, before, i) + 1 \in 1..n
      BY <1>2, <1>7
    <2> QED BY <1>4, <1>5, <1>6, <2>1
  <1>9. ASSUME NEW k \in DOMAIN ids
        PROVE  \E i \in rows : ids[k] = c.requirements[i].id
    <2>1. k \in 1..n
      BY <1>4
    <2>2. PICK i \in rows : Ahead(rows, before, i) = k - 1
      BY <1>7, <2>1
    <2>3. Cardinality(upto(i)) = k
      BY <1>5, <2>1, <2>2
    <2> QED BY <1>6, <2>3
  <1> QED BY <1>8, <1>9

(* In an accepted catalog a profile lists its rows, and each of them once.  *)
LEMMA RowsOfProfile ==
  ASSUME NEW c, CatalogValid(c), HasLists(c), NEW p \in DOMAIN c.profiles
  PROVE  /\ \A i \in DOMAIN c.profiles[p] :
              /\ RowAt(c, p, i) \in Range(c.requirements)
              /\ RowAt(c, p, i).profile = p
         /\ \A r \in Range(c.requirements) :
              r.profile = p => \E i \in DOMAIN c.profiles[p] : RowAt(c, p, i) = r
  <1> DEFINE rows == {i \in DOMAIN c.requirements : c.requirements[i].profile = p}
             ids == c.profiles[p]
  <1>1. IsInjective(Column(c.requirements, "id"))
    BY DEF CatalogValid, IdentifiersUnique
  <1>2. IsList(c.requirements) /\ IsList(ids) /\ InMatrixOrder(c, ids, rows)
    BY DEF CatalogValid, MatrixOrdered, HasLists
  <1>3. /\ \A i \in rows : \E k \in DOMAIN ids : ids[k] = c.requirements[i].id
        /\ \A k \in DOMAIN ids : \E i \in rows : ids[k] = c.requirements[i].id
    <2> HIDE DEF ids
    <2>1. rows \in SUBSET DOMAIN c.requirements
      OBVIOUS
    <2> HIDE DEF rows
    <2> QED BY <1>2, <2>1, RowsListed
  <1>4. \A r \in Range(c.requirements) : TheOne(c.requirements, "id", r.id) = r
    BY <1>1, OneOfAName
  <1>5. ASSUME NEW k \in DOMAIN ids
        PROVE  RowAt(c, p, k) \in Range(c.requirements) /\ RowAt(c, p, k).profile = p
    <2>1. PICK i \in rows : ids[k] = c.requirements[i].id
      BY <1>3
    <2>2. c.requirements[i] \in Range(c.requirements)
      BY DEF Range
    <2>3. RowAt(c, p, k) = c.requirements[i]
      BY <1>4, <2>1, <2>2 DEF RowAt
    <2> QED BY <2>2, <2>3
  <1>6. ASSUME NEW r \in Range(c.requirements), r.profile = p
        PROVE  \E k \in DOMAIN ids : RowAt(c, p, k) = r
    <2>1. PICK i \in rows : c.requirements[i] = r
      BY <1>6 DEF Range
    <2>2. PICK k \in DOMAIN ids : ids[k] = r.id
      BY <1>3, <2>1
    <2>3. RowAt(c, p, k) = r
      BY <1>4, <2>2 DEF RowAt
    <2> QED BY <2>3
  <1> QED BY <1>5, <1>6

(* Places are ordered by the row and then by the place in it.              *)
LEMMA PlacesOrder ==
  ASSUME NEW places \in SUBSET (Nat \X Nat)
  PROVE  /\ Orders(places, Earlier(places))
         /\ \A S \in SUBSET places : Orders(S, Earlier(places)) /\ Orders(S, Earlier(S))
  <1> DEFINE Sooner(x, y) == \/ x[1] < y[1]
                             \/ x[1] = y[1] /\ x[2] < y[2]
  <1>1. ASSUME NEW S \in SUBSET (Nat \X Nat), NEW before,
               \A x, y \in S : <<x, y>> \in before <=> Sooner(x, y)
        PROVE  Orders(S, before)
    <2>1. \A x \in S : x[1] \in Nat /\ x[2] \in Nat /\ x = <<x[1], x[2]>>
      OBVIOUS
    <2>2. \A x \in S : ~ Sooner(x, x)
      BY <2>1
    <2>3. ASSUME NEW x \in S, NEW y \in S, NEW z \in S, Sooner(x, y), Sooner(y, z)
          PROVE  Sooner(x, z)
      BY <2>1, <2>3
    <2>4. ASSUME NEW x \in S, NEW y \in S, x # y
          PROVE  Sooner(x, y) \/ Sooner(y, x)
      <3>1. x[1] # y[1] \/ x[2] # y[2]
        BY <2>1, <2>4
      <3> QED BY <2>1, <3>1
    <2> HIDE DEF Sooner
    <2> QED BY <1>1, <2>2, <2>3, <2>4 DEF Orders
  <1>2. ASSUME NEW T
        PROVE  \A x, y \in T : <<x, y>> \in Earlier(T) <=> Sooner(x, y)
    BY DEF Earlier
  <1> HIDE DEF Sooner
  <1>3. ASSUME NEW S \in SUBSET places
        PROVE  Orders(S, Earlier(places)) /\ Orders(S, Earlier(S))
    <2>1. S \in SUBSET (Nat \X Nat) /\ \A x \in S : x \in places
      OBVIOUS
    <2>2. \A x, y \in S : <<x, y>> \in Earlier(places) <=> Sooner(x, y)
      BY <1>2, <2>1
    <2> QED BY <1>1, <1>2, <2>1, <2>2
  <1> QED BY <1>3

(* A finite set that is ordered has a first member.                        *)
LEMMA FirstMember ==
  ASSUME NEW S, IsFiniteSet(S), S # {}, NEW before, Orders(S, before)
  PROVE  \E x \in S : \A y \in S : <<y, x>> \notin before
  <1>1. Cardinality(S) \in Nat /\ Cardinality(S) # 0
    BY FS_EmptySet, FS_CardinalityType
  <1>2. 1 \in 1..Cardinality(S)
    BY <1>1
  <1>3. PICK x \in S : Ahead(S, before, x) = 1 - 1
    BY <1>2, CountsAreRanks
  <1>4. IsFiniteSet(Before(S, before, x)) /\ Cardinality(Before(S, before, x)) = 0
    <2>1. Before(S, before, x) \in SUBSET S
      BY DEF Before
    <2>2. IsFiniteSet(Before(S, before, x))
      BY <2>1, FS_Subset
    <2> QED BY <1>3, <2>2 DEF Ahead
  <1>5. Before(S, before, x) = {}
    BY <1>4, FS_EmptySet
  <1> QED BY <1>5 DEF Before

(* The vectors that are listed for some places are the ones named there.    *)
LEMMA ListedAreNamed ==
  ASSUME NEW c, NEW p, NEW places \in SUBSET (Nat \X Nat), IsFiniteSet(places)
  PROVE  LET s == VectorsListed(c, p, places)
             order == Listed(c, p, places) IN
         /\ IsList(order) /\ DOMAIN s = DOMAIN order /\ IsList(s)
         /\ \A k \in DOMAIN order : order[k] \in places /\ s[k] = VectorAt(c, p, order[k])
         /\ Range(s) = {VectorAt(c, p, x) : x \in places}
  <1> DEFINE first == FirstPlaces(c, p, places)
             order == Listed(c, p, places)
             s == VectorsListed(c, p, places)
             n == Cardinality(first)
             before == Earlier(first)
  <1>1. first \in SUBSET places /\ IsFiniteSet(first)
    <2>1. first \in SUBSET places
      BY DEF FirstPlaces
    <2> QED BY <2>1, FS_Subset
  <1>2. order = InOrder(first, before)
    BY DEF Listed
  <1>3. /\ n \in Nat /\ order \in [1..n -> first] /\ order \in Seq(first) /\ Len(order) = n
        /\ \A x \in first : \E k \in 1..n : order[k] = x
    <2>1. Orders(first, before)
      BY <1>1, PlacesOrder
    <2> HIDE DEF first, order, before
    <2>2. /\ Cardinality(first) \in Nat
          /\ InOrder(first, before) \in [1..Cardinality(first) -> first]
          /\ InOrder(first, before) \in Seq(first)
          /\ Len(InOrder(first, before)) = Cardinality(first)
          /\ \A x \in first : \E k \in 1..Cardinality(first) : InOrder(first, before)[k] = x
      BY <1>1, <2>1, InOrderLists
    <2> QED BY <1>2, <2>2
  <1>4. s = [k \in DOMAIN order |-> VectorAt(c, p, order[k])]
    BY DEF VectorsListed
  <1>5. ASSUME NEW x \in places
        PROVE  \E y \in first : VectorAt(c, p, y) = VectorAt(c, p, x)
    <2> DEFINE T == {y \in places : VectorAt(c, p, y) = VectorAt(c, p, x)}
    <2>1. T \in SUBSET places /\ x \in T /\ IsFiniteSet(T)
      <3>1. T \in SUBSET places /\ x \in T
        OBVIOUS
      <3> QED BY <3>1, FS_Subset
    <2>2. Orders(T, Earlier(places))
      BY <2>1, PlacesOrder
    <2>3. PICK y \in T : \A z \in T : <<z, y>> \notin Earlier(places)
      <3>1. T # {}
        BY <2>1
      <3> HIDE DEF T
      <3> QED BY <2>1, <2>2, <3>1, FirstMember
    <2>4. y \in first
      BY <2>3 DEF FirstPlaces
    <2> QED BY <2>4
  <1> HIDE DEF first, order, s, n
  <1>6. IsList(order)
    <2>1. order \in [1..n -> Range(order)]
      BY <1>3 DEF Range
    <2> QED BY <1>3, <2>1, SeqDef DEF IsList
  <1>7. DOMAIN s = DOMAIN order /\ DOMAIN order = 1..n
        /\ \A k \in DOMAIN order : order[k] \in places /\ s[k] = VectorAt(c, p, order[k])
    BY <1>1, <1>3, <1>4
  <1>8. IsList(s)
    <2>1. s \in [1..n -> Range(s)]
      BY <1>4, <1>7 DEF Range
    <2> QED BY <1>3, <2>1, SeqDef DEF IsList
  <1>9. Range(s) = {VectorAt(c, p, x) : x \in places}
    <2>1. ASSUME NEW v \in Range(s)
          PROVE  \E x \in places : v = VectorAt(c, p, x)
      BY <1>7 DEF Range
    <2>2. ASSUME NEW x \in places
          PROVE  VectorAt(c, p, x) \in Range(s)
      <3>1. PICK y \in first : VectorAt(c, p, y) = VectorAt(c, p, x)
        BY <1>5
      <3>2. PICK k \in 1..n : order[k] = y
        BY <1>3
      <3>3. k \in DOMAIN s /\ s[k] = VectorAt(c, p, x)
        BY <1>7, <3>1, <3>2
      <3> QED BY <3>3 DEF Range
    <2> QED BY <2>1, <2>2
  <1> QED BY <1>6, <1>7, <1>8, <1>9 DEF order, s

(* The rows of a profile name finitely many vectors.                       *)
LEMMA PlacesAreFinite ==
  ASSUME NEW c, CatalogValid(c), HasLists(c), NEW p \in DOMAIN c.profiles
  PROVE  Places(c, p) \in SUBSET (Nat \X Nat) /\ IsFiniteSet(Places(c, p))
  <1> DEFINE ids == DOMAIN c.profiles[p]
             at(i) == DOMAIN RowAt(c, p, i).vectors
             in(i) == {<<i, j>> : j \in at(i)}
             rows == {in(i) : i \in ids}
  <1>1. ids \in SUBSET Nat /\ IsFiniteSet(ids)
    <2>1. ids = 1..Len(c.profiles[p]) /\ Len(c.profiles[p]) \in Nat
      BY DEF HasLists, IsList
    <2> QED BY <2>1, FS_Interval
  <1>2. ASSUME NEW i \in ids
        PROVE  at(i) \in SUBSET Nat /\ IsFiniteSet(at(i))
    <2>1. RowAt(c, p, i) \in Range(c.requirements)
      BY RowsOfProfile
    <2>2. at(i) = 1..Len(RowAt(c, p, i).vectors) /\ Len(RowAt(c, p, i).vectors) \in Nat
      BY <2>1 DEF HasLists, IsList
    <2> QED BY <2>2, FS_Interval
  <1> HIDE DEF ids, at
  <1>3. ASSUME NEW i \in ids
        PROVE  IsFiniteSet(in(i)) /\ in(i) \in SUBSET (Nat \X Nat)
    <2> DEFINE f == [j \in at(i) |-> <<i, j>>]
    <2>1. f \in Surjection(at(i), in(i))
      BY DEF Surjection
    <2>2. i \in Nat
      BY <1>1
    <2> HIDE DEF f
    <2>3. in(i) \in SUBSET (Nat \X Nat)
      BY <1>2, <2>2
    <2> HIDE DEF in
    <2> QED BY <1>2, <2>1, <2>3, FS_Surjection
  <1> HIDE DEF in
  <1>4. IsFiniteSet(rows) /\ \A T \in rows : IsFiniteSet(T) /\ T \in SUBSET (Nat \X Nat)
    <2> DEFINE f == [i \in ids |-> in(i)]
    <2>1. f \in Surjection(ids, rows)
      BY DEF Surjection
    <2>2. \A T \in rows : IsFiniteSet(T) /\ T \in SUBSET (Nat \X Nat)
      BY <1>3
    <2> HIDE DEF f, rows
    <2> QED BY <1>1, <2>1, <2>2, FS_Surjection
  <1>5. Places(c, p) = UNION rows
    BY DEF Places, rows, in, at, ids
  <1> HIDE DEF rows
  <1>6. IsFiniteSet(UNION rows)
    BY <1>4, FS_UNION
  <1> QED BY <1>4, <1>5, <1>6

(* A place names its vector in its row.                                    *)
LEMMA PlacesName ==
  ASSUME NEW c, CatalogValid(c), HasLists(c), NEW p \in DOMAIN c.profiles, NEW x \in Places(c, p)
  PROVE  /\ x[1] \in DOMAIN c.profiles[p]
         /\ RowAt(c, p, x[1]) \in Range(c.requirements)
         /\ VectorAt(c, p, x) \in Range(RowAt(c, p, x[1]).vectors)
  <1>1. PICK i \in DOMAIN c.profiles[p] : x \in {<<i, j>> : j \in DOMAIN RowAt(c, p, i).vectors}
    BY DEF Places
  <1>2. PICK j \in DOMAIN RowAt(c, p, i).vectors : x = <<i, j>>
    BY <1>1
  <1>3. x[1] = i /\ x[2] = j
    BY <1>2
  <1>4. RowAt(c, p, i).vectors[j] \in Range(RowAt(c, p, i).vectors)
    BY DEF Range
  <1> QED BY <1>3, <1>4, RowsOfProfile DEF VectorAt

(* The rows that name a vector apply to the same subjects.                 *)
LEMMA NamingRowsAgree ==
  ASSUME NEW c, CatalogValid(c), HasLists(c), NEW id,
         NEW q \in Range(c.requirements), id \in Range(q.vectors),
         NEW r \in Range(c.requirements), id \in Range(r.vectors)
  PROVE  q.applies = r.applies
  <1>1. PICK n \in DOMAIN c.vectors : c.vectors[n].id = id
    <2>1. id \in Range(Column(c.vectors, "id"))
      BY DEF CatalogValid, RequirementsResolve
    <2> QED BY <2>1 DEF Range, Column
  <1> DEFINE v == c.vectors[n]
             naming == RowsNaming(c, v)
             rows == {c.requirements[i] : i \in naming}
             ways == {row.applies : row \in rows}
  <1>2. Cardinality(ways) = 1
    BY DEF CatalogValid, VectorMatchesMatrix, RowsAgree
  <1>3. q \in rows /\ r \in rows
    BY <1>1 DEF Range, RowsNaming
  <1>4. IsFiniteSet(naming)
    <2>1. IsFiniteSet(DOMAIN c.requirements)
      <3>1. DOMAIN c.requirements = 1..Len(c.requirements) /\ Len(c.requirements) \in Nat
        BY DEF HasLists, IsList
      <3> QED BY <3>1, FS_Interval
    <2>2. naming \in SUBSET DOMAIN c.requirements
      BY DEF RowsNaming
    <2> QED BY <2>1, <2>2, FS_Subset
  <1>5. IsFiniteSet(ways)
    <2> DEFINE f == [i \in naming |-> c.requirements[i].applies]
    <2>1. f \in Surjection(naming, ways)
      <3>1. f \in [naming -> ways]
        OBVIOUS
      <3>2. \A w \in ways : \E i \in naming : f[i] = w
        OBVIOUS
      <3> HIDE DEF f, ways, naming
      <3> QED BY <3>1, <3>2 DEF Surjection
    <2> HIDE DEF f, ways, naming
    <2> QED BY <1>4, <2>1, FS_Surjection
  <1>6. PICK w : ways = {w}
    <2> HIDE DEF ways
    <2> QED BY <1>2, <1>5, FS_Singleton
  <1>7. q.applies \in ways /\ r.applies \in ways
    BY <1>3
  <1> HIDE DEF ways
  <1> QED BY <1>6, <1>7

(* No selection gets a vector from one row and is refused it by another.    *)
LEMMA NoConflict ==
  ASSUME NEW c, CatalogValid(c), HasLists(c), NEW s, s.profile \in DOMAIN c.profiles
  PROVE  Conflicting(c, s) = {}
  <1> DEFINE p == s.profile
             applied == AppliedPlaces(c, s)
             skipped == SkippedPlaces(c, s)
             order == Listed(c, p, skipped)
  <1>1. /\ applied \in SUBSET Places(c, p) /\ skipped \in SUBSET Places(c, p)
        /\ \A x \in skipped : x \notin applied
    BY DEF AppliedPlaces, SkippedPlaces
  <1>2. Places(c, p) \in SUBSET (Nat \X Nat) /\ IsFiniteSet(Places(c, p))
    BY PlacesAreFinite
  <1>3. /\ applied \in SUBSET (Nat \X Nat) /\ IsFiniteSet(applied)
        /\ skipped \in SUBSET (Nat \X Nat) /\ IsFiniteSet(skipped)
    BY <1>1, <1>2, FS_Subset
  <1> SUFFICES ASSUME NEW id \in Range(Applicable(c, s)),
                      id \in Range(Column(NotApplicable(c, s), "vector"))
               PROVE  FALSE
    BY DEF Conflicting
  <1>4. PICK x \in applied : VectorAt(c, p, x) = id
    <2>1. Range(VectorsListed(c, p, applied)) = {VectorAt(c, p, x) : x \in applied}
      BY <1>3, ListedAreNamed
    <2>2. Applicable(c, s) = VectorsListed(c, p, applied)
      BY DEF Applicable
    <2> QED BY <2>1, <2>2
  <1>5. PICK y \in skipped : VectorAt(c, p, y) = id
    <2>1. \A k \in DOMAIN order : order[k] \in skipped
      BY <1>3, ListedAreNamed
    <2>2. PICK k \in DOMAIN NotApplicable(c, s) : NotApplicable(c, s)[k].vector = id
      BY DEF Range, Column
    <2>3. k \in DOMAIN order /\ NotApplicable(c, s)[k].vector = VectorAt(c, p, order[k])
      BY <2>2 DEF NotApplicable
    <2> QED BY <2>1, <2>2, <2>3
  <1> DEFINE q == RowAt(c, p, x[1])
             r == RowAt(c, p, y[1])
  <1>6. q \in Range(c.requirements) /\ id \in Range(q.vectors)
    BY <1>1, <1>4, PlacesName
  <1>7. r \in Range(c.requirements) /\ id \in Range(r.vectors)
    BY <1>1, <1>5, PlacesName
  <1>8. q.applies = r.applies
    BY <1>6, <1>7, NamingRowsAgree
  <1>9. RoleFits(c, s, id) /\ Applies(q, s)
    BY <1>4 DEF AppliedPlaces
  <1>10. Applies(r, s)
    BY <1>8, <1>9 DEF Applies
  <1>11. y \in applied
    BY <1>1, <1>5, <1>9, <1>10 DEF AppliedPlaces
  <1> QED BY <1>1, <1>5, <1>11

(* A claim plans what a run of its profile, role and features applies.      *)
LEMMA ClaimIsPlanned ==
  ASSUME NEW c, CatalogValid(c), HasLists(c), NEW claim, ClaimClosed(c, claim),
         \A id \in Range(claim.vectors) : RoleFits(c, claim, id)
  PROVE  claim.vectors = Applicable(c, claim)
  <1> DEFINE p == claim.profile
             claimed == {x \in Places(c, p) : Applies(RowAt(c, p, x[1]), claim)}
  <1>1. p \in DOMAIN c.profiles /\ claim.vectors = VectorsListed(c, p, claimed)
    BY DEF ClaimClosed, ClaimVectors
  <1>2. Places(c, p) \in SUBSET (Nat \X Nat) /\ IsFiniteSet(Places(c, p))
    BY <1>1, PlacesAreFinite
  <1>3. claimed \in SUBSET (Nat \X Nat) /\ IsFiniteSet(claimed)
    BY <1>2, FS_Subset
  <1>4. Range(claim.vectors) = {VectorAt(c, p, x) : x \in claimed}
    <2> HIDE DEF claimed
    <2> QED BY <1>1, <1>3, ListedAreNamed
  <1>5. \A x \in claimed : RoleFits(c, claim, VectorAt(c, p, x))
    BY <1>4
  <1>6. claimed = AppliedPlaces(c, claim)
    BY <1>5 DEF AppliedPlaces
  <1> QED BY <1>1, <1>6 DEF Applicable

(* Whatever catalog the validation accepts: it gives no selection           *)
(* conflicting rows, and each claim of a bundle whose vectors are for its    *)
(* producer lists exactly what a run applies, in its order.                 *)
THEOREM BundlesArePlanned == Spec => PlansAreRun
  <1>1. ASSUME NEW c, CatalogValid(c), HasLists(c)
        PROVE  PlannedAsRun(c)
    <2>1. \A s \in Selections(c) : s.profile \in DOMAIN c.profiles
      BY <1>1 DEF Selections, CatalogValid, IdentifiersUnique
    <2>2. \A s \in Selections(c) : Conflicting(c, s) = {}
      BY <1>1, <2>1, NoConflict
    <2>3. ASSUME NEW b \in Range(c.bundles), NEW claim \in Range(b.claims),
                 \A id \in Range(claim.vectors) : RoleFits(c, claim, id)
          PROVE  claim.vectors = Applicable(c, claim)
      <3>1. ClaimClosed(c, claim)
        BY <1>1 DEF CatalogValid, BundlesValid
      <3> QED BY <1>1, <2>3, <3>1, ClaimIsPlanned
    <2> QED BY <2>2, <2>3 DEF PlannedAsRun
  <1>2. [Next]_vars =>
          (catalog' # catalog => catalog' = None \/ PlannedAsRun(Catalogs[catalog']))
    <2> SUFFICES ASSUME [Next]_vars, catalog' # catalog, catalog' # None
                 PROVE  PlannedAsRun(Catalogs[catalog'])
      OBVIOUS
    <2>1. LoadCatalog
      BY VerifierTouchesNothing
         DEF Next, Harness, vars, sourceVars, TakeSnapshot, LoadCatalog, Prepare, BeginVector,
             Finish, TakeInventory, TakeAcknowledgement, TakeObservation, EndExchange, Expire,
             ChildStarts, ChildPrints, ChildExits, Quiet, Edit, VerifierUnchanged
    <2>2. catalog' \in Accepted
      BY <2>1 DEF LoadCatalog
    <2>3. CatalogValid(Catalogs[catalog']) /\ HasLists(Catalogs[catalog'])
      BY <2>2, CatalogsHaveLists DEF Accepted
    <2> QED BY <1>1, <2>3
  <1> QED BY <1>2, PTL DEF Spec, PlansAreRun

-------------------------------------------------------------------------------
(* Why a pass is earned: what was decided before the first exchange stays    *)
(* true to the end of the run, and the report that is out is of this run.   *)
RunIsOne ==
  /\ subject \in Subjects
  /\ phase \in {"loaded", "inventory", "vector", "adapter", "probe", "done"} =>
       catalog \in Accepted
  /\ phase \in {"inventory", "vector", "adapter", "probe", "done"} =>
       SubjectValid(Loaded, subject) /\ ~(subject.kind = "implementation" /\ bundled)
  /\ phase \in {"vector", "adapter", "probe", "done"} => plan = PlanOf(Loaded, subject)
  /\ phase = "done" => report = Report

LEMMA RunStep == RunIsOne /\ [Next]_vars => RunIsOne'
  <1> SUFFICES ASSUME RunIsOne, [Next]_vars PROVE RunIsOne'
    OBVIOUS
  <1> USE DEF RunIsOne, Loaded
  <1>1. CASE TakeSnapshot
    BY <1>1 DEF TakeSnapshot, runVars
  <1>2. CASE LoadCatalog
    BY <1>2 DEF LoadCatalog, runVars
  <1>3. CASE Prepare
    BY <1>3 DEF Prepare, Raise, runVars, sourceVars
  <1>4. CASE TakeInventory
    BY <1>4 DEF TakeInventory, EndExchange, Raise, runVars, sourceVars
  <1>5. CASE BeginVector
    BY <1>5 DEF BeginVector, Record, Raise, runVars, sourceVars
  <1>6. CASE TakeAcknowledgement \/ TakeObservation
    BY <1>6 DEF TakeAcknowledgement, TakeObservation, EndExchange, Record, runVars, sourceVars
  <1>7. CASE Finish
    <2>1. UNCHANGED <<sourceVars, runVars>> /\ phase' \in {"done", "raised"}
          /\ (phase' = "done" => report' = Report) /\ phase = "vector"
      BY <1>7 DEF Finish
    <2>2. Report' = Report
      BY <2>1 DEF Report, sourceVars, runVars
    <2> QED BY <2>1, <2>2 DEF sourceVars, runVars
  <1>8. CASE VerifyReport
    BY <1>8, VerifierTouchesNothing DEF VerifierUnchanged, Report, runVars, sourceVars
  <1>9. CASE Expire \/ ChildStarts \/ ChildPrints \/ ChildExits
    BY <1>9 DEF Expire, ChildStarts, ChildPrints, ChildExits, Quiet, Exchanging, runVars, sourceVars
  <1>10. CASE Edit
    BY <1>10 DEF Edit, Report, runVars
  <1>11. CASE UNCHANGED vars
    BY <1>11 DEF vars, Report
  <1> QED
    BY <1>1, <1>2, <1>3, <1>4, <1>5, <1>6, <1>7, <1>8, <1>9, <1>10, <1>11 DEF Next, Harness

(* A vector that a row of the subject's profile applies to it is planned.   *)
LEMMA AppliedIsPlanned ==
  ASSUME NEW c, CatalogValid(c), HasLists(c), NEW s, s.profile \in DOMAIN c.profiles,
         NEW v \in Range(c.vectors), v.role \in {None, s.role},
         NEW r \in Range(c.requirements), r.profile = s.profile,
         v.id \in Range(r.vectors), Applies(r, s)
  PROVE  \E k \in DOMAIN Applicable(c, s) :
           TheOne(c.vectors, "id", Applicable(c, s)[k]) = v
  <1> DEFINE p == s.profile
             applied == AppliedPlaces(c, s)
  <1>1. PICK i \in DOMAIN c.profiles[p] : RowAt(c, p, i) = r
    BY RowsOfProfile
  <1>2. PICK j \in DOMAIN r.vectors : r.vectors[j] = v.id
    BY DEF Range
  <1>3. <<i, j>> \in Places(c, p) /\ VectorAt(c, p, <<i, j>>) = v.id
    BY <1>1, <1>2 DEF Places, VectorAt
  <1>4. TheOne(c.vectors, "id", v.id) = v
    <2>1. IsInjective(Column(c.vectors, "id"))
      BY DEF CatalogValid, IdentifiersUnique
    <2> QED BY <2>1, OneOfAName
  <1>5. <<i, j>> \in applied
    BY <1>1, <1>3, <1>4 DEF AppliedPlaces, RoleFits
  <1>6. applied \in SUBSET (Nat \X Nat) /\ IsFiniteSet(applied)
    <2>1. Places(c, p) \in SUBSET (Nat \X Nat) /\ IsFiniteSet(Places(c, p))
      BY PlacesAreFinite
    <2>2. applied \in SUBSET Places(c, p)
      BY DEF AppliedPlaces
    <2> QED BY <2>1, <2>2, FS_Subset
  <1>7. Range(VectorsListed(c, p, applied)) = {VectorAt(c, p, x) : x \in applied}
    BY <1>6, ListedAreNamed
  <1>8. v.id \in Range(Applicable(c, s))
    BY <1>3, <1>5, <1>7 DEF Applicable
  <1> QED BY <1>4, <1>8 DEF Range

(* A run keeps nothing but what its probes said in time.                   *)
ObservationsAreTimely ==
  \A o \in Range(observations) : \E i \in DOMAIN results : <<"probe", i, o>> \in inTime

LEMMA ObservationsStep ==
  ResultsInv /\ ObservationsAreTimely /\ [Next]_vars => ObservationsAreTimely'
  <1> SUFFICES ASSUME ResultsInv, ObservationsAreTimely, [Next]_vars
               PROVE  ObservationsAreTimely'
    OBVIOUS
  <1> USE DEF ObservationsAreTimely
  <1>1. ASSUME NEW r, NEW seen, Record(r, seen), phase \in {"vector", "adapter", "probe"},
               inTime \subseteq inTime',
               seen = <<>> \/ \E o : seen = <<o>> /\ <<"probe", next, o>> \in inTime'
        PROVE  ObservationsAreTimely'
    <2>1. results' = Append(results, r) /\ observations' = observations \o seen
      BY <1>1 DEF Record
    <2>2. /\ DOMAIN results = 1..Len(results) /\ Len(results) \in Nat
          /\ DOMAIN results' = 1..(Len(results) + 1) /\ Len(results) = next - 1 /\ next \in Nat
      BY <1>1, <2>1, AppendAny DEF ResultsInv, ResultsFollowVectors
    <2>3. next \in DOMAIN results' /\ DOMAIN results \subseteq DOMAIN results'
      BY <2>2
    <2>4. CASE seen = <<>>
      <3>1. observations' = observations
        BY <2>1, <2>4, AppendAny DEF ResultsInv, ResultsFollowVectors
      <3> QED BY <1>1, <2>3, <3>1
    <2>5. ASSUME NEW o, seen = <<o>>, <<"probe", next, o>> \in inTime'
          PROVE  ObservationsAreTimely'
      <3>1. Range(observations') = Range(observations) \cup {o}
        BY <2>1, <2>5, AppendAny DEF ResultsInv, ResultsFollowVectors
      <3> QED BY <1>1, <2>3, <2>5, <3>1
    <2> QED BY <1>1, <2>4, <2>5
  <1>2. ASSUME UNCHANGED <<results, observations>>, inTime \subseteq inTime'
        PROVE  ObservationsAreTimely'
    BY <1>2
  <1>3. CASE BeginVector
    <2>1. phase = "vector" /\ inTime' = inTime
      BY <1>3 DEF BeginVector
    <2>2. \/ \E r : Record(r, <<>>)
          \/ UNCHANGED <<results, observations>>
      BY <1>3 DEF BeginVector, Raise, runVars
    <2> QED BY <1>1, <1>2, <2>1, <2>2
  <1>4. CASE TakeAcknowledgement
    <2>1. phase = "adapter" /\ inTime \subseteq inTime'
      BY <1>4 DEF TakeAcknowledgement, EndExchange
    <2>2. \/ \E r : Record(r, <<>>)
          \/ UNCHANGED <<results, observations>>
      BY <1>4 DEF TakeAcknowledgement, runVars
    <2> QED BY <1>1, <1>2, <2>1, <2>2
  <1>5. CASE TakeObservation
    <2>1. phase = "probe" /\ inTime \subseteq inTime' /\ Over /\ EndExchange
      BY <1>5 DEF TakeObservation, EndExchange
    <2>2. \/ \E r : Record(r, <<>>)
          \/ Outcome(child) = "answered" /\ \E r : Record(r, <<child.out>>)
      BY <1>5 DEF TakeObservation
    <2>3. Outcome(child) = "answered" => <<"probe", next, child.out>> \in inTime'
      BY <2>1, AnsweredInTime
    <2> QED BY <1>1, <2>1, <2>2, <2>3
  <1>6. CASE TakeInventory
    BY <1>2, <1>6 DEF TakeInventory, EndExchange, Raise, runVars
  <1>7. CASE TakeSnapshot \/ LoadCatalog \/ Prepare \/ Finish \/ Edit
    BY <1>2, <1>7 DEF TakeSnapshot, LoadCatalog, Prepare, Finish, Edit, Raise, runVars
  <1>8. CASE Expire \/ ChildStarts \/ ChildPrints \/ ChildExits
    BY <1>2, <1>8 DEF Expire, ChildStarts, ChildPrints, ChildExits, Quiet, runVars
  <1>9. CASE VerifyReport
    BY <1>2, <1>9, VerifierTouchesNothing DEF VerifierUnchanged, runVars
  <1>10. CASE UNCHANGED vars
    BY <1>2, <1>10 DEF vars
  <1> QED
    BY <1>3, <1>4, <1>5, <1>6, <1>7, <1>8, <1>9, <1>10 DEF Next, Harness

(* A report on the subject of the run that names nothing but observations of *)
(* the run, and verifies as a pass with a catalog, is earned under it.     *)
LEMMA VerifiedPassIsEarned ==
  ASSUME ObservationsAreTimely, NEW c, CatalogValid(c), HasLists(c),
         NEW r, Verifies(r, c), IsSequence(r.results), r.summary.verdict = "pass",
         r.subject = subject, subject \in Subjects,
         ~(subject.kind = "implementation" /\ bundled),
         Range(r.observations) \subseteq Range(observations)
  PROVE  EarnedUnder(c)
  <1>1. SubjectValid(c, subject) /\ subject.profile \in DOMAIN c.profiles
    BY DEF Verifies, SubjectValid
  <1>2. r.plan = PlanOf(c, subject)
    BY DEF Verifies
  <1>3. Reasons(r.results, r.plan.uncovered, subject.kind) = {}
    <2>1. r.summary = Summary(r.results, Len(r.plan.skipped), r.plan.uncovered, subject.kind)
      BY DEF Verifies
    <2> QED BY <2>1 DEF Summary
  <1>4. subject.kind = "implementation" /\ ~bundled /\ r.plan.uncovered = {}
    BY <1>3, SubjectsHaveKinds DEF Reasons
  <1>5. \A f \in subject.features : \E row \in Range(c.requirements) :
          row.applies = [kind |-> "feature", value |-> f] /\ row.profile = subject.profile
    BY <1>2, <1>4 DEF PlanOf, Uncovered
  <1>6. ASSUME NEW v \in Range(c.vectors), v.role \in {None, subject.role},
               NEW row \in Range(c.requirements), row.profile = subject.profile,
               v.id \in Range(row.vectors), Applies(row, subject)
        PROVE  \E i \in DOMAIN results : \E o \in Range(observations) :
                 <<"probe", i, o>> \in inTime /\ o.bound = Binding(subject) /\ Matches(v, o)
    <2>1. PICK k \in DOMAIN r.plan.applicable : TheOne(c.vectors, "id", r.plan.applicable[k]) = v
      <3>1. r.plan.applicable = Applicable(c, subject)
        BY <1>2 DEF PlanOf
      <3> QED BY <1>1, <1>6, <3>1, AppliedIsPlanned
    <2>2. k \in DOMAIN r.results /\ r.results[k].row.vector = r.plan.applicable[k]
      <3>1. [i \in DOMAIN r.results |-> r.results[i].row.vector] = r.plan.applicable
        BY DEF Verifies
      <3> QED BY <2>1, <3>1
    <2>3. r.results[k].status \notin {"error", "fail"}
      BY <2>2, ErrorsAreNoPass
    <2>4. PICK o \in Range(r.observations) : r.results[k] = ComparedResult(v, o)
      <3>1. TheOne(c.vectors, "id", r.results[k].row.vector) = v
        BY <2>1, <2>2
      <3> QED BY <2>2, <2>3, <3>1, VerifiedResults
    <2>5. Matches(v, o)
      BY <2>3, <2>4 DEF ComparedResult
    <2>6. o.bound = Binding(subject)
      BY DEF Verifies
    <2>7. o \in Range(observations) /\ \E i \in DOMAIN results : <<"probe", i, o>> \in inTime
      BY DEF ObservationsAreTimely
    <2> QED BY <2>5, <2>6, <2>7
  <1> QED BY <1>4, <1>5, <1>6 DEF EarnedUnder

LEMMA PassesAreEarned ==
  ASSUME ObservationsAreTimely, ReportsVerify, ReportComesLast, RunIsOne
  PROVE  PassIsEarned
  <1> SUFFICES ASSUME report # None, report.summary.verdict = "pass"
               PROVE  EarnedUnder(Loaded)
    BY DEF PassIsEarned
  <1>1. /\ phase = "done" /\ report = Report /\ Verifies(report, Loaded)
        /\ IsSequence(report.results)
    BY DEF ReportComesLast, RunIsOne, ReportsVerify
  <1>2. report.subject = subject /\ report.observations = observations
    BY <1>1 DEF Report
  <1>3. /\ subject \in Subjects /\ catalog \in Accepted
        /\ ~(subject.kind = "implementation" /\ bundled)
    BY <1>1 DEF RunIsOne
  <1>4. CatalogValid(Loaded) /\ HasLists(Loaded)
    BY <1>3, CatalogsHaveLists DEF Accepted, Loaded
  <1> HIDE DEF Loaded
  <1> QED BY <1>1, <1>2, <1>3, <1>4, VerifiedPassIsEarned

(* What the three theorems below begin with.                               *)
LEMMA RunBegins ==
  Init => /\ ResultsInv /\ InventoriesAreRead /\ ReportsVerify /\ ObservationsAreTimely
          /\ ReportComesLast /\ RunIsOne
  <1> SUFFICES ASSUME Init
               PROVE  /\ ResultsInv /\ InventoriesAreRead /\ ReportsVerify
                      /\ ObservationsAreTimely /\ ReportComesLast /\ RunIsOne
    OBVIOUS
  <1>1. ResultsInv
    BY ResultsBegin
  <1>2. ObservationsAreTimely
    BY DEF Init, ObservationsAreTimely, Range
  <1> QED
    BY <1>1, <1>2 DEF Init, InventoriesAreRead, ReportsVerify, Exchanging, ReportComesLast, RunIsOne

(* A report of run_suite that says pass is of an implementation that no      *)
(* fixture spoke for, and every vector the loaded catalog applies to it was  *)
(* observed as expected, in this run and in time.                          *)
THEOREM EveryPassIsEarned == Spec => []PassIsEarned
  <1> QED
    BY RunBegins, PassesAreEarned, ResultsStep, InventoriesStep, ReportsVerifyStep,
       ObservationsStep, ReportComesLastStep, RunStep, PTL DEF Spec

-------------------------------------------------------------------------------
(* Why no edit makes a pass that was not earned.  A verification takes its   *)
(* digest and loads its catalog in two steps; as for a run, two edits can    *)
(* hide a third catalog between them.                                       *)
CheckedIsAnEdit ==
  checked # None =>
    /\ phase = "done" /\ edits \in Nat
    /\ checked.step \in {"loading", "loaded"} => checked.accepted = None
    /\ checked.step = "loading" /\ disk # checked.named => edits > 0
    /\ checked.step = "loaded" =>
         /\ checked.used \in Accepted
         /\ disk # checked.named \/ checked.used # checked.named => edits > 0
         /\ disk = checked.named /\ checked.used # checked.named => edits > 1
    /\ checked.accepted # None =>
         /\ checked.accepted \in EditedReports(report, checked.named)
         /\ checked.used \in Accepted
         /\ Verifies(checked.accepted, Catalogs[checked.used])
         /\ checked.used = checked.accepted.catalog \/ edits > 1

LEMMA CheckedStep ==
  EditsAreCounted /\ CheckedIsAnEdit /\ [Next]_vars => CheckedIsAnEdit'
  <1> SUFFICES ASSUME EditsAreCounted, CheckedIsAnEdit, [Next]_vars PROVE CheckedIsAnEdit'
    OBVIOUS
  <1>0. edits \in Nat
    BY DEF EditsAreCounted
  <1> USE DEF CheckedIsAnEdit, Checking
  <1>1. CASE VerifierTakesSnapshot
    BY <1>0, <1>1 DEF VerifierTakesSnapshot, VerifierUnchanged, sourceVars
  <1>2. CASE VerifierLoads
    BY <1>0, <1>2 DEF VerifierLoads, VerifierUnchanged, sourceVars
  <1>3. CASE VerifyEdited
    <2>1. PICK r \in EditedReports(report, checked.named) :
            checked' = Checking("over", checked.named, checked.used,
                                IF /\ disk = checked.named
                                   /\ r.catalog = checked.named
                                   /\ Verifies(r, Catalogs[checked.used])
                                THEN r ELSE None)
      BY <1>3 DEF VerifyEdited
    <2>2. /\ checked # None /\ checked.step = "loaded" /\ phase = "done"
          /\ UNCHANGED <<disk, edits, phase, report>>
      BY <1>3 DEF VerifyEdited, VerifierUnchanged, sourceVars
    <2>3. checked'.step = "over" /\ checked'.named = checked.named /\ checked'.used = checked.used
      BY <2>1
    <2>4. CASE checked'.accepted = None
      BY <1>0, <2>2, <2>3, <2>4
    <2>5. CASE checked'.accepted # None
      <3>1. /\ checked'.accepted = r /\ disk = checked.named /\ r.catalog = checked.named
            /\ Verifies(r, Catalogs[checked.used])
        BY <2>1, <2>5
      <3>2. checked.used = checked.named \/ edits > 1
        BY <2>2, <3>1
      <3> QED BY <1>0, <2>2, <2>3, <3>1, <3>2
    <2> QED BY <2>4, <2>5
  <1>4. CASE Edit
    <2>1. /\ UNCHANGED <<phase, report, checked>> /\ edits' = edits + 1 /\ disk' # disk
      BY <1>4 DEF Edit
    <2>2. edits' \in Nat /\ edits' > 0 /\ (edits > 0 => edits' > 1) /\ (edits > 1 => edits' > 1)
      BY <1>0, <2>1
    <2> QED BY <2>1, <2>2
  <1>5. CASE \/ TakeSnapshot \/ LoadCatalog \/ Prepare \/ TakeInventory \/ BeginVector
             \/ TakeAcknowledgement \/ TakeObservation \/ Finish \/ Expire \/ ChildStarts
             \/ ChildPrints \/ ChildExits
    <2>1. phase # "done" /\ checked' = checked
      BY <1>5 DEF TakeSnapshot, LoadCatalog, Prepare, TakeInventory, BeginVector, Finish,
                  TakeAcknowledgement, TakeObservation, EndExchange, Expire,
                  ChildStarts, ChildPrints, ChildExits, Quiet, Exchanging
    <2> QED BY <2>1
  <1>6. CASE UNCHANGED vars
    BY <1>6 DEF vars
  <1> QED
    BY <1>1, <1>2, <1>3, <1>4, <1>5, <1>6 DEF Next, Harness, VerifyReport

(* Leaving one out keeps a sequence one, of what was in it.                *)
LEMMA RemovedIsPart ==
  ASSUME NEW s, IsSequence(s), NEW i \in DOMAIN s
  PROVE  IsSequence(RemoveAt(s, i)) /\ Range(RemoveAt(s, i)) \subseteq Range(s)
  <1> DEFINE T == Range(s)
             n == Len(s)
             a == SubSeq(s, 1, i - 1)
             b == SubSeq(s, i + 1, n)
  <1>1. s \in Seq(T) /\ n \in Nat /\ i \in 1..n
    <2>1. PICK S : s \in Seq(S)
      BY DEF IsSequence
    <2>2. DOMAIN s = 1..n /\ n \in Nat /\ s \in [1..n -> S]
      BY <2>1
    <2>3. s \in [1..n -> T]
      BY <2>2 DEF Range
    <2> QED BY <2>2, <2>3, SeqDef
  <1> HIDE DEF T
  <1>2. a \in Seq(T) /\ b \in Seq(T)
    BY <1>1
  <1> HIDE DEF a, b
  <1>3. a \o b \in Seq(T)
    BY <1>2
  <1>4. RemoveAt(s, i) = a \o b
    BY DEF RemoveAt, a, b
  <1>5. ASSUME NEW t \in Seq(T)
        PROVE  Range(t) \subseteq T
    BY DEF Range
  <1> QED BY <1>3, <1>4, <1>5 DEF IsSequence, T

(* An edit that verifies as a pass is about the same subject, keeps a list  *)
(* of results and shows nothing but what was seen.                         *)
LEMMA EditedPass ==
  ASSUME NEW R, NEW r, NEW c, NEW d, Verifies(R, c), Verifies(r, d), Edited(R, r),
         IsSequence(R.results), IsSequence(R.observations), r.summary.verdict = "pass"
  PROVE  /\ r.subject = R.subject /\ IsSequence(r.results)
         /\ Range(r.observations) \subseteq Range(R.observations)
  <1>1. ASSUME r.inventory.bound = R.inventory.bound
        PROVE  r.subject = R.subject
    <2>1. Binding(r.subject) = Binding(R.subject)
      BY <1>1 DEF Verifies, InventoryBound
    <2> QED BY <2>1 DEF Binding
  <1>2. CASE /\ r.inventory.bound = R.inventory.bound /\ r.observations = R.observations
             /\ r.results = R.results
    BY <1>1, <1>2
  <1>3. ASSUME NEW i \in DOMAIN R.results, r.inventory = R.inventory,
               r.observations = R.observations, IsPassPutIn(R, r, i)
        PROVE  r.subject = R.subject /\ IsSequence(r.results)
    BY <1>1, <1>3, PutIn DEF IsPassPutIn
  <1>4. ASSUME NEW i \in DOMAIN R.results, NEW x, x.status = "error",
               r.results = [R.results EXCEPT ![i] = x]
        PROVE  FALSE
    <2>1. IsSequence(r.results)
      BY <1>4, PutIn
    <2>2. i \in DOMAIN r.results /\ r.results[i].status = "error"
      BY <1>4
    <2> QED BY <2>1, <2>2, ErrorsAreNoPass
  <1>5. ASSUME NEW i \in DOMAIN R.results, r.inventory = R.inventory,
               r.results = RemoveAt(R.results, i),
               r.observations \in ObservationsWithout(R, i)
        PROVE  /\ r.subject = R.subject /\ IsSequence(r.results)
               /\ Range(r.observations) \subseteq Range(R.observations)
    <2>1. r.subject = R.subject
      BY <1>1, <1>5
    <2>2. \/ r.observations = R.observations
          \/ \E k \in DOMAIN R.observations : r.observations = RemoveAt(R.observations, k)
      BY <1>5 DEF ObservationsWithout
    <2> QED BY <1>5, <2>1, <2>2, RemovedIsPart
  <1> QED BY <1>2, <1>3, <1>4, <1>5 DEF Edited

(* Of the edits of EditedReports none makes verify-report accept a pass that *)
(* the run has not earned with the catalog of that verification, whatever    *)
(* happens to the source tree; with the run's own catalog, none makes a pass *)
(* of a report that is none.                                               *)
THEOREM NothingIsForged == Spec => []NoForgedPass
  <1>1. ASSUME ResultsInv, ReportsVerify, ObservationsAreTimely, RunIsOne, CheckedIsAnEdit
        PROVE  NoForgedPass
    <2> SUFFICES ASSUME checked # None, checked.accepted # None,
                        checked.accepted.summary.verdict = "pass"
                 PROVE  /\ checked.accepted.subject = subject
                        /\ EarnedUnder(Catalogs[checked.used])
                        /\ checked.used = checked.accepted.catalog \/ edits > 1
                        /\ checked.used = catalog =>
                             /\ report.summary.verdict = "pass"
                             /\ checked.accepted.plan = report.plan
      BY DEF NoForgedPass
    <2> DEFINE r == checked.accepted
               c == Catalogs[checked.used]
    <2>1. /\ phase = "done" /\ r \in EditedReports(report, checked.named)
          /\ checked.used \in Accepted /\ Verifies(r, c)
          /\ checked.used = r.catalog \/ edits > 1
      BY <1>1 DEF CheckedIsAnEdit
    <2>2. IsReport(report) /\ Verifies(report, Loaded) /\ IsSequence(report.results)
      BY <1>1, <2>1 DEF ReportsVerify
    <2>3. /\ report = Report /\ subject \in Subjects
          /\ ~(subject.kind = "implementation" /\ bundled)
      BY <1>1, <2>1 DEF RunIsOne
    <2>4. report.subject = subject /\ report.observations = observations
      BY <2>3 DEF Report
    <2>5. IsSequence(observations)
      BY <1>1 DEF ResultsInv, ResultsFollowVectors, IsSequence
    <2>6. CatalogValid(c) /\ HasLists(c)
      BY <2>1, CatalogsHaveLists DEF Accepted
    <2>7. checked.used = catalog => c = Loaded
      BY DEF Loaded
    <2> HIDE DEF r, c
    <2>8. Edited(report, r)
      BY <2>1, <2>2, EditsAreEdits
    <2>9. r.summary.verdict = "pass"
      BY DEF r
    <2>10. /\ r.subject = subject /\ IsSequence(r.results)
           /\ Range(r.observations) \subseteq Range(observations)
      BY <2>1, <2>2, <2>4, <2>5, <2>8, <2>9, EditedPass
    <2>11. EarnedUnder(c)
      BY <1>1, <2>1, <2>3, <2>6, <2>9, <2>10, VerifiedPassIsEarned
    <2>12. c = Loaded => report.summary.verdict = "pass" /\ r.plan = report.plan
      BY <2>1, <2>2, <2>8, <2>9, EditsForgeNothing
    <2> QED BY <2>1, <2>7, <2>10, <2>11, <2>12 DEF r, c
  <1>2. Init => EditsAreCounted /\ CheckedIsAnEdit
    BY DEF Init, EditsAreCounted, CheckedIsAnEdit
  <1> QED
    BY <1>1, <1>2, RunBegins, ResultsStep, InventoriesStep, ReportsVerifyStep,
       ObservationsStep, ReportComesLastStep, RunStep, EditsStep, CheckedStep, PTL DEF Spec
===============================================================================
