------------------------- MODULE ConformanceRunner --------------------------
(****************************************************************************)
(* run_suite and verify_report: one conformance run against an adapter and  *)
(* a probe that are separate processes, on a source tree that may change    *)
(* under it.                                                                *)
(*                                                                          *)
(* Rules of a run:                                                          *)
(*   1. the catalog is validated before anything is started;                *)
(*   2. every exchange is one process with its own time, whose whole group  *)
(*      is killed when the exchange is over, and whose output counts only   *)
(*      if it ended by itself with code 0;                                  *)
(*   3. a vector is answered by an adapter and then by a probe, in one      *)
(*      fresh working directory;                                            *)
(*   4. the report is verified before it is given, with the catalog that    *)
(*      was loaded, which may be used again while the tree has the digest   *)
(*      that was taken before the loading;                                  *)
(*   5. verify-report takes the digest and loads the catalog of its own.    *)
(* A catalog is known by its digest; other digests are the value itself.   *)
(****************************************************************************)
EXTENDS ConformanceCatalog

CONSTANTS
  Catalogs,     \* the catalogs a source tree may hold, by digest
  Subjects,     \* the subjects that may be run
  Unreadable,   \* output that is no closed JSON object, or too much of it
  MaxEdits      \* bound on the edits of the source tree during a run

(* What the JSON schemas say of a catalog and a subject.                    *)
IsList(s) == s \in Seq(Range(s))
HasLists(c) ==
  /\ IsList(c.requirements)
  /\ \A r \in Range(c.requirements) : IsList(r.vectors)
  /\ \A p \in DOMAIN c.profiles : IsList(c.profiles[p])
ASSUME CatalogsHaveLists == \A d \in DOMAIN Catalogs : HasLists(Catalogs[d])
ASSUME SubjectsHaveKinds ==
  \A s \in Subjects : s.kind \in {"implementation", "suite_fixture"}

VARIABLES
  disk,         \* the digest of the catalog in the source tree
  edits,        \* how often it was edited
  subject,      \* what is run
  bundled,      \* whether an executable is one of the repository's fixtures
  phase,        \* where the run is
  snapshot,     \* what the source digests said when validation began
  catalog,      \* the digest of the loaded catalog, or None
  plan,         \* which vectors apply to the subject, or None
  child,        \* the process of the current exchange, or None
  alive,        \* the exchanges with a live process in their group
  inTime,       \* history: the answers of exchanges that ended in time with code 0
  inventory, next, results, observations,
  report,       \* the report, or None
  checked       \* the verification of a report that somebody edited, or None

runVars == <<inventory, plan, next, results, observations>>
sourceVars == <<disk, edits, subject, bundled, snapshot, catalog>>
vars == <<disk, edits, subject, bundled, phase, snapshot, catalog, child, alive,
          inTime, inventory, plan, next, results, observations, report, checked>>

Loaded == Catalogs[catalog]
Accepted == {d \in DOMAIN Catalogs : CatalogValid(Catalogs[d])}
Vector(i) == TheOne(Loaded.vectors, "id", plan.applicable[i])

(* What applicable_vectors returns.                                        *)
PlanOf(c, s) == [applicable |-> Applicable(c, s), skipped |-> NotApplicable(c, s),
                 uncovered |-> Uncovered(c, s)]

(**************************** what a probe sees ****************************)

(* The counterparts a vector requires, each the only one that fits it and   *)
(* is not the subject itself; None when one is missing or ambiguous.       *)
CounterpartDigests(v, s) ==
  FoldLeft(LAMBDA matched, need :
             LET fit == {p \in s.counterparts :
                           /\ matched # None
                           /\ p.kind = "implementation"
                           /\ p.profile = need
                           /\ p.boundary # s.boundary
                           /\ p.artifact # s.artifact
                           /\ p \notin Range(matched)} IN
             IF Cardinality(fit) # 1 THEN None ELSE Append(matched, CHOOSE p \in fit : TRUE),
           <<>>, v.counterparts)

(* The binding every observation must carry.                               *)
Binding(s) == [run |-> "this run", subject |-> s]

ExpectedObservation(v, s) ==
  [id |-> v.id, vector |-> v.id, bound |-> Binding(s),
   counterparts |-> CounterpartDigests(v, s), error |-> v.error,
   tokens |-> v.required, deltas |-> Range(v.deltas), timely |-> TRUE]

(* _compare_observation.                                                   *)
Matches(v, o) ==
  /\ o.vector = v.id
  /\ o.error = v.error
  /\ o.tokens = v.required
  /\ o.tokens \cap v.forbidden = {}
  /\ o.deltas = Range(v.deltas)

(* The document of a fixture after the patch of a mutation, or None.  The   *)
(* operations are applied one after the other: a replacement finds its path *)
(* and another value there, a copy of the simulation an empty carrier.     *)
Patched(f, m) ==
  FoldLeft(LAMBDA doc, op :
             CASE doc = None -> None
               [] op.op = "copy" /\ f.projections.impact # "absent"
                    /\ op.path \notin DOMAIN doc -> (op.path :> f.projections.impact) @@ doc
               [] op.op = "replace" /\ op.path \in DOMAIN doc /\ doc[op.path] # op.value ->
                    [doc EXCEPT ![op.path] = op.value]
               [] OTHER -> None,
           f.document, m.patch)

(******************************** the report *******************************)

Row(v) == [vector |-> v.id, digest |-> v, requirements |-> v.requirements]
ErrorResult(v, token) ==
  [row |-> Row(v), status |-> "error", observed |-> {}, failure |-> token]
ComparedResult(v, o) ==
  [row |-> Row(v), status |-> IF Matches(v, o) THEN "pass" ELSE "fail",
   observed |-> {o.id}, failure |-> IF Matches(v, o) THEN None ELSE "assertion_failed"]

Count(rs, status) == Cardinality({i \in DOMAIN rs : rs[i].status = status})

(* Mutant: only errors make a run incomplete.                              *)
ReasonsOfErrors(rs, uncovered, kind) ==
  IF Count(rs, "error") > 0 THEN {"execution_error"} ELSE {}

(* Why a run without a failure is not a pass.                              *)
Reasons(rs, uncovered, kind) ==
  {x \in {"execution_error", "uncovered_feature", "suite_fixture"} :
     CASE x = "execution_error" -> Count(rs, "error") > 0
       [] x = "uncovered_feature" -> uncovered # {}
       [] OTHER -> kind = "suite_fixture"}

Summary(rs, skipped, uncovered, kind) ==
  LET reasons == Reasons(rs, uncovered, kind) IN
  [verdict |-> IF Count(rs, "fail") > 0 THEN "fail"
               ELSE IF reasons # {} THEN "incomplete" ELSE "pass",
   passed |-> Count(rs, "pass"), failed |-> Count(rs, "fail"),
   errors |-> Count(rs, "error"), skipped |-> skipped, reasons |-> reasons]

InventoryBound(c, inv, s) == inv.bound = Binding(s) /\ inv.features \subseteq DOMAIN c.features

(* Mutant: a stored result is taken as it is.                              *)
DerivedAsStored(c, r, stored) == {stored}

(* The result verify_report derives for one stored result.                 *)
Derived(c, r, stored) ==
  LET v == TheOne(c.vectors, "id", stored.row.vector)
      known == {o \in Range(r.observations) : o.id \in stored.observed} IN
  IF CounterpartDigests(v, r.subject) = None THEN {ErrorResult(v, "unavailable_probe")}
  ELSE IF stored.status = "error"
       THEN {ErrorResult(v, token) : token \in {stored.failure} \ {None}}
       ELSE {ComparedResult(v, o) :
               o \in {k \in known : /\ stored.observed = {k.id}
                                    /\ k.counterparts = CounterpartDigests(v, r.subject)}}

(* What verify_report finds in order with a catalog, whatever it is named.  *)
Verifies(r, c) ==
  /\ SubjectValid(c, r.subject)
  /\ InventoryBound(c, r.inventory, r.subject)
  /\ r.inventory.features = r.subject.features
  /\ Conflicting(c, r.subject) = {}
  /\ r.plan = PlanOf(c, r.subject)
  /\ [i \in DOMAIN r.results |-> r.results[i].row.vector] = r.plan.applicable
  /\ IsInjective(Column(r.observations, "id"))
  /\ \A i \in DOMAIN r.results : r.results[i] \in Derived(c, r, r.results[i])
  /\ \A o \in Range(r.observations) :
       /\ Cardinality({i \in DOMAIN r.results : o.id \in r.results[i].observed}) = 1
       /\ o.bound = Binding(r.subject)
       /\ o.timely
  /\ r.inventory.timely
  /\ r.summary = Summary(r.results, Len(r.plan.skipped), r.plan.uncovered, r.subject.kind)

Report ==
  [catalog |-> snapshot, subject |-> subject, inventory |-> inventory, plan |-> plan,
   results |-> results, observations |-> observations,
   summary |-> Summary(results, Len(plan.skipped), plan.uncovered, subject.kind)]

(****************** what the processes and editors may give ****************)

Inventories(c, s) ==
  LET exact == [bound |-> Binding(s), features |-> s.features, timely |-> TRUE] IN
  {exact, [exact EXCEPT !.features = DOMAIN c.features],
   [exact EXCEPT !.bound.run = "another run"], [exact EXCEPT !.timely = FALSE]}

(* The observation a vector expects, and what is wrong with others.        *)
Observations(v, s) ==
  LET exact == ExpectedObservation(v, s) IN
  {exact,
   [exact EXCEPT !.vector = <<"another vector">>],
   [exact EXCEPT !.bound.run = "another run"],
   [exact EXCEPT !.counterparts = Append(@, [kind |-> "fixture"])],
   [exact EXCEPT !.tokens = @ \cup v.forbidden],
   [exact EXCEPT !.deltas = {}],
   [exact EXCEPT !.id = <<"one id for all">>],
   [exact EXCEPT !.timely = FALSE]}

(* Edits of everything in a report but its observations, which the report   *)
(* does not authenticate; the summary may be derived again.                *)
Resummarized(r) ==
  {r, [r EXCEPT !.summary = Summary(r.results, Len(r.plan.skipped), r.plan.uncovered, r.subject.kind)]}
MembersEdited(r, now) ==
  {r, [r EXCEPT !.summary.verdict = "pass"], [r EXCEPT !.subject.kind = "implementation"],
   [r EXCEPT !.plan.uncovered = {}], [r EXCEPT !.subject.features = {}, !.inventory.features = {}],
   [r EXCEPT !.catalog = now]}

PassPutIn(r, i, seen) ==
  [r EXCEPT !.results[i] = [@ EXCEPT !.status = "pass", !.failure = None, !.observed = seen]]
PassesPutIn(r) ==
  UNION {{PassPutIn(r, i, seen) :
            seen \in {r.results[i].observed} \cup {{o.id} : o \in Range(r.observations)}} :
         i \in DOMAIN r.results}

ErrorsPutIn(r) ==
  {[r EXCEPT !.results[i] = [@ EXCEPT !.status = "error", !.observed = {}, !.failure = "timeout"],
             !.observations = SelectSeq(@, LAMBDA o : o.id \notin r.results[i].observed)] :
     i \in DOMAIN r.results}

(* The observations without the one that a result names.                   *)
ObservationsWithout(r, i) ==
  IF r.results[i].observed = {} THEN {r.observations}
  ELSE {RemoveAt(r.observations, k) :
          k \in {j \in DOMAIN r.observations : r.observations[j].id \in r.results[i].observed}}
VectorsLeftOut(r) ==
  UNION {{[r EXCEPT !.results = RemoveAt(@, i), !.plan.applicable = RemoveAt(@, i),
                    !.observations = left] :
            left \in ObservationsWithout(r, i)} : i \in DOMAIN r.results}

EditedReports(r, now) ==
  UNION {Resummarized(e) : e \in MembersEdited(r, now) \cup PassesPutIn(r)
                                 \cup ErrorsPutIn(r) \cup VectorsLeftOut(r)}

(******************************** exchanges ********************************)

(* A phase is named after the exchange that is going on in it.             *)
Exchanging == phase \in {"inventory", "adapter", "probe"}
Exchange == <<phase, next>>
NewChild == [state |-> "starting", out |-> None, code |-> 0, expired |-> FALSE]

(* What a process may print.  An acknowledgement has one exact form.       *)
Answers ==
  CASE phase = "inventory" -> Inventories(Loaded, subject)
    [] phase = "adapter" -> {"acknowledged", "another shape"}
    [] phase = "probe" -> Observations(Vector(next), subject)

Quiet == UNCHANGED <<sourceVars, phase, runVars, report, checked>>

ChildStarts ==
  /\ Exchanging /\ child.state = "starting"
  /\ child' = [child EXCEPT !.state = "running"]
  /\ alive' = alive \cup {Exchange}
  /\ UNCHANGED inTime /\ Quiet

(* The executable, or something it left running in its group, prints.      *)
ChildPrints ==
  /\ Exchanging /\ Exchange \in alive /\ child.state # "starting"
  /\ \/ child.out = None /\ \E o \in Answers : child' = [child EXCEPT !.out = o]
     \/ child' = [child EXCEPT !.out = Unreadable]
  /\ UNCHANGED <<alive, inTime>> /\ Quiet

ChildExits ==
  /\ Exchanging /\ child.state = "running"
  /\ \E code \in {0, 1} : child' = [child EXCEPT !.state = "exited", !.code = code]
  /\ alive' \in {alive, alive \ {Exchange}}
  /\ UNCHANGED inTime /\ Quiet

(* communicate gives up waiting; the process lives until it is killed.     *)
Expire ==
  /\ Exchanging /\ child.state = "running" /\ ~child.expired
  /\ child' = [child EXCEPT !.expired = TRUE]
  /\ UNCHANGED <<alive, inTime>> /\ Quiet

(* Mutant: an answer counts although its time was over.                    *)
OutcomeOfOutput(c) ==
  IF c.state = "starting" THEN "unavailable"
  ELSE IF c.code # 0 THEN "failed"
  ELSE IF c.out \in {None, Unreadable} THEN "invalid_output" ELSE "answered"

(* How _execute_json_process judges the exchange that is over.             *)
Outcome(c) ==
  IF c.state = "starting" THEN "unavailable"
  ELSE IF c.expired THEN "timeout"
  ELSE IF c.code # 0 THEN "failed"
  ELSE IF c.out \in {None, Unreadable} THEN "invalid_output" ELSE "answered"

(* Mutant: the group of a process that ended by itself is left alone.      *)
KillExpiredGroup == alive' = IF child.expired THEN alive \ {Exchange} ELSE alive

(* The whole group is killed, however the exchange ended.                  *)
KillGroup == alive' = alive \ {Exchange}

Over == Exchanging /\ (child.state \in {"starting", "exited"} \/ child.expired)

EndExchange ==
  /\ KillGroup
  /\ inTime' = IF child.state = "exited" /\ ~child.expired /\ child.code = 0
                THEN inTime \cup {<<phase, next, child.out>>} ELSE inTime
  /\ UNCHANGED <<sourceVars, report, checked>>

(********************************* the run *********************************)

Raise == phase' = "raised" /\ child' = None /\ UNCHANGED runVars

Init ==
  /\ disk \in DOMAIN Catalogs /\ edits = 0
  /\ subject \in Subjects /\ bundled \in BOOLEAN
  /\ phase = "start" /\ snapshot = None /\ catalog = None
  /\ child = None /\ alive = {} /\ inTime = {}
  /\ inventory = None /\ plan = None /\ next = 0 /\ results = <<>> /\ observations = <<>>
  /\ report = None /\ checked = None

(* The source tree changes, during the run or when its report is out.      *)
Edit ==
  /\ edits < MaxEdits /\ phase # "raised"
  /\ \E d \in DOMAIN Catalogs \ {disk} : disk' = d
  /\ edits' = edits + 1
  /\ UNCHANGED <<subject, bundled, phase, snapshot, catalog, child, alive, inTime,
                 runVars, report, checked>>

TakeSnapshot ==
  /\ phase = "start" /\ phase' = "loading" /\ snapshot' = disk
  /\ UNCHANGED <<disk, edits, subject, bundled, catalog, child, alive, inTime,
                 runVars, report, checked>>

LoadCatalog ==
  /\ phase = "loading"
  /\ IF disk \in Accepted THEN catalog' = disk /\ phase' = "loaded"
                           ELSE catalog' = None /\ phase' = "raised"
  /\ UNCHANGED <<disk, edits, subject, bundled, snapshot, child, alive, inTime,
                 runVars, report, checked>>

(* The sources must not have changed while they were read; the subject is   *)
(* checked, and fixtures cannot speak for an implementation.               *)
Prepare ==
  /\ phase = "loaded"
  /\ IF /\ disk = snapshot
        /\ SubjectValid(Loaded, subject)
        /\ ~(subject.kind = "implementation" /\ bundled)
     THEN phase' = "inventory" /\ child' = NewChild /\ UNCHANGED runVars
     ELSE Raise
  /\ UNCHANGED <<sourceVars, alive, inTime, report, checked>>

TakeInventory ==
  /\ phase = "inventory" /\ Over
  /\ IF /\ Outcome(child) = "answered"
        /\ InventoryBound(Loaded, child.out, subject)
        /\ child.out.features = subject.features
        /\ Conflicting(Loaded, subject) = {}
     THEN /\ inventory' = child.out /\ plan' = PlanOf(Loaded, subject) /\ next' = 1
          /\ phase' = "vector" /\ child' = None
          /\ UNCHANGED <<results, observations>>
     ELSE Raise
  /\ EndExchange

Record(result, seen) ==
  /\ results' = Append(results, result) /\ observations' = observations \o seen
  /\ next' = next + 1 /\ phase' = "vector" /\ child' = None
  /\ UNCHANGED <<inventory, plan>>

(* The next vector: without its counterparts it is an error, otherwise the  *)
(* adapter is given the resolved fixture.                                  *)
BeginVector ==
  /\ phase = "vector" /\ next <= Len(plan.applicable)
  /\ LET v == Vector(next) IN
     IF CounterpartDigests(v, subject) = None
     THEN Record(ErrorResult(v, "unavailable_probe"), <<>>)
     ELSE IF Patched(FixtureOf(Loaded, v), MutationOf(Loaded, v)) = None THEN Raise
     ELSE phase' = "adapter" /\ child' = NewChild /\ UNCHANGED runVars
  /\ UNCHANGED <<sourceVars, alive, inTime, report, checked>>

FailureToken(outcome) ==
  CASE outcome = "timeout" -> "timeout"
    [] outcome = "invalid_output" -> "invalid_observation"
    [] OTHER -> "adapter_error"

TakeAcknowledgement ==
  /\ phase = "adapter" /\ Over
  /\ IF Outcome(child) # "answered"
     THEN Record(ErrorResult(Vector(next), FailureToken(Outcome(child))), <<>>)
     ELSE IF child.out # "acknowledged"
     THEN Record(ErrorResult(Vector(next), "invalid_observation"), <<>>)
     ELSE phase' = "probe" /\ child' = NewChild /\ UNCHANGED runVars
  /\ EndExchange

ObservationBound(v, o) ==
  o.bound = Binding(subject) /\ o.counterparts = CounterpartDigests(v, subject)

TakeObservation ==
  /\ phase = "probe" /\ Over
  /\ LET v == Vector(next) IN
     IF Outcome(child) # "answered"
     THEN Record(ErrorResult(v, FailureToken(Outcome(child))), <<>>)
     ELSE IF ~ObservationBound(v, child.out)
     THEN Record(ErrorResult(v, "invalid_observation"), <<>>)
     ELSE Record(ComparedResult(v, child.out), <<child.out>>)
  /\ EndExchange

(* Mutant: a loaded catalog is used again without a look at the tree.      *)
ReusableAlways == TRUE

(* A loaded catalog may be used again while the tree has the digest that    *)
(* was taken before the loading.                                           *)
Reusable == disk = snapshot

(* The report names the digest of the snapshot; it is verified with the     *)
(* catalog that was loaded, and given only if it verifies.                 *)
Finish ==
  /\ phase = "vector" /\ next > Len(plan.applicable)
  /\ IF Reusable /\ Verifies(Report, Loaded)
     THEN report' = Report /\ phase' = "done"
     ELSE report' = None /\ phase' = "raised"
  /\ UNCHANGED <<sourceVars, child, alive, inTime, runVars, checked>>

(******************************* verify-report *****************************)

(* A verification of its own: the digest it took and the catalog it loaded, *)
(* which need not be the same one; what it accepted, or None.              *)
Checking(step, named, used, accepted) ==
  [step |-> step, named |-> named, used |-> used, accepted |-> accepted]

VerifierUnchanged ==
  UNCHANGED <<sourceVars, phase, child, alive, inTime, runVars, report>>

VerifierTakesSnapshot ==
  /\ phase = "done" /\ checked = None
  /\ checked' = Checking("loading", disk, None, None)
  /\ VerifierUnchanged

VerifierLoads ==
  /\ checked # None /\ checked.step = "loading"
  /\ checked' = IF disk \in Accepted THEN Checking("loaded", checked.named, disk, None)
                                     ELSE Checking("over", checked.named, None, None)
  /\ VerifierUnchanged

(* Somebody edited the report that it is given.                            *)
VerifyEdited ==
  /\ checked # None /\ checked.step = "loaded"
  /\ \E r \in EditedReports(report, checked.named) :
       checked' = Checking("over", checked.named, checked.used,
                           IF /\ disk = checked.named
                              /\ r.catalog = checked.named
                              /\ Verifies(r, Catalogs[checked.used])
                           THEN r ELSE None)
  /\ VerifierUnchanged

VerifyReport == VerifierTakesSnapshot \/ VerifierLoads \/ VerifyEdited

Harness ==
  \/ TakeSnapshot \/ LoadCatalog \/ Prepare \/ TakeInventory \/ BeginVector
  \/ TakeAcknowledgement \/ TakeObservation \/ Finish
Next ==
  \/ Harness \/ Expire \/ ChildStarts \/ ChildPrints \/ ChildExits
  \/ Edit \/ VerifyReport

Spec == Init /\ [][Next]_vars

(******************************* properties ********************************)

(* A vector that passed or failed was answered by an adapter and then by a  *)
(* probe that each ended by itself, in time and with code 0: what a process *)
(* writes after its time, or before it fails, is never compared.           *)
ResultsRestOnTimelyAnswers ==
  \A i \in DOMAIN results : results[i].status # "error" =>
    /\ <<"adapter", i, "acknowledged">> \in inTime
    /\ \E o \in Range(observations) :
         /\ <<"probe", i, o>> \in inTime
         /\ results[i] = ComparedResult(Vector(i), o)

(* What a pass means with a catalog: the subject is an implementation that  *)
(* no fixture spoke for, its every selected feature has rows in the matrix, *)
(* and every vector the catalog applies to it was observed, in this run and *)
(* in time, exactly as expected.                                           *)
EarnedUnder(c) ==
  /\ subject.kind = "implementation" /\ ~bundled
  /\ \A f \in subject.features : \E r \in Range(c.requirements) :
       r.applies = [kind |-> "feature", value |-> f] /\ r.profile = subject.profile
  /\ \A v \in Range(c.vectors) :
       (\E r \in Range(c.requirements) :
          r.profile = subject.profile /\ v.id \in Range(r.vectors) /\ Applies(r, subject))
         /\ v.role \in {None, subject.role}
       => \E i \in DOMAIN results : \E o \in Range(observations) :
            /\ <<"probe", i, o>> \in inTime
            /\ o.bound = Binding(subject)
            /\ Matches(v, o)

(* A report of run_suite that says pass has earned it with the catalog the  *)
(* run had loaded.                                                         *)
PassIsEarned ==
  report # None /\ report.summary.verdict = "pass" => EarnedUnder(Loaded)

(* No process of an exchange that is over is still alive, not even one the  *)
(* executable left in its group: nothing can touch the next exchange.      *)
NoStragglers == alive \subseteq (IF Exchanging THEN {Exchange} ELSE {})

(* A report is only given while the source tree holds the catalog that it   *)
(* names, and that is the catalog the whole run used, unless the tree was    *)
(* changed and changed back while it was read: one change never goes unseen. *)
ReportsBindOneCatalog ==
  [][report' # report => /\ report'.catalog = disk
                         /\ catalog = disk \/ edits > 1]_vars

(* A report that somebody edited in one of the ways of EditedReports, and   *)
(* that verify-report accepts as a pass, is a pass that the run itself has   *)
(* earned with the catalog the verification used; that is the catalog the    *)
(* report names, unless the tree was changed and changed back; and if the    *)
(* run used it too, the run passed, with this plan.                        *)
NoForgedPass ==
  checked # None /\ checked.accepted # None /\ checked.accepted.summary.verdict = "pass" =>
    /\ checked.accepted.subject = subject
    /\ EarnedUnder(Catalogs[checked.used])
    /\ checked.used = checked.accepted.catalog \/ edits > 1
    /\ checked.used = catalog =>
         report.summary.verdict = "pass" /\ checked.accepted.plan = report.plan

(* What the conformance documentation says of a report: it is about the     *)
(* exact catalog that its digest names.  The digests before and after the    *)
(* loading are compared, and not what was loaded in between.               *)
ReportsAreOfTheirCatalog == report # None => catalog = report.catalog

(* What a subject or a claim may select.                                   *)
Selections(c) ==
  {s \in [profile : Range(Profiles), role : {None, "application", "runtime"},
          features : SUBSET DOMAIN c.features] :
     s.role # None <=> s.profile = ReceiptProfile}

PlannedAsRun(c) ==
  /\ \A s \in Selections(c) : Conflicting(c, s) = {}
  /\ \A b \in Range(c.bundles) : \A claim \in Range(b.claims) :
       (\A id \in Range(claim.vectors) : RoleFits(c, claim, id))
         => claim.vectors = Applicable(c, claim)

(* The loaded catalog gives no selection conflicting rows, and a bundle     *)
(* plans, in this order, the vectors that a run of its claim's profile, role *)
(* and features applies.  The validation does not look at the roles of the  *)
(* vectors a claim lists: this is said of the claims whose vectors are for  *)
(* any producer or for the claim's own.                                    *)
PlansAreRun ==
  [][catalog' # catalog => \/ catalog' = None
                           \/ PlannedAsRun(Catalogs[catalog'])]_vars
=============================================================================
