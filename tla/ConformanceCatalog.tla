------------------------- MODULE ConformanceCatalog -------------------------
(****************************************************************************)
(* The conformance catalog: which documents validate_catalog accepts, and   *)
(* which vectors an accepted catalog makes a subject answer.                *)
(*                                                                          *)
(* A catalog is a record of the suite's requirements, profiles and          *)
(* features, the vectors, the fixtures with their mutations, and the        *)
(* adoption bundles.  Lists whose order the code compares are sequences;    *)
(* feature selections are sets.  A fixture's projections are "absent",      *)
(* "valid" or "invalid": what makes one valid is the matter of its own      *)
(* validator.  None stands for a member that is absent.                     *)
(****************************************************************************)
EXTENDS Naturals, SequencesExt, Listing

CONSTANTS None

Profiles == <<"surface-publisher", "grant-issuer", "action-executor",
              "receipt-producer", "runtime-mediator", "agent-adapter">>
ReceiptProfile == "receipt-producer"
Polarities == {"positive", "negative"}

Column(items, field) == [i \in DOMAIN items |-> items[i][field]]
TheOne(items, field, x) == CHOOSE item \in Range(items) : item[field] = x

FixtureOf(c, v) ==
  TheOne(c.fixtures, "baseline", IF v.baseline = None THEN v.id ELSE v.baseline)
MutationOf(c, v) == TheOne(c.mutations, "variant", v.variant)

(***************************** the matrix **********************************)

(* One version for the five documents, and no identifier twice.            *)
IdentifiersUnique(c) ==
  /\ \A d \in DOMAIN c.versions : \A e \in DOMAIN c.versions : c.versions[d] = c.versions[e]
  /\ DOMAIN c.profiles = Range(Profiles)
  /\ \A key \in {<<c.requirements, "id">>, <<c.vectors, "id">>,
                 <<c.fixtures, "id">>, <<c.fixtures, "baseline">>,
                 <<c.mutations, "id">>, <<c.mutations, "variant">>,
                 <<c.bundles, "id">>} :
       IsInjective(Column(key[1], key[2]))

RequirementsResolve(c) ==
  \A r \in Range(c.requirements) :
    /\ r.profile \in Range(Profiles)
    /\ r.anchor \in c.anchors
    /\ r.applies.kind = "feature" => r.applies.value \in DOMAIN c.features
    /\ r.applies.kind = "producer_role" => r.profile = ReceiptProfile
    /\ IsInjective(r.vectors)
    /\ Range(r.vectors) \subseteq Range(Column(c.vectors, "id"))

(* ids names these rows, each at its place among them.                     *)
InMatrixOrder(c, ids, rows) ==
  /\ Len(ids) = Cardinality(rows)
  /\ \A i \in rows : ids[Cardinality({j \in rows : j <= i})] = c.requirements[i].id

(* Profiles and features list their requirements in matrix order.          *)
MatrixOrdered(c) ==
  /\ \A p \in DOMAIN c.profiles :
       InMatrixOrder(c, c.profiles[p], {i \in DOMAIN c.requirements : c.requirements[i].profile = p})
  /\ \A f \in DOMAIN c.features :
       InMatrixOrder(c, c.features[f],
                     {i \in DOMAIN c.requirements :
                        c.requirements[i].applies = [kind |-> "feature", value |-> f]})

RowsNaming(c, v) ==
  {i \in DOMAIN c.requirements : v.id \in Range(c.requirements[i].vectors)}

(* Mutant: the rows of a vector may apply to different subjects.           *)
RowsShareProfile(rows, v) == \A r \in rows : r.profile = v.profile /\ r.class = v.class

(* The rows that name a vector agree on when, for whom and how it runs.    *)
RowsAgree(rows, v) ==
  /\ Cardinality({r.applies : r \in rows}) = 1
  /\ \A r \in rows : r.profile = v.profile /\ r.class = v.class

(* A vector has a fixture and a mutation, names exactly the requirements    *)
(* that name it, and selects the features these are about.                 *)
VectorMatchesMatrix(c, v) ==
  LET rows == {c.requirements[i] : i \in RowsNaming(c, v)} IN
  /\ v.profile \in Range(Profiles)
  /\ v.profile # ReceiptProfile => v.role = None
  /\ \E f \in Range(c.fixtures) :
       f.baseline = IF v.baseline = None THEN v.id ELSE v.baseline
  /\ \E m \in Range(c.mutations) : m.variant = v.variant
  /\ InMatrixOrder(c, v.requirements, RowsNaming(c, v))
  /\ RowsAgree(rows, v)
  /\ v.features \subseteq DOMAIN c.features
  /\ \A r \in rows : r.applies.kind = "feature" => r.applies.value \in v.features

(* A negative vector refers to a positive one of the same role.            *)
PolarityGrounded(c, v) ==
  /\ v.polarity = "positive" <=> v.baseline = None
  /\ v.polarity = "negative" =>
       \E b \in Range(c.vectors) :
         /\ b.id = v.baseline
         /\ b.polarity = "positive"
         /\ b.profile = v.profile
         /\ b.role = v.role
  /\ v.required \cap v.forbidden = {}
  /\ IsInjective(Column(v.deltas, "state"))

PolaritiesCovered(c) ==
  /\ \A p \in Range(Profiles) :
       {v.polarity : v \in {w \in Range(c.vectors) : w.profile = p}} = Polarities
  /\ \A role \in {"application", "runtime"} :
       {v.polarity : v \in {w \in Range(c.vectors) :
                              w.profile = ReceiptProfile /\ w.role = role}} = Polarities

(***************** feature, setup, operation, projection *******************)

Carriers == {"ahp", "mcp", "elicitation"}
CarrierOperations ==
  [ahp |-> {"present_ahp_session", "translate_ahp_action"},
   mcp |-> {"issue_mcp_grant", "publish_mcp_surface", "execute_mcp_action",
            "mediate_mcp_action", "adapt_mcp_action"},
   elicitation |-> {"mediate_human_elicitation", "apply_human_elicitation_candidate",
                    "project_human_elicitation_answer"}]

(* For a carrier the operation, the setup marker, the feature and the       *)
(* fixture's projection stand or fall together; the channel is              *)
(* authenticated, except before an MCP Grant is issued.                     *)
CarriersConsistent(v, f) ==
  /\ \A k \in Carriers :
       LET used == v.operation \in CarrierOperations[k] IN
       /\ <<k, "selected">> \in v.setup <=> used
       /\ k \in v.features <=> used
       /\ f.projections[k] # "absent" <=> used
       /\ used => /\ f.projections[k] = "valid"
                  /\ <<k, "channel">> \in v.setup <=> v.operation # "issue_mcp_grant"
  /\ v.operation = "project_human_elicitation_answer" => f.projections.agent = "valid"
  /\ v.operation \in CarrierOperations.elicitation \ {"project_human_elicitation_answer"}
       => f.projections.agent = "absent"

RiskConsistent(v, f) ==
  LET renders == v.operation = "render_risk_explanation" IN
  /\ "risk" \in v.features <=> f.projections.risk # "absent"
  /\ renders <=> <<"risk", "selected">> \in v.setup
  /\ renders => "risk" \in v.features
  /\ "risk" \in v.features =>
       /\ \/ v.operation = "publish_manifest" /\ v.profile = "surface-publisher"
          \/ renders /\ v.profile = "runtime-mediator"
       /\ f.projections.risk = "valid"

(* A mutation that copies the simulation result into a Grant or an action   *)
(* is itself a use of the feature.                                          *)
ImpactConsistent(v, f, m) ==
  LET exercised ==
        \/ v.operation = "simulate_impact"
        \/ /\ v.operation \in {"mediate_grant", "mediate_action"}
           /\ \E i \in DOMAIN m.patch : m.patch[i].op = "copy" IN
  /\ "impact" \in v.features <=> f.projections.impact # "absent"
  /\ "impact" \in v.features <=> exercised
  /\ <<"impact", "selected">> \in v.setup <=> exercised
  /\ exercised => v.profile = "runtime-mediator" /\ f.projections.impact = "valid"

PurposeOperations ==
  [p \in Range(Profiles) |->
     CASE p = "surface-publisher" -> {"publish_manifest"}
       [] p = "grant-issuer" -> {"issue_grant"}
       [] p = "action-executor" -> {"invoke_action", "replay_action"}
       [] p = "runtime-mediator" -> {"mediate_grant"}
       [] OTHER -> {}]

PurposeConsistent(v, f) ==
  LET bound == "purpose" \in v.features IN
  /\ bound <=> f.projections.purpose # "absent"
  /\ bound <=> <<"purpose", "selected">> \in v.setup
  /\ bound => /\ v.operation \in PurposeOperations[v.profile]
              /\ <<"purpose", "records">> \in v.setup
              /\ f.projections.purpose = "valid"

(****************************** HTTP capacity ******************************)

(* What a response promises and what its HTTP projection says must agree:   *)
(* the status follows the code, and a Retry-After only repeats the body.    *)
HttpAgrees(transport, response) ==
  /\ transport.status = IF response.code = "rate_limited" THEN 429 ELSE 503
  /\ transport.no_store
  /\ transport.retry_after # None =>
       /\ response.retryable
       /\ response.code = "rate_limited" =>
            /\ transport.retry_after.form = "delay_seconds"
            /\ response.retry_after = transport.retry_after.value

(* The loop over the vectors keeps the operational state of the last vector *)
(* that had one in a local variable of the loop's function.                 *)
LastOperational(c, i) ==
  LET bound == {j \in 1..i : "operational" \in c.vectors[j].features} IN
  IF bound = {} THEN None ELSE FixtureOf(c, c.vectors[Max(bound)]).operational

OperationalConsistent(v, f) ==
  /\ "operational" \in v.features <=> f.operational # None
  /\ f.operational # None => f.operational.disclosure_safe

HttpConsistent(c, i) ==
  LET v == c.vectors[i]
      f == FixtureOf(c, v)
      state == LastOperational(c, i)
      answered == state # None /\ state.capacity # None IN
  /\ <<"http", "selected">> \in v.setup <=>
       v.operation \in {"bind_http_capacity_response", "handle_http_capacity_response"}
  /\ v.operation = "handle_http_capacity_response" <=> f.transport # None
  /\ v.operation = "handle_http_capacity_response" =>
       answered /\ HttpAgrees(f.transport, state.capacity)
  /\ v.operation = "bind_http_capacity_response" =>
       /\ answered
       /\ HttpAgrees([status |-> IF state.capacity.code = "rate_limited" THEN 429 ELSE 503,
                      no_store |-> TRUE, retry_after |-> state.hint], state.capacity)
  /\ v.operation # "bind_http_capacity_response" /\ "operational" \in v.features =>
       state.hint = None

(***************************** applicability *******************************)

Applies(r, s) ==
  \/ r.applies.kind = "always"
  \/ r.applies.kind = "feature" /\ r.applies.value \in s.features
  \/ r.applies.kind = "producer_role" /\ r.applies.value = s.role

(* Where a profile's rows name vectors: the row, and the place in it.       *)
RowAt(c, p, i) == TheOne(c.requirements, "id", c.profiles[p][i])
VectorAt(c, p, at) == RowAt(c, p, at[1]).vectors[at[2]]
Places(c, p) ==
  UNION {{<<i, j>> : j \in DOMAIN RowAt(c, p, i).vectors} : i \in DOMAIN c.profiles[p]}
Earlier(places) ==
  {x \in places \X places : \/ x[1][1] < x[2][1]
                            \/ x[1][1] = x[2][1] /\ x[1][2] < x[2][2]}

(* The places where a vector is met for the first time, in their order.     *)
FirstPlaces(c, p, places) ==
  LET earlier == Earlier(places) IN
  {x \in places : ~\E y \in places : /\ <<y, x>> \in earlier
                                     /\ VectorAt(c, p, y) = VectorAt(c, p, x)}
Listed(c, p, places) ==
  LET first == FirstPlaces(c, p, places) IN InOrder(first, Earlier(first))
VectorsListed(c, p, places) ==
  LET order == Listed(c, p, places) IN [k \in DOMAIN order |-> VectorAt(c, p, order[k])]

RoleFits(c, s, id) == TheOne(c.vectors, "id", id).role \in {None, s.role}
AppliedPlaces(c, s) ==
  {x \in Places(c, s.profile) : /\ RoleFits(c, s, VectorAt(c, s.profile, x))
                                /\ Applies(RowAt(c, s.profile, x[1]), s)}
SkippedPlaces(c, s) == Places(c, s.profile) \ AppliedPlaces(c, s)

Applicable(c, s) == VectorsListed(c, s.profile, AppliedPlaces(c, s))
NotApplicable(c, s) ==
  LET order == Listed(c, s.profile, SkippedPlaces(c, s)) IN
  [k \in DOMAIN order |->
     [vector |-> VectorAt(c, s.profile, order[k]),
      reason |-> IF /\ RoleFits(c, s, VectorAt(c, s.profile, order[k]))
                    /\ RowAt(c, s.profile, order[k][1]).applies.kind = "feature"
                 THEN "feature_not_selected" ELSE "producer_role_mismatch"]]
Conflicting(c, s) ==
  Range(Applicable(c, s)) \cap Range(Column(NotApplicable(c, s), "vector"))
Uncovered(c, s) ==
  {f \in s.features : ~\E r \in Range(c.requirements) :
                          r.profile = s.profile /\ r.applies = [kind |-> "feature", value |-> f]}

SubjectValid(c, s) ==
  /\ s.profile \in DOMAIN c.profiles
  /\ s.protocol = c.protocol
  /\ s.features \subseteq DOMAIN c.features
  /\ s.role # None <=> s.profile = ReceiptProfile

(******************************** bundles **********************************)

(* The requirements and vectors a claim must list.                         *)
ClaimRequirements(c, claim) ==
  SelectSeq(c.profiles[claim.profile],
            LAMBDA id : Applies(TheOne(c.requirements, "id", id), claim))
ClaimVectors(c, claim) ==
  VectorsListed(c, claim.profile,
                {x \in Places(c, claim.profile) : Applies(RowAt(c, claim.profile, x[1]), claim)})

ClaimClosed(c, claim) ==
  /\ claim.profile \in DOMAIN c.profiles
  /\ claim.features \subseteq DOMAIN c.features
  /\ Uncovered(c, claim) = {}
  /\ claim.requirements = ClaimRequirements(c, claim)
  /\ claim.vectors = ClaimVectors(c, claim)
  /\ {TheOne(c.vectors, "id", id).polarity : id \in Range(claim.vectors)} = Polarities

ClaimRank(claim) ==
  3 * (CHOOSE i \in DOMAIN Profiles : Profiles[i] = claim.profile)
    + (IF claim.role = None THEN 0 ELSE IF claim.role = "application" THEN 1 ELSE 2)

BundlesValid(c) ==
  /\ \A b \in Range(c.bundles) :
       /\ \A claim \in Range(b.claims) : ClaimClosed(c, claim)
       /\ \A i, j \in DOMAIN b.claims :
            i < j => ClaimRank(b.claims[i]) < ClaimRank(b.claims[j])
  /\ IsInjective(Column(c.bundles, "claims"))
  /\ Range(Column(c.bundles, "kind")) = {"foundation", "feature_overlay"}

FixturesUsed(c) ==
  /\ Range(c.fixtures) = {FixtureOf(c, v) : v \in Range(c.vectors)}
  /\ Range(c.mutations) = {MutationOf(c, v) : v \in Range(c.vectors)}

(* What _semantic_validate_catalog accepts.                                *)
CatalogValid(c) ==
  /\ IdentifiersUnique(c)
  /\ RequirementsResolve(c)
  /\ MatrixOrdered(c)
  /\ \A i \in DOMAIN c.vectors :
       LET v == c.vectors[i] IN
       /\ VectorMatchesMatrix(c, v)
       /\ OperationalConsistent(v, FixtureOf(c, v))
       /\ HttpConsistent(c, i)
       /\ CarriersConsistent(v, FixtureOf(c, v))
       /\ RiskConsistent(v, FixtureOf(c, v))
       /\ ImpactConsistent(v, FixtureOf(c, v), MutationOf(c, v))
       /\ PurposeConsistent(v, FixtureOf(c, v))
       /\ PolarityGrounded(c, v)
  /\ PolaritiesCovered(c)
  /\ BundlesValid(c)
  /\ FixturesUsed(c)
=============================================================================
