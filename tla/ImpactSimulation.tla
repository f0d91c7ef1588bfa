-------------------------- MODULE ImpactSimulation --------------------------
(****************************************************************************)
(* The Impact Simulation Result: what a Runtime shows a user of a Grant     *)
(* that is not yet issued, and when such a result is accepted.              *)
(*                                                                          *)
(* A result is never believed: everything it says is derived again from the *)
(* manifest's declarations, the candidate checks and the deadlines, and     *)
(* compared.  Sorted lists without repetition are sets here; a list whose   *)
(* order the code compares (the examples) is a sequence.  A check's reason  *)
(* code stands for the check itself; a hash for what it hashes.             *)
(****************************************************************************)
EXTENDS Integers, FiniteSetsExt, SequencesExt, Listing

CONSTANTS
  None,
  ShownLimit,     \* how many actions that nobody requested are shown
  ActionOrder     \* the actions in the order of their names

Risks == <<"read", "propose", "write", "public_side_effect", "external_side_effect",
           "financial_side_effect", "destructive", "privileged">>
Rank(risk) == CHOOSE i \in DOMAIN Risks : Risks[i] = risk
StateChanging == {"reserve", "commit", "compensate", "revert"}
Recovering == {"compensate", "revert"}

(***************************** declarations ********************************)

(* The lowest risk an effect permits.                                      *)
EffectFloor(e) ==
  Max({Rank("write")}
      \cup {Rank("public_side_effect") : x \in {"public"} \cap {e.visibility}}
      \cup {Rank("external_side_effect") : x \in {"external"} \cap {e.boundary}}
      \cup {Rank("financial_side_effect") : x \in {"financial"} \cap {e.domain}}
      \cup {Rank("privileged") :
              x \in {"security", "identity", "authorization"} \cap {e.domain}}
      \cup {Rank("destructive") :
              x \in {y \in {e.operation} : /\ y \in {"delete", "revoke"}
                                           /\ e.reversibility = "irreversible"}})

RiskCovered(d) ==
  /\ Rank(d.risk) >= Rank(IF d.mode \in StateChanging THEN "write" ELSE "read")
  /\ \A x \in DOMAIN d.effects : Rank(d.risk) >= EffectFloor(d.effects[x])

DeclarationShape(id, d) ==
  /\ id \notin d.companions
  /\ d.mode \in StateChanging <=> DOMAIN d.effects # {}
  /\ d.recovery # {} => d.mode = "commit"
  /\ d.mode \in Recovering <=> d.targets # {}
  /\ RiskCovered(d)

RelationshipsShape(id, d) ==
  /\ \A r \in d.recovery :
       /\ r.mode \in Recovering
       /\ r.action # id
       /\ r.window >= 1
       /\ r.effects # {} /\ r.effects \subseteq DOMAIN d.effects
  /\ \A t \in d.targets : t.action # id /\ t.window >= 1 /\ t.effects # {}

Reversible(d, how) == {x \in DOMAIN d.effects : d.effects[x].reversibility = how}
CoveredBy(d, mode) == UNION {r.effects : r \in {q \in d.recovery : q.mode = mode}}

(* Companions and recovery stay inside an operation; a recovery action and  *)
(* the action it recovers name each other with the same effects and window. *)
DeclarationResolves(m, id) ==
  LET d == m[id]
      near(other) == other \in DOMAIN m /\ m[other].operation = d.operation IN
  /\ \A c \in d.companions : near(c)
  /\ \A r \in d.recovery :
       /\ near(r.action) /\ m[r.action].mode = r.mode
       /\ [action |-> id, effects |-> r.effects, window |-> r.window] \in m[r.action].targets
       /\ \A x \in r.effects :
            IF r.mode = "revert"
            THEN d.effects[x].reversibility = "reversible" /\ d.effects[x].boundary = "internal"
            ELSE d.effects[x].reversibility = "compensatable"
  /\ d.mode = "commit" => /\ Reversible(d, "reversible") = CoveredBy(d, "revert")
                          /\ Reversible(d, "compensatable") = CoveredBy(d, "compensate")
  /\ \A t \in d.targets :
       /\ near(t.action) /\ m[t.action].mode = "commit"
       /\ [mode |-> d.mode, action |-> id, effects |-> t.effects, window |-> t.window]
            \in m[t.action].recovery

ManifestValid(m) ==
  /\ DOMAIN m # {}
  /\ \A id \in DOMAIN m : DeclarationShape(id, m[id]) /\ RelationshipsShape(id, m[id])
  /\ \A id \in DOMAIN m : DeclarationResolves(m, id)

(* Mutant: only the companions an action names itself.                     *)
CompanionsNamed(m, id) == m[id].companions \ {id}

(* The companions of the companions; the action itself is never one.       *)
CompanionClosure(m, id) ==
  LET Grown[n \in 0..Cardinality(DOMAIN m)] ==
        IF n = 0 THEN m[id].companions \ {id}
        ELSE Grown[n - 1] \cup ((UNION {m[c].companions : c \in Grown[n - 1]}) \ {id})
  IN Grown[Cardinality(DOMAIN m)]

Limitations(d) ==
  {l \in {"irreversible", "external_outcome_may_be_unknown", "recovery_window_limited",
          "no_recovery_action"} :
     CASE l = "irreversible" -> Reversible(d, "irreversible") # {}
       [] l = "external_outcome_may_be_unknown" ->
            \E x \in DOMAIN d.effects : d.effects[x].boundary = "external"
       [] l = "recovery_window_limited" -> d.recovery # {}
       [] OTHER -> d.recovery = {} /\ d.mode = "commit" /\ DOMAIN d.effects # {}}

(* What a result must say of an action.                                    *)
DerivedAction(m, id, requested) ==
  LET d == m[id] IN
  [action |-> id, scope |-> d.scope, mode |-> d.mode, risk |-> d.risk,
   approval |-> d.approval, companions |-> CompanionClosure(m, id), effects |-> d.effects,
   recovery |-> [available |-> {r.action : r \in d.recovery} \cap requested,
                 limitations |-> Limitations(d)]]

(* The check every derived action passes again.                            *)
ActionFits(a) ==
  /\ a.mode \in StateChanging => DOMAIN a.effects # {}
  /\ a.mode \notin StateChanging => /\ DOMAIN a.effects = {}
                                    /\ a.recovery.available = {}
                                    /\ a.recovery.limitations = {}

(**************************** candidate checks *****************************)

IndeterminateChecks ==
  {"identity_evidence_profile", "identity_evidence_status", "required_input",
   "runtime_attestation_availability", "runtime_identity_availability"}
DefinitiveChecks ==
  {"adapter", "approval", "capability", "data_exposure", "effect", "execution_stage",
   "identity_evidence_integrity", "identity_evidence_presence", "policy", "recovery",
   "remote_processing", "retention", "risk", "runtime_attestation_support",
   "runtime_identity_integrity", "sandbox", "schema", "scope", "training_use"}
CoreChecks == IndeterminateChecks \cup DefinitiveChecks

(* Every core check is there and about the kind of thing it checks; a check *)
(* that is not of the core decides nothing for sure.                        *)
ChecksValid(checks) ==
  /\ CoreChecks \subseteq DOMAIN checks
  /\ \A id \in CoreChecks : checks[id].fitting

Blocking(checks, definitive) ==
  {id \in DOMAIN checks : /\ checks[id].state = "blocking"
                          /\ (id \in DefinitiveChecks) = definitive}
Decision(checks) ==
  [status |-> IF Blocking(checks, TRUE) # {} THEN "incompatible"
              ELSE IF Blocking(checks, FALSE) # {} THEN "indeterminate" ELSE "compatible",
   reasons |-> {<<id, checks[id].state>> :
                  id \in {x \in DOMAIN checks : checks[x].state # "satisfied"}}]
Outcome(checks) ==
  CASE Decision(checks).status = "incompatible" ->
         [outcome |-> "not_covered", reasons |-> Blocking(checks, TRUE)]
    [] Decision(checks).status = "indeterminate" ->
         [outcome |-> "indeterminate", reasons |-> Blocking(checks, FALSE)]
    [] OTHER -> [outcome |-> "covered", reasons |-> {}]

(* The candidate a capability match retained is the one derived again.     *)
CandidateMatches(matched, checks, bindings) ==
  IF bindings.match = None THEN matched = None
  ELSE matched = [bindings |-> bindings, delegate |-> bindings.delegate,
                  request |-> bindings.request, decision |-> Decision(checks)]

(******************************** freshness ********************************)

RequiredDeadlines ==
  {"identity_evidence_status", "agent_inventory", "adapter_inventory", "local_policy",
   "local_maximum"}
Deadlines ==
  RequiredDeadlines \cup {"capability_match", "enterprise_policy", "user_preferences",
                          "runtime_identity", "runtime_attestation"}

BindingsCurrent(result, source, current) ==
  result.bindings = source.bindings /\ current = result.bindings

(* Mutant: a result may still be shown at the moment it ends.              *)
ResultCurrentInclusive(result, source, now) ==
  LET given == {source.deadlines[n] : n \in Deadlines} \ {None} IN
  /\ result.evaluated <= now /\ now <= result.valid_until
  /\ result.valid_until <= Min(given)

ResultCurrent(result, source, now) ==
  LET given == {source.deadlines[n] : n \in Deadlines} \ {None} IN
  /\ result.evaluated < result.valid_until
  /\ result.evaluated <= now /\ now < result.valid_until
  /\ \A t \in given : t > result.evaluated
  /\ \A n \in RequiredDeadlines : source.deadlines[n] # None
  /\ result.valid_until <= Min(given)

MatchCurrent(result, source, now) ==
  LET match == result.bindings.match IN
  IF match = None THEN source.deadlines["capability_match"] = None
  ELSE /\ source.deadlines["capability_match"] = match.valid_until
       /\ match.evaluated < match.valid_until
       /\ match.evaluated <= result.evaluated
       /\ match.evaluated <= now /\ now < match.valid_until
       /\ result.valid_until <= match.valid_until

(* A deadline is there exactly when what it bounds is.                     *)
DeadlinesPresent(result, source) ==
  /\ result.bindings.enterprise = None <=> source.deadlines["enterprise_policy"] = None
  /\ result.bindings.preferences = None <=> source.deadlines["user_preferences"] = None
  /\ \A n \in {"runtime_identity", "runtime_attestation"} :
       LET check == IF n = "runtime_identity" THEN "runtime_identity_availability"
                                              ELSE "runtime_attestation_availability" IN
       source.checks[check].state = "blocking" <=> source.deadlines[n] = None

(******************************** the result *******************************)

RequestClosed(source) ==
  /\ source.requested # {} /\ source.requested \subseteq DOMAIN source.manifest
  /\ \A id \in source.requested :
       /\ source.manifest[id].scope \in source.scopes
       /\ CompanionClosure(source.manifest, id) \subseteq source.requested

Place(id) == CHOOSE i \in DOMAIN ActionOrder : ActionOrder[i] = id
ByName(ids) == {p \in ids \X ids : Place(p[1]) < Place(p[2])}
RiskiestFirst(m, ids) ==
  {p \in ids \X ids :
     \/ Rank(m[p[1]].risk) > Rank(m[p[2]].risk)
     \/ m[p[1]].risk = m[p[2]].risk /\ p \in ByName(ids)}

Named(ids) == InOrder(ids, ByName(ids))

(* Mutant: the unrequested actions that are shown are the first by name.   *)
UnrequestedByName(source) ==
  LET ids == Named(DOMAIN source.manifest \ source.requested) IN
  SubSeq(ids, 1, Min({ShownLimit, Len(ids)}))

(* The unrequested actions that are shown: the riskiest, then by name.     *)
Unrequested(source) ==
  LET ids == DOMAIN source.manifest \ source.requested
      ordered == InOrder(ids, RiskiestFirst(source.manifest, ids)) IN
  SubSeq(ordered, 1, Min({ShownLimit, Len(ordered)}))

Coverage(source) ==
  LET others == Cardinality(DOMAIN source.manifest \ source.requested) IN
  [requested |-> Cardinality(source.requested), unrequested |-> others,
   included |-> Len(Unrequested(source)), truncated |-> others > Len(Unrequested(source))]

Examples(source) ==
  LET requested == Named(source.requested)
      example(id) ==
        [relation |-> IF id \in source.requested THEN "requested" ELSE "unrequested",
         action |-> DerivedAction(source.manifest, id, source.requested),
         outcome |-> IF id \in source.requested THEN Outcome(source.checks).outcome
                                                ELSE "not_covered",
         reasons |-> IF id \in source.requested THEN Outcome(source.checks).reasons
                                                ELSE {"action_not_requested"}]
      ids == requested \o Unrequested(source) IN
  [i \in DOMAIN ids |-> example(ids[i])]

ImpactValid(result, source, current, now) ==
  /\ BindingsCurrent(result, source, current)
  /\ ResultCurrent(result, source, now)
  /\ MatchCurrent(result, source, now)
  /\ ManifestValid(source.manifest)
  /\ \A id \in DOMAIN source.manifest :
       ActionFits(DerivedAction(source.manifest, id, source.requested))
  /\ ChecksValid(source.checks)
  /\ CandidateMatches(source.matched, source.checks, result.bindings)
  /\ DeadlinesPresent(result, source)
  /\ RequestClosed(source)
  /\ result.coverage = Coverage(source)
  /\ result.examples = Examples(source)

(* A Runtime shows the result before anything is issued, for the surface    *)
(* and the request the Grant proposes; the result is part of neither.       *)
ImpactProjectionValid(result, source, current, now, surface, grant) ==
  /\ grant.phase = "pre_issuance" /\ ~grant.embedded
  /\ surface.current /\ result.bindings.surface = surface.version
  /\ source.requested = grant.requested /\ source.scopes = grant.scopes
  /\ grant.status = "proposed" /\ grant.issued = {} /\ grant.closed
  /\ ImpactValid(result, source, current, now)
=============================================================================
