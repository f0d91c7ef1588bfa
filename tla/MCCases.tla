------------------------------- MODULE MCCases -----------------------------
(****************************************************************************)
(* Small worlds for ConformanceCases: for every kind the records it begins  *)
(* with, the documents its other parties write honestly from those records, *)
(* and the same documents with a member or two changed.                     *)
(****************************************************************************)
EXTENDS ConformanceCases

Varied(doc, field, values) == {[doc EXCEPT ![field] = x] : x \in values}

(********************************** impact *********************************)

Effect(op, boundary, reversibility) ==
  [operation |-> op, visibility |-> "private", boundary |-> boundary,
   reversibility |-> reversibility, domain |-> "data"]
Plain(mode, risk, companions) ==
  [scope |-> "all", operation |-> "edit", mode |-> mode, risk |-> risk, approval |-> "user",
   companions |-> companions, effects |-> <<>>, recovery |-> {}, targets |-> {}]

(* read needs list, list needs session; write can be undone by undo.       *)
MCManifest ==
  [read |-> Plain("read", "read", {"list"}),
   list |-> Plain("read", "read", {"session"}),
   session |-> Plain("propose", "propose", {}),
   write |-> [Plain("commit", "privileged", {"read"}) EXCEPT
                !.effects = [e1 |-> Effect("update", "internal", "reversible"),
                             e2 |-> Effect("delete", "external", "irreversible")],
                !.recovery = {[mode |-> "revert", action |-> "undo", effects |-> {"e1"},
                               window |-> 1]}],
   undo |-> [Plain("revert", "write", {}) EXCEPT
               !.effects = [e1 |-> Effect("update", "internal", "irreversible")],
               !.targets = {[action |-> "write", effects |-> {"e1"}, window |-> 1]}]]

MCActionOrder == <<"list", "read", "session", "undo", "write">>

(* Declarations that do not fit together.                                  *)
MCManifests ==
  {MCManifest,
   [MCManifest EXCEPT !["write"].recovery = {}],
   [MCManifest EXCEPT !["undo"].targets = {[action |-> "write", effects |-> {"e2"}, window |-> 1]}],
   [MCManifest EXCEPT !["write"].risk = "write"],
   [MCManifest EXCEPT !["undo"].operation = "other"]}

MCRequested ==
  {{"read", "list"}, {"read", "list", "session"}, {"session"},
   {"write", "read", "list", "session"}, DOMAIN MCManifest}

MCChecks == [c \in Impact!CoreChecks |-> [state |-> "satisfied", fitting |-> TRUE]]
MCBindings(match) ==
  [delegate |-> "d", request |-> 1, match |-> match, surface |-> 1,
   enterprise |-> None, preferences |-> None]
MCMatch == [evaluated |-> 0, valid_until |-> 3]

ImpactRecords ==
  {[now |-> 1,
    source |-> [bindings |-> MCBindings(match), manifest |-> m, requested |-> q,
                scopes |-> {"all"}, checks |-> MCChecks,
                deadlines |-> [n \in Impact!Deadlines |->
                   CASE n = "capability_match" -> IF match = None THEN None ELSE match.valid_until
                     [] n \in {"enterprise_policy", "user_preferences"} -> None
                     [] n = "local_policy" -> IF match = None THEN 3 ELSE 4
                     [] OTHER -> 5],
                matched |-> IF match = None THEN None
                            ELSE [bindings |-> MCBindings(match), delegate |-> "d", request |-> 1,
                                  decision |-> Impact!Decision(MCChecks)]],
    current |-> MCBindings(match),
    surface |-> [current |-> TRUE, version |-> 1],
    grant |-> [phase |-> "pre_issuance", embedded |-> FALSE, requested |-> q, scopes |-> {"all"},
               status |-> "proposed", issued |-> {}, closed |-> TRUE]] :
     m \in MCManifests, q \in MCRequested, match \in {None, MCMatch}}

(* The result a Runtime derives, and results that promise or hide more.    *)
ImpactDocuments(r) ==
  LET given == {r.source.deadlines[n] : n \in DOMAIN r.source.deadlines} \ {None}
      honest == [bindings |-> r.source.bindings, evaluated |-> r.now,
                 valid_until |-> CHOOSE t \in given : \A u \in given : t <= u,
                 coverage |-> Impact!Coverage(r.source), examples |-> Impact!Examples(r.source)] IN
  {honest}
  \cup Varied(honest, "valid_until", {r.now + 1, honest.valid_until + 1})
  \cup {[honest EXCEPT !.coverage.truncated = ~@], [honest EXCEPT !.examples = Tail(@)],
        [honest EXCEPT !.examples = Reverse(@)],
        [honest EXCEPT !.examples[1].outcome = "covered"],
        [honest EXCEPT !.examples[1].action.companions = {}],
        [honest EXCEPT !.examples[1].action.recovery.available = {"undo"}]}

Blocked(r, c) == [r EXCEPT !.source.checks[c].state = "blocking"]
ImpactChanges(r) ==
  {[r EXCEPT !.now = @ + 1], Blocked(r, "policy"),
   [r EXCEPT !.source.requested = DOMAIN r.source.manifest,
             !.grant.requested = DOMAIN r.source.manifest],
   [r EXCEPT !.current.surface = 2, !.surface.version = 2],
   [r EXCEPT !.grant.status = "issued", !.grant.issued = @ \cup r.grant.requested],
   [Blocked(r, "runtime_identity_availability") EXCEPT !.source.deadlines["runtime_identity"] = None]}

(******************************* elicitation *******************************)

AX == <<"a", "x">>
AY == <<"a", "y">>
A == <<"a">>
B == <<"b">>
MCBase == [p \in {AX, AY, B} |-> 1]
MCInputs == UNION {[D -> {1, 2}] : D \in {{AX, AY, B}, {AX, B}, {AY, B}, {A, B}, {AX, AY}, {B}}}
MCSchema == [closed |-> TRUE, accepts |-> {d \in MCInputs : B \in DOMAIN d}]

Op(op, path, value) == [op |-> op, path |-> path, value |-> value]
MCPatches ==
  {<<Op("replace", AX, 2)>>, <<Op("remove", AX, None)>>, <<Op("add", AX, 1)>>,
   <<Op("remove", A, None)>>, <<Op("replace", A, 2)>>, <<Op("replace", B, 2)>>,
   <<Op("remove", AX, None), Op("add", AY, 2)>>, <<Op("copy", AX, 1)>>}
MCPatchSchema == [closed |-> TRUE, accepts |-> MCPatches]

MCApp == [type |-> "application", id |-> "app"]
MCRuntime == [type |-> "runtime", id |-> "rt"]

ElicitationRecords ==
  {[authenticated |-> TRUE, selected |-> TRUE, requester |-> MCApp, presenter |-> MCRuntime,
    subject |-> "user", verifier |-> None, tuple |-> 1, revision |-> 0, request |-> None,
    response |-> None, lifecycle |-> "pending", accepted_at |-> None, retention |-> 1,
    replay |-> "not_applicable", base |-> MCBase, schema |-> MCSchema, validated |-> TRUE,
    step_up |-> "not_applicable", step_up_result |-> None, secret |-> FALSE,
    use |-> "informational", now |-> 1]}

Hashed(message) ==
  [f \in DOMAIN message \cup {"hash"} |-> IF f = "hash" THEN message ELSE message[f]]

Ask(r, k, body, revision) ==
  Hashed([requester |-> r.requester, presenter |-> r.presenter, kind |-> k,
          elicitation |-> "e", revision |-> revision, tuple |-> r.tuple,
          context |-> [input |-> r.base], context_hash |-> [input |-> r.base],
          expires |-> 2, body |-> body])
Reply(r, q, body) ==
  [request |-> q, shown |-> None,
   response |-> Hashed([responder |-> q.presenter, kind |-> q.kind, elicitation |-> q.elicitation,
                        revision |-> q.revision, tuple |-> q.tuple,
                        context_hash |-> q.context_hash, request_hash |-> q.hash,
                        disposition |-> "answered", resolved |-> r.now, body |-> body])]

Bodies(r) ==
  {[kind |-> "edit",
    ask |-> [base |-> r.base, base_hash |-> r.base, schema_hash |-> r.schema,
             editable |-> editable],
    answer |-> [candidate |-> c, candidate_hash |-> c]] : editable \in {{AX}, {A}}, c \in MCInputs}
  \cup
  {[kind |-> "redline",
    ask |-> [schema |-> MCPatchSchema, schema_hash |-> MCPatchSchema, base_hash |-> r.base,
             editable |-> editable],
    answer |-> [patch |-> p, base_hash |-> r.base,
                candidate_hash |-> Human!ApplyPatch(r.base, p)]] :
      editable \in {{}, {AX}}, p \in MCPatches}
  \cup
  {[kind |-> "choose", ask |-> [options |-> {"yes", "no"}, least |-> 1, most |-> 1],
    answer |-> [chosen |-> c]] : c \in {{}, {"yes"}, {"no"}}}
  \cup
  {[kind |-> "clarify",
    ask |-> [schema |-> [closed |-> TRUE, accepts |-> {"a"}], schema_hash |-> [closed |-> TRUE, accepts |-> {"a"}],
             most |-> 1],
    answer |-> [answer |-> a, size |-> 1]] : a \in {"a", "b"}}
  \cup
  {[kind |-> "step_up", ask |-> [required |-> {"mfa"}, max_age |-> 1],
    answer |-> [verifier |-> "v", achieved |-> {"mfa"}, authenticated |-> t, expires |-> 3]] :
      t \in {1, 2}}

ElicitationDocuments(r) ==
  LET replies == {Reply(r, Ask(r, b.kind, b.ask, n), b.answer) :
                    b \in Bodies(r), n \in r.revision..(r.revision + 1)}
      chosen == {d \in replies : d.request.kind \in {"choose", "clarify"}} IN
  replies \cup {[d EXCEPT !.shown = Human!AgentProjection(d.request, d.response)] : d \in chosen}

(* Time passes, the session moves on, the application edits the input or    *)
(* asks again, and the verifier of a step-up speaks.                        *)
ElicitationChanges(r) ==
  {[r EXCEPT !.now = @ + 1], [r EXCEPT !.tuple = 2], [r EXCEPT !.base[B] = 2],
   [r EXCEPT !.lifecycle = "pending", !.replay = "not_applicable", !.accepted_at = None],
   [r EXCEPT !.step_up = "verified", !.verifier = "v",
             !.step_up_result = [verifier |-> "v", audience |-> r.requester, subject |-> "user",
                                 elicitation |-> "e", revision |-> r.revision + 1,
                                 context |-> [input |-> r.base], achieved |-> {"mfa"},
                                 authenticated |-> 1, expires |-> 3]]}

(********************************** limits *********************************)

LimitsRecords ==
  {[surface |-> [actions |-> {"a1", "a2", "a3"}, idempotent |-> {"a1", "a2"},
                 events |-> {"e1", "e2", "asp.revoked"}, control |-> {"e2"}],
    disclosable |-> d] : d \in SUBSET {"l1", "l2"}}

LimitsDocuments(r) ==
  {[limits |-> [actions |-> <<[id |-> a, windows |-> w, in_flight |-> f],
                              [id |-> "a2", windows |-> <<>>, in_flight |-> None]>>,
                events |-> <<[id |-> e, windows |-> v]>>],
    error |-> [limits |-> n]] :
     a \in {"a1", "a2", "a3"}, w \in {<<"l1">>, <<"l1", "l1">>}, f \in {None, "l1", "l2"},
     e \in {"e1", "e2", "asp.revoked"}, v \in {<<"l2">>, <<"l3">>}, n \in {{"l1"}, {"l1", "l2"}}}

LimitsChanges(r) == {[r EXCEPT !.disclosable = {"l1"}]}

(*********************************** risk **********************************)

(* The place of a subtag is that of its text in code-point order.           *)
Sub(place, name, form) == [name |-> name, form |-> form, place |-> place]
De == Sub(1, "de", "language")
En == Sub(2, "en", "language")
Fr == Sub(3, "fr", "language")
Latn == Sub(4, "latn", "script")
P == Sub(5, "posix", "variant")
US == Sub(6, "us", "region")
X == Sub(7, "x", "singleton")

Localized(language, effects) == [language |-> language, effects |-> effects]
RiskRecords ==
  {[status |-> "current", references |-> "complete", mode |-> "full", semantics |-> "open",
    candidate |-> 1, retained |-> 1]}

(* Sorted lists of languages, and two that are not.                         *)
MCLanguages ==
  {<< <<De>>, <<En>> >>, << <<En>>, <<En, US>> >>, << <<En, Latn>>, <<En, US>> >>,
   << <<De>>, <<En, Latn>>, <<En, Latn, US>> >>,
   << <<En>>, <<De>> >>, << <<En, US>>, <<En>> >>}
MCPreferences ==
  {<<>>, << <<En, Latn, US>> >>, << <<En, X, P>> >>, << <<De, US>>, <<En>> >>,
   << <<En, US, P, P>> >>, << <<Fr>>, <<En, Latn, US, P>> >>}

RiskDocuments(r) ==
  LET hint(languages, default, effects) ==
        [default |-> default,
         localizations |-> [i \in DOMAIN languages |-> Localized(languages[i], effects)]]
      right ==
        UNION {{[operation |-> o, hint |-> hint(languages, default, <<"e1", "e2">>),
                 effects |-> <<"e1", "e2">>, hint_action |-> "a1", action |-> "a1",
                 hint_surface |-> 1, preferences |-> p, language |-> language,
                 rendered |-> Localized(language, <<"e1", "e2">>),
                 literal |-> TRUE, use |-> "advisory_only", agent |-> "absent"] :
                  o \in {"publish", "render"}, default \in {Head(languages), Last(languages)},
                  p \in MCPreferences, language \in Range(languages)} :
               languages \in MCLanguages} IN
  right
  \cup {[d EXCEPT !.hint.localizations[2].effects = <<"e2", "e1">>] : d \in right}
  \cup {[d EXCEPT !.rendered.effects = <<"e1">>] : d \in right}

RiskChanges(r) == {[r EXCEPT !.retained = 2], [r EXCEPT !.mode = "proposal_only"]}

(********************************* purpose *********************************)

MCBindingsOfPurpose == [purpose : {"p1", "p2"}, task : {None, "t1", "t2"}]
Entry(ref, parent, state) == [ref |-> ref, parent |-> parent, state |-> state, policy |-> "allow"]

PurposeRecords ==
  {[scope |-> "s",
    purposes |-> [p \in {"p1", "p2"} |-> Entry(p, None, "active")],
    tasks |-> [t \in {"t1", "t2"} |-> Entry(t, parent[t], "active")],
    parent |-> [purpose |-> "p1", task |-> None]] :
     parent \in {[t1 |-> "p1", t2 |-> "p1"], [t1 |-> "p1", t2 |-> "p2"]}}

PurposeDocuments(r) ==
  {[request |-> b, consent |-> b, grant |-> b, returned |-> c, session |-> b, enforced |-> TRUE,
    use |-> "informational_only", scope |-> "s", attenuation |-> a] :
     b \in MCBindingsOfPurpose, c \in MCBindingsOfPurpose, a \in {"equal", "narrower", "wider"}}

PurposeChanges(r) ==
  {[r EXCEPT !.tasks["t1"].state = "ended"], [r EXCEPT !.purposes["p2"].policy = "deny"]}

(*********************************** ahp ***********************************)

AhpRecords ==
  {[tuple |-> 1, action |-> a, revision |-> 1, fingerprint |-> "f"] : a \in {None, "a1"}}

AhpDocuments(r) ==
  {[negotiated |-> TRUE, authenticated |-> s, tuple |-> 1, action |-> r.action,
    revision |-> n, fingerprint |-> f, control |-> c, message |-> m, receipts |-> "informational"] :
     s \in BOOLEAN, n \in 0..3, f \in {"f", "g"},
     c \in {"present", "invoke"}, m \in {"session.state", "action.request"}}

AhpChanges(r) == {[r EXCEPT !.action = "a1"]}

(********************************* binding *********************************)

MCAuthority ==
  [endpoint_clean |-> TRUE, audience_https |-> TRUE, requested |-> <<"uri">>, issued |-> <<"uri">>,
   endpoint |-> "uri", mode |-> "asp_native", composition |-> "asp-native", binding |-> "dpop",
   audience |-> "uri", manifest |-> "m1", actions |-> {"a1", "a2"}, projection |-> None,
   surface |-> 1, action |-> "a1", action_mode |-> "commit", dialect |-> "d", input |-> 1,
   output |-> 1, proof_target |-> "uri", grant |-> "g", key |-> "k",
   session |-> 1, trace |-> 1, request_span |-> 1, result_span |-> 2]

BindingRecords ==
  {[authority |-> MCAuthority,
    surface |-> [current |-> TRUE, candidate |-> 1, retained |-> 1],
    grant |-> [active |-> TRUE, passport |-> TRUE, closed |-> TRUE,
               requested |-> {"a1", "a2"}, issued |-> {"a1"}],
    execution |-> [recorded |-> TRUE, policy |-> "allow", attested |-> TRUE, input |-> 1,
                   schema |-> 1]]}

MCTuple == [grant |-> "g", key |-> "k", surface |-> 1, arguments |-> 1]

MCProjection ==
  [use |-> "current_admission", resource |-> "current", view |-> 1, current_view |-> 1,
   changed |-> FALSE, input |-> 1, current_input |-> 1, output |-> 1, current_output |-> 1,
   snapshot |-> "current", record |-> None, persisted |-> FALSE, disclosure |-> None,
   key_required |-> TRUE, cause |-> None,
   durable |-> TRUE, asp |-> "active", lookup |-> "bound", interruption |-> None, drain |-> None,
   resume |-> None, transition |-> "unchanged", event |-> "none", initialize |-> None,
   negotiated |-> TRUE, pinned |-> TRUE, discovered |-> TRUE, endpoint |-> "uri",
   server |-> "uri", manifest |-> "m1", actions |-> {"a1", "a2"}, projection |-> None,
   action |-> "a1", mapped |-> "a1", tool |-> <<"asp.action", "a1">>,
   mode |-> "commit", dialect |-> "d", authenticated |-> TRUE, custody |-> TRUE,
   audience |-> "uri", proof_target |-> "uri", authorization |-> "asp_native",
   composition |-> "asp-native", oauth |-> FALSE, binding |-> "dpop", scheme |-> "dpop",
   tuple |-> MCTuple, bound_tuple |-> MCTuple, result_tuple |-> MCTuple,
   session |-> 1, request_trace |-> 1, result_trace |-> 1, request_span |-> 1, result_span |-> 2,
   proof |-> TRUE, task |-> FALSE,
   faithful |-> TRUE, minimized |-> TRUE, cancellation |-> "after_dispatch_ambiguous",
   cancelled |-> "wait_only", retry |-> "reconcile_same_key",
   receipt_required |-> TRUE, receipt |-> "authenticated"]

(* An admission, a completed action shown again, and one whose view rotated.*)
MCCompleted ==
  [MCProjection EXCEPT !.use = "current_completed_replay", !.record = "exact_authenticated",
                       !.persisted = TRUE, !.disclosure = "allowed"]
MCRetained ==
  [MCCompleted EXCEPT !.use = "retained_completed_replay", !.view = 0, !.changed = TRUE,
                      !.snapshot = "retained", !.cause = "view_context"]

Sessions(p) ==
  {p,
   [p EXCEPT !.event = "loss_recovered", !.initialize = "transport_only"],
   [p EXCEPT !.event = "session_terminated", !.initialize = "no_asp_reactivation",
             !.transition = "incremented", !.interruption = "owner", !.drain = "drained",
             !.resume = "accepted"],
   [p EXCEPT !.asp = "interrupted", !.event = "session_terminated",
             !.initialize = "no_asp_reactivation", !.interruption = "owner",
             !.drain = "closed_path_in_progress"],
   [p EXCEPT !.lookup = "not_found", !.event = "lookup_recovered",
             !.initialize = "transport_only"]}

(* The same tuple in the request, its binding and the result.              *)
Said(p, tuple) == [p EXCEPT !.tuple = tuple, !.bound_tuple = tuple, !.result_tuple = tuple]

BindingFaults(p) ==
  {p, [p EXCEPT !.persisted = ~@], [p EXCEPT !.disclosure = "denied"], [p EXCEPT !.record = None],
   Said(p, [p.tuple EXCEPT !.key = None]), Said(p, [p.tuple EXCEPT !.surface = 2]),
   Said(p, [p.tuple EXCEPT !.arguments = 2]), [p EXCEPT !.bound_tuple.arguments = 2],
   [p EXCEPT !.current_view = 2],
   [p EXCEPT !.action = "a2", !.mapped = "a2"], [p EXCEPT !.cancelled = "honored_pre_admission"],
   [p EXCEPT !.receipt = None], [p EXCEPT !.durable = FALSE], [p EXCEPT !.scheme = "bearer"],
   [p EXCEPT !.result_span = 1], [p EXCEPT !.cause = "manifest", !.resource = "updated"]}

BindingDocuments(r) ==
  {[operation |-> o, projection |-> p] :
     o \in {"issue_mcp_grant", "publish_mcp_surface", "adapt_mcp_action", "execute_mcp_action",
            "mediate_mcp_action"},
     p \in UNION {BindingFaults(q) : q \in UNION {Sessions(x) :
                                       x \in {MCProjection, MCCompleted, MCRetained}}}}

BindingChanges(r) ==
  {[r EXCEPT !.grant.active = FALSE], [r EXCEPT !.grant.issued = {"a2"}],
   [r EXCEPT !.execution.policy = "deny"], [r EXCEPT !.surface.candidate = 2],
   [r EXCEPT !.surface.retained = 2, !.surface.candidate = 2, !.authority.surface = 2],
   [r EXCEPT !.execution.attested = FALSE]}

(*********************************** wire **********************************)

Schema(values) == [accepts |-> values, dialect |-> "d", closed |-> TRUE]
MCView == [id |-> "v", surface |-> 1]
MCUri == [name |-> "m", clean |-> TRUE]
MCEffects(e) == [hash |-> Wire!Hash("effects", e), actual |-> e]

MCExecution(mode) ==
  [mode |-> mode, preview |-> <<>>, reservation |-> None, target |-> None]
Previewed(e) ==
  [e EXCEPT !.preview = [preview_id |-> 1, execution_token |-> 1,
                         execution_token_hash |-> Wire!Hash("token", 1),
                         preconditions_hash |-> 1, expected_effects_hash |-> 1]]

(* What the application has on record, by URI.                              *)
Receipt(id, execution, effects, outcome) ==
  [uri |-> id, locally_valid |-> TRUE,
   expected |-> [id |-> id, hash |-> <<id>>, type |-> "app", role |-> None],
   receipt |-> [type |-> "app", role |-> None, hash |-> <<id>>, own_hash |-> <<id>>,
                said |-> "success",
                execution |-> execution, execution_hash |-> Wire!Hash("execution", execution),
                approvals |-> None, effects |-> MCEffects(effects), error |-> None,
                result |-> "success", policy |-> [outcome |-> outcome, reason |-> "policy_allowed"],
                output_hash |-> Wire!Hash("output", 1)]]
Approval(id, role) ==
  [Receipt(id, MCExecution("commit"), {}, "allow") EXCEPT
     !.expected.type = "approval", !.expected.role = role,
     !.receipt.type = "approval", !.receipt.role = role, !.receipt.effects = None]
MCStore ==
  [u1 |-> Receipt("u1", MCExecution("commit"), {"e1"}, "allow"),
   u2 |-> Receipt("u2", MCExecution("commit"), {"e2"}, "allow"),
   u3 |-> Receipt("u3", MCExecution("commit"), {"e1"}, "deny"),
   u4 |-> [Receipt("u4", MCExecution("commit"), {"e1"}, "allow") EXCEPT !.locally_valid = FALSE],
   u5 |-> Receipt("u5", Wire!Sanitized(Previewed(MCExecution("commit"))), {"e1"}, "allow"),
   u6 |-> Approval("u6", "runtime"), u7 |-> Approval("u7", "application"),
   u8 |-> [Receipt("u8", MCExecution("commit"), {"e1"}, "allow") EXCEPT
             !.receipt.approvals = [runtime |-> <<"u6">>]]]

WireRecords ==
  {[part |-> part, used |-> {}, asked |-> None, composition |-> "asp-native", manifest |-> MCUri,
    surface |-> 1, view |-> MCView, dialect |-> "d", now |-> 1, endpoint |-> [name |-> "e", clean |-> TRUE],
    listing |-> [started |-> FALSE, cursor |-> None, cursors |-> {}, names |-> {}, actions |-> {}],
    declared |-> [a \in {"a1", "a2"} |->
       [input |-> Schema({1}), output |-> Schema({1}), key_required |-> a = "a1",
        receipts |-> a = "a1"]],
    store |-> MCStore,
    truth |-> [u \in DOMAIN MCStore |->
       [said |-> IF u = "u2" THEN "unknown" ELSE "success", effects |-> MCStore[u].receipt.effects]],
    limits |-> [declared |-> {"l1"}, disclosable |-> {"l1"}],
    evidence |-> [preconditions |-> 1, effects |-> 1]] : part \in {"open", "list", "call"}}

Ids(s) == {Cardinality(s.used) + 1} \cup {1}
Asked(s, type) == s.asked # None /\ s.asked.type = type
If(condition, set) == IF condition THEN set ELSE {}

Opening(s) ==
  {[type |-> "initialize", id |-> i, composition |-> c] :
     i \in Ids(s), c \in {"asp-native", "mcp-oauth-dual-use"}}
  \cup {[type |-> "read", id |-> i, uri |-> [name |-> n, clean |-> c]] :
          i \in Ids(s), c \in BOOLEAN, n \in {"m", "n", "u1", "u2", "u4", "u7"}}
  \cup If(Asked(s, "initialize"),
          {[type |-> "initialized", id |-> s.asked.id, composition |-> "asp-native",
            manifest |-> [name |-> n, clean |-> TRUE]] : n \in {"m", "n"}})
  \cup If(Asked(s, "read"),
          {[type |-> "contents", id |-> s.asked.id,
            contents |-> <<[uri |-> s.asked.uri, resource |-> r]>>] :
             r \in IF s.asked.uri.name \in DOMAIN s.store
                   THEN {s.store[u].receipt : u \in {"u1", "u2", "u4", "u7"}}
                        \cup {[s.store["u1"].receipt EXCEPT !.own_hash = <<"another">>]}
                   ELSE {[surface |-> n, own_hash |-> h] : n \in {1, 2}, h \in {1, 2}}})
  \cup {[type |-> "updated", uri |-> [name |-> n, clean |-> TRUE]] : n \in {"m", "n"}}
  \cup {[type |-> "endpoint", endpoint |-> s.endpoint, credential |-> c, audience |-> s.endpoint,
         composition |-> "mcp_oauth_dual_use",
         requests |-> [class \in DOMAIN Wire!Methods |->
            [method |-> Wire!Methods[class], target |-> s.endpoint, verified |-> v,
             kind |-> "mtls_channel"]]] : c \in {"mtls", "dpop"}, v \in BOOLEAN}

Tool(action, name) ==
  [uris_clean |-> TRUE, name |-> Wire!ToolOf(name), input |-> Schema({1}),
   binding |-> [view |-> MCView, action |-> action,
                input_hash |-> Wire!Hash("schema", Schema({1})), output_hash |-> None,
                action_input_hash |-> Wire!Hash("action input schema", Schema({1}))]]
Listing(s) ==
  If(s.asked = None /\ (~s.listing.started \/ s.listing.cursor # None),
     {[type |-> "list", id |-> i, cursor |-> c] : i \in Ids(s), c \in {None, "c1", "c2"}})
  \cup If(Asked(s, "list"),
     {[type |-> "page", id |-> s.asked.id, next |-> c, view |-> MCView, uri_clean |-> TRUE,
       tools |-> t] :
        c \in {None, "c1", "c2"},
        t \in {<<>>, <<Tool("a1", "a1")>>, <<Tool("a2", "a2")>>, <<Tool("a1", "a2")>>,
               <<[Tool("a1", "a1") EXCEPT !.binding.action_input_hash =
                    Wire!Hash("schema", Schema({1}))]>>,
               <<Tool("a2", "a2"), Tool("a1", "a1")>>}})

Call(s, i, action, execution, key, arguments) ==
  [type |-> "call", id |-> i, view |-> MCView, name |-> Wire!ToolOf(action),
   arguments |-> arguments, argument_secrets |-> {},
   payload |-> [tuple |-> [surface |-> 1, action |-> action], key |-> key,
                input_hash |-> Wire!Hash("input", arguments), execution |-> execution,
                execution_hash |-> Wire!Hash("execution", Wire!Sanitized(execution)),
                approvals |-> None, span |-> 1, has_input |-> FALSE,
                secrets |-> {[name |-> "execution_token", path |-> <<"execution">>] :
                               x \in DOMAIN execution.preview \cap {"execution_token"}}]]
Calls(s) ==
  {Call(s, i, a, e, k, n) :
     i \in Ids(s), a \in {"a1", "a2"}, k \in {None, "k"}, n \in {1, 2},
     e \in {MCExecution("read"), MCExecution("dry_run"), MCExecution("commit"),
            Previewed(MCExecution("commit")), Previewed(MCExecution("dry_run"))}}
  \cup {[Call(s, i, "a1", MCExecution("commit"), "k", 1) EXCEPT !.payload.approvals = a] :
          i \in Ids(s), a \in {[runtime |-> <<"u6">>], [application |-> <<"u7">>]}}

(* Answers to the outstanding call: previews, results with any receipts,    *)
(* capacity errors.                                                         *)
Answer(s, p, links) ==
  [type |-> "answer", id |-> s.asked.id, view |-> "v", text |-> 1, structured |-> 1,
   links |-> links, linked |-> links, links_clean |-> TRUE, payload |-> p]
Answers(s) ==
  LET q == s.asked.payload
      plain == [error |-> None, tuple |-> q.tuple, key |-> q.key,
                execution |-> Wire!Sanitized(q.execution),
                execution_hash |-> Wire!Hash("execution", Wire!Sanitized(q.execution)),
                span |-> 2, secrets |-> {}, result |-> "success", preview |-> None,
                evidence |-> None, output |-> 1, effects |-> None, receipt |-> None,
                approval_receipt |-> None, approvals |-> None, proposal |-> None,
                reserved |-> None, revert_evidence |-> None]
      previewed == [plain EXCEPT
        !.result = "preview",
        !.preview = [token |-> 1, token_hash |-> Wire!Hash("token", 1), expires |-> 2],
        !.evidence = [preconditions |-> 1, effects |-> 1,
                      preconditions_hash |-> Wire!Hash("preconditions", 1),
                      effects_hash |-> Wire!Hash("expected effects", 1)],
        !.secrets = {[name |-> "execution_token", path |-> <<"preview">>]}]
      refused == [plain EXCEPT !.error = [code |-> "rate_limited", limits |-> {"l1"}], !.result = None] IN
  {Answer(s, p, <<>>) : p \in {plain, previewed, refused, [plain EXCEPT !.span = 1],
                               [refused EXCEPT !.error.limits = {"l2"}],
                               [plain EXCEPT !.effects = MCEffects({"e1"})],
                               [previewed EXCEPT !.execution = q.execution]}}
  \cup {Answer(s, [plain EXCEPT !.effects = MCEffects(e), !.output = o,
                                !.receipt = [id |-> u, hash |-> s.store[u].expected.hash]],
               links) :
          e \in {{}, {"e1"}, {"e2"}}, o \in {1, 2}, u \in {"u1", "u2", "u3", "u4", "u5"},
          links \in {<<x>> : x \in {"u1", "u2", "u3", "u4", "u5"}} \cup {<<"u1", "u2">>}}
  \cup {Answer(s, [plain EXCEPT !.effects = MCEffects({"e1"}), !.approvals = a,
                                !.receipt = [id |-> "u8", hash |-> <<"u8">>]], links) :
          a \in {None, [runtime |-> <<"u6">>], [runtime |-> <<"u6">>, application |-> <<"u7">>]},
          links \in {<<"u8">>, <<"u8", "u6">>, <<"u8", "u6", "u7">>, <<"u8", "u7">>}}
  \cup {Answer(s, [refused EXCEPT !.error.code = c, !.approval_receipt = [id |-> "u7", hash |-> <<"u7">>]],
               <<u>>) : c \in {"approval_denied", "rate_limited"}, u \in {"u6", "u7"}}

WireDocuments(s) ==
  CASE s.part = "open" -> Opening(s)
    [] s.part = "list" -> Listing(s)
    [] s.part = "call" ->
         Calls(s)
         \cup {[type |-> "cancelled", request |-> n] : n \in {1, 2}}
         \cup {[type |-> "progress", token |-> 1, progress |-> n, total |-> 1] : n \in {1, 2}}
         \cup (IF Asked(s, "call") THEN Answers(s) ELSE {})

WireChanges(s) == {[s EXCEPT !.now = 3], [s EXCEPT !.view.id = "w"]}

(********************************** cases **********************************)

CONSTANT Present      \* the kinds of a run

MCFirstRecords(k) ==
  IF k \notin Present THEN {}
  ELSE CASE k = "impact" -> ImpactRecords [] k = "elicitation" -> ElicitationRecords
         [] k = "limits" -> LimitsRecords [] k = "risk" -> RiskRecords
         [] k = "purpose" -> PurposeRecords [] k = "ahp" -> AhpRecords
         [] k = "binding" -> BindingRecords [] k = "wire" -> WireRecords

MCDocuments(k, r) ==
  CASE k = "impact" -> ImpactDocuments(r) [] k = "elicitation" -> ElicitationDocuments(r)
    [] k = "limits" -> LimitsDocuments(r) [] k = "risk" -> RiskDocuments(r)
    [] k = "purpose" -> PurposeDocuments(r) [] k = "ahp" -> AhpDocuments(r)
    [] k = "binding" -> BindingDocuments(r) [] k = "wire" -> WireDocuments(r)

MCChanges(k, r) ==
  CASE k = "impact" -> ImpactChanges(r) [] k = "elicitation" -> ElicitationChanges(r)
    [] k = "limits" -> LimitsChanges(r) [] k = "risk" -> RiskChanges(r)
    [] k = "purpose" -> PurposeChanges(r) [] k = "ahp" -> AhpChanges(r)
    [] k = "binding" -> BindingChanges(r) [] k = "wire" -> WireChanges(r)

MCMaxAccepted(k, r) ==
  CASE k \in {"impact", "limits", "risk", "binding"} -> 1 [] k = "elicitation" -> 2
    [] k \in {"purpose", "ahp"} -> 3
    [] OTHER -> CASE r.part = "open" -> 2 [] r.part = "list" -> 6 [] r.part = "call" -> 3
MCMaxChanges(k) ==
  CASE k \in {"impact", "elicitation"} -> 2 [] k = "wire" -> 1 [] OTHER -> 1

(* What the theorems ask of the environment, of the worlds a run begins in. *)
ASSUME MCWorldsAreHonest ==
  \A k \in Present : \A r \in MCFirstRecords(k) :
    /\ \A d \in MCDocuments(k, r) : Shaped(k, r, d)
    /\ \A s \in MCChanges(k, r) : Keeps(k, r, s)
=============================================================================
