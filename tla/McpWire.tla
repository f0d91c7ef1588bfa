------------------------------ MODULE McpWire ------------------------------
(****************************************************************************)
(* One message of an ASP-over-MCP session, judged in the context of what    *)
(* the session has already selected, listed, asked and used.                *)
(*                                                                          *)
(* A hash stands for the tagged value it hashes.  A schema is the set of    *)
(* values it accepts, its dialect, and whether it is closed (refers to      *)
(* nothing outside itself).  A payload's secrets are the places at which an *)
(* execution token or a known credential occurs in it; a URI is clean when  *)
(* it carries none.  None is an absent member, or context that is not given.*)
(****************************************************************************)
EXTENDS Naturals, FiniteSets, SequencesExt

CONSTANTS None

Hash(domain, value) == <<domain, value>>
ToolOf(action) == <<"asp.action", action>>
EffectModes == {"reserve", "commit", "compensate", "revert"}
Given(expected, actual) == expected = None \/ actual = expected

(* An execution token may only stand where the message is meant to carry it.*)
Exposes(secrets, allowed) ==
  \E s \in secrets : s.name # "execution_token" \/ s.path \notin allowed

SchemaUsable(schema, dialect) == schema.closed /\ Given(dialect, schema.dialect)

(*************************** initialize and read ***************************)

FreshId(m, c) == m.id \notin c.used

InitializeValid(m, c) == Given(c.composition, m.composition)
InitializedValid(m, c) ==
  m.manifest.clean /\ Given(c.manifest, m.manifest) /\ Given(c.composition, m.composition)

(* What is read is the requested resource, or the manifest without a request.*)
ReadValid(m, c) == m.uri.clean /\ Given(IF c.uri # None THEN c.uri ELSE c.manifest, m.uri)
UpdatedValid(m, c) == m.uri.clean /\ Given(c.manifest, m.uri)

(******************************* executions ********************************)

PreviewMembers == {"preview_id", "execution_token_hash", "preconditions_hash",
                   "expected_effects_hash"}

(* Preview evidence is complete or absent and only for a commit; recovery   *)
(* names the receipt it recovers.                                           *)
ExecutionValid(e, sanitized) ==
  LET bundle == IF sanitized THEN PreviewMembers
                             ELSE PreviewMembers \cup {"execution_token"} IN
  /\ sanitized => "execution_token" \notin DOMAIN e.preview
  /\ bundle \cap DOMAIN e.preview # {} =>
       bundle \subseteq DOMAIN e.preview /\ e.mode = "commit"
  /\ "execution_token" \in DOMAIN e.preview =>
       e.preview["execution_token_hash"] = Hash("token", e.preview["execution_token"])
  /\ e.reservation # None => e.mode \in {"reserve", "commit"}
  /\ e.mode \in {"compensate", "revert"} <=> e.target # None

Sanitized(e) ==
  [e EXCEPT !.preview = [f \in DOMAIN e.preview \ {"execution_token"} |-> e.preview[f]]]

EffectsHashed(effects) == effects # None => effects.hash = Hash("effects", effects.actual)

(******************************** resources ********************************)

(* A manifest is the retained one; a receipt is of the expected type, pairs *)
(* what it says with its hash, and says what is authoritatively known.      *)
ReceiptResourceValid(r, c) ==
  /\ r.type \in {"app", "runtime", "approval"} /\ Given(c.receipt_type, r.type)
  /\ r.type = "approval" => r.role \in {"runtime", "application"}
  /\ r.hash = c.resource_hash
  /\ r.execution # None => /\ ExecutionValid(r.execution, TRUE)
                           /\ r.execution_hash = Hash("execution", r.execution)
  /\ EffectsHashed(r.effects)
  /\ c.semantics # None
  /\ r.said = c.semantics.said /\ r.effects = c.semantics.effects

(* Where the domain of its hash is known, what the content itself hashes to  *)
(* (its own hash and signatures aside) is compared as well.                 *)
ContentsValid(m, c) ==
  /\ \A i \in DOMAIN m.contents : m.contents[i].uri.clean /\ Given(c.uri, m.contents[i].uri)
  /\ LET r == m.contents[1].resource IN
     /\ Given(c.resource, r)
     /\ c.hash_domain # None => Given(c.resource_hash, r.own_hash)
     /\ c.kind = "manifest" => r.surface = c.resource_hash
     /\ c.kind = "receipt" => /\ ReceiptResourceValid(r, c)
                              /\ Len(c.receipts) = 1
                              /\ c.receipts[1].uri = c.uri /\ c.receipts[1].receipt = r
                              /\ c.receipts[1].locally_valid

(******************************** tool pages *******************************)

(* The first page is asked for without a cursor, and no cursor twice.      *)
ListValid(m, c) ==
  /\ c.first => m.cursor = None
  /\ Given(c.cursor, m.cursor)
  /\ m.cursor # None => m.cursor \notin c.cursors

ToolValid(tool, page, expected, c) ==
  LET dialect == IF expected # None THEN expected.dialect ELSE c.dialect
      output == IF expected # None /\ expected.output # None THEN expected.output ELSE c.output
      output_hash == IF expected # None /\ expected.output_hash # None
                     THEN expected.output_hash ELSE c.output_hash IN
  /\ tool.uris_clean
  /\ expected # None =>
       /\ expected.name = tool.name /\ expected.input = tool.input
       /\ expected.binding = tool.binding
  /\ tool.binding.view = page.view
  /\ tool.name = ToolOf(tool.binding.action)
  /\ SchemaUsable(tool.input, dialect)
  /\ tool.binding.input_hash = Hash("schema", tool.input)
  /\ Given(tool.binding.action_input_hash, Hash("action input schema", tool.input))
  /\ output # None => /\ SchemaUsable(output, dialect)
                      /\ tool.binding.output_hash = Hash("schema", output)
                      /\ Given(output_hash, Hash("schema", output))

(* Mutant: a page is only compared with itself.                            *)
UnlistedInPage(m, c) ==
  \A i \in DOMAIN m.tools : \A j \in 1..(i - 1) :
    m.tools[i].name # m.tools[j].name /\ m.tools[i].binding.action # m.tools[j].binding.action

(* A page repeats no tool and no action of itself or the pages before it.  *)
Unlisted(m, c) ==
  \A i \in DOMAIN m.tools :
    /\ m.tools[i].name \notin c.names \cup {m.tools[j].name : j \in 1..(i - 1)}
    /\ m.tools[i].binding.action
         \notin c.actions \cup {m.tools[j].binding.action : j \in 1..(i - 1)}

(* A page continues only if it has tools, and belongs to the selected view. *)
PageValid(m, c) ==
  /\ m.next # None => m.next \notin c.cursors /\ m.tools # <<>>
  /\ m.uri_clean
  /\ Given(c.view, m.view)
  /\ c.tools # None => Len(c.tools) = Len(m.tools)
  /\ \A i \in DOMAIN m.tools :
       ToolValid(m.tools[i], m, IF c.tools = None THEN None ELSE c.tools[i], c)
  /\ Unlisted(m, c)

(********************************** calls **********************************)

NeedsInputHash(p, c) ==
  c.key_required \/ c.receipt_required \/ p.execution.mode \in EffectModes \cup {"dry_run"}

CallIdentity(m, c) ==
  LET p == m.payload IN
  /\ Given(c.view, m.view)
  /\ Given(c.request, p)
  /\ p.tuple.surface = m.view.surface
  /\ m.name = ToolOf(p.tuple.action)
  /\ ~p.has_input
  /\ ~Exposes(p.secrets, {<<"execution">>}) /\ ~Exposes(m.argument_secrets, {})

CallValid(m, c) ==
  LET p == m.payload IN
  /\ CallIdentity(m, c)
  /\ ExecutionValid(p.execution, FALSE)
  /\ Given(c.mode, p.execution.mode)
  /\ c.key_required => p.key # None
  /\ NeedsInputHash(p, c) => p.input_hash # None
  /\ Given(p.input_hash, Hash("input", m.arguments))
  /\ c.input # None => SchemaUsable(c.input, c.dialect) /\ m.arguments \in c.input.accepts
  /\ p.execution.mode \in EffectModes => p.execution_hash # None
  /\ Given(p.execution_hash, Hash("execution", Sanitized(p.execution)))
  /\ p.approvals # None => DOMAIN p.approvals = {"runtime"}

ProgressValid(m, c) == Given(c.progress, m.token) /\ (m.total # None => m.progress <= m.total)
CancelledValid(m, c) == Given(c.cancels, m.request)

(********************************* answers *********************************)

CapacityCodes == {"rate_limited", "capacity_state_unavailable", "service_unavailable"}
IsResult(p) == p.error = None
OverCapacity(p) == p.error # None /\ p.error.code \in CapacityCodes

(* An answer repeats what its request said, but for its own span and the    *)
(* execution token.                                                         *)
AnswerRepeats(p, c) ==
  /\ c.view # None => p.tuple.surface = c.view.surface
  /\ c.request # None =>
       /\ p.tuple = c.request.tuple
       /\ c.request.key # None => p.key = c.request.key
       /\ c.request.execution_hash # None => p.execution_hash = c.request.execution_hash
       /\ p.span # c.request.span
       /\ p.execution = Sanitized(c.request.execution)

AnswerExecution(p, c) ==
  /\ p.execution = None <=> p.execution_hash = None
  /\ p.execution # None => /\ ExecutionValid(p.execution, TRUE)
                           /\ p.execution_hash = Hash("execution", p.execution)
                           /\ Given(c.mode, p.execution.mode)
  /\ c.mode \in EffectModes /\ ~OverCapacity(p) => p.execution # None
  /\ c.key_required => p.key # None

(* A dry run previews: its token is current and its evidence the known one; *)
(* no other mode gives a preview.                                           *)
PreviewValid(p, c) ==
  IF c.mode = "dry_run"
  THEN /\ p.result = "preview"
       /\ p.preview # None
       /\ p.preview.token_hash = Hash("token", p.preview.token)
       /\ c.now # None /\ c.now < p.preview.expires
       /\ p.evidence # None
       /\ p.evidence.preconditions_hash = Hash("preconditions", p.evidence.preconditions)
       /\ p.evidence.effects_hash = Hash("expected effects", p.evidence.effects)
       /\ c.evidence # None
       /\ p.evidence.preconditions = c.evidence.preconditions
       /\ p.evidence.effects = c.evidence.effects
       /\ Given(c.preview, p.preview)
  ELSE p.preview = None /\ p.evidence = None

ResultValid(p, c) ==
  /\ p.approval_receipt = None
  /\ Given(c.result, p.result)
  /\ c.output # None => SchemaUsable(c.output, c.dialect) /\ p.output \in c.output.accepts
  /\ PreviewValid(p, c)
  /\ c.mode = "propose" <=> p.proposal # None
  /\ c.mode = "reserve" <=> p.reserved # None
  /\ p.revert_evidence # None => p.revert_evidence = c.revert_evidence

EffectsClaimed(p, c) ==
  /\ EffectsHashed(p.effects)
  /\ p.effects # None => Given(c.effects, p.effects.actual)
  /\ IsResult(p) /\ c.mode \in EffectModes => p.effects # None
  /\ c.mode \in {"read", "dry_run"} => p.effects = None
  /\ c.mode = "dry_run" => p.receipt = None /\ p.approval_receipt = None

(* The approvals of the request stay; others come only with a final policy. *)
ApprovalsKept(p, c) ==
  /\ p.approvals # None => /\ DOMAIN p.approvals # {}
                           /\ DOMAIN p.approvals \subseteq {"runtime", "application"}
                           /\ c.mode \in EffectModes
  /\ ~OverCapacity(p) =>
       /\ c.request # None /\ c.request.approvals # None =>
            /\ p.approvals # None
            /\ \A role \in DOMAIN c.request.approvals :
                 role \in DOMAIN p.approvals /\ p.approvals[role] = c.request.approvals[role]
            /\ c.final = None => p.approvals = c.request.approvals
       /\ Given(c.final, p.approvals)

ErrorValid(p, c) ==
  /\ OverCapacity(p) =>
       /\ c.limits # None
       /\ p.error.limits \subseteq c.limits.disclosable
       /\ c.limits.disclosable \subseteq c.limits.declared
       /\ p.effects = None /\ p.approval_receipt = None /\ p.approvals = None /\ p.receipt = None
  /\ p.error.code = "approval_denied" <=> p.approval_receipt # None
  /\ p.error.code = "approval_denied" => p.effects = None

(********************************* receipts ********************************)

Referenced(p) == p.receipt # None \/ p.approval_receipt # None \/ p.approvals # None

(* What each reference of an answer must find among the receipts.          *)
References(p) ==
  {[id |-> p.receipt.id, hash |-> p.receipt.hash, type |-> "app", role |-> None] :
     x \in {1} \ {y \in {1} : p.receipt = None}}
  \cup {[id |-> p.approval_receipt.id, hash |-> p.approval_receipt.hash, type |-> "approval",
         role |-> "application"] : x \in {1} \ {y \in {1} : p.approval_receipt = None}}
Roles(p) == IF p.approvals = None THEN {} ELSE DOMAIN p.approvals

Found(records, ref) ==
  {i \in DOMAIN records : records[i].expected = ref}
FoundApproval(records, role, hash) ==
  {i \in DOMAIN records : /\ records[i].expected.hash = hash
                          /\ records[i].expected.type = "approval"
                          /\ records[i].expected.role = role}

(* Mutant: only the execution of the receipt is compared.                  *)
AppReceiptOfExecution(p, receipt) ==
  receipt.execution = p.execution /\ receipt.execution_hash = p.execution_hash

(* The application's receipt says exactly what the answer says.            *)
AppReceiptAgrees(p, receipt) ==
  /\ receipt.execution = p.execution /\ receipt.execution_hash = p.execution_hash
  /\ receipt.approvals = p.approvals
  /\ receipt.effects = p.effects
  /\ IF IsResult(p)
     THEN /\ receipt.result = p.result
          /\ p.result = "success" =>
               /\ receipt.policy.outcome = "allow"
               /\ receipt.policy.reason \in {"policy_allowed", "approval_satisfied"}
          /\ receipt.output_hash = Hash("output", p.output)
     ELSE /\ receipt.error = p.error
          /\ receipt.result # "success" /\ receipt.output_hash = None

(* Every reference finds one authenticated receipt, and every receipt is    *)
(* referred to.                                                             *)
ReceiptsResolve(p, links, records) ==
  IF ~Referenced(p) THEN records = <<>>
  ELSE /\ records # <<>>
       /\ [i \in DOMAIN records |-> records[i].uri] = links /\ IsInjective(links)
       /\ \A ref \in References(p) : Cardinality(Found(records, ref)) = 1
       /\ \A role \in Roles(p) :
            Cardinality(FoundApproval(records, role, p.approvals[role])) = 1
       /\ (UNION {Found(records, ref) : ref \in References(p)})
            \cup (UNION {FoundApproval(records, role, p.approvals[role]) : role \in Roles(p)})
          = DOMAIN records
       /\ p.receipt # None =>
            \A i \in DOMAIN records :
              records[i].expected.type = "app" => AppReceiptAgrees(p, records[i].receipt)
       /\ \A i \in DOMAIN records : records[i].locally_valid

ReceiptsValid(m, p, c) ==
  /\ c.receipt_required /\ ~OverCapacity(p) => p.receipt # None
  /\ Referenced(p) <=> m.links # <<>>
  /\ Given(c.receipt_uris, m.links)
  /\ ReceiptsResolve(p, m.links, c.receipts)

AnswerValid(m, c) ==
  LET p == m.payload IN
  /\ c.view # None => m.view = c.view.id
  /\ m.text = m.structured
  /\ m.links_clean /\ m.linked = m.links
  /\ ~Exposes(p.secrets, IF IsResult(p) /\ c.mode = "dry_run" THEN {<<"preview">>} ELSE {})
  /\ AnswerRepeats(p, c)
  /\ AnswerExecution(p, c)
  /\ IsResult(p) => ResultValid(p, c)
  /\ EffectsClaimed(p, c)
  /\ ApprovalsKept(p, c)
  /\ ReceiptsValid(m, p, c)
  /\ ~IsResult(p) => ErrorValid(p, c)

(****************************** HTTP binding *******************************)

(* Each class of request was authorized for the endpoint, in the way the    *)
(* credential profile binds it.                                             *)
BindingKind == [dpop |-> "dpop_htu_htm", mtls |-> "mtls_channel",
                mtls_bound_bearer |-> "mtls_channel", compatibility_bearer |-> "bearer_transport"]
Methods == [initialize |-> "POST", post |-> "POST", listener |-> "GET", termination |-> "DELETE"]

EndpointValid(m, c) ==
  /\ m.endpoint.clean /\ Given(c.endpoint, m.endpoint)
  /\ m.credential \in DOMAIN BindingKind
  /\ DOMAIN m.requests = DOMAIN Methods
  /\ \A class \in DOMAIN Methods :
       /\ m.requests[class].method = Methods[class]
       /\ m.requests[class].target = m.endpoint /\ Given(c.proof_target, m.endpoint)
       /\ m.requests[class].verified /\ m.requests[class].kind = BindingKind[m.credential]
  /\ m.composition = "mcp_oauth_dual_use" => m.audience = m.endpoint
  /\ Given(c.audience, m.audience)

(********************************* messages ********************************)

Valid(m, c) ==
  CASE m.type = "initialize" -> FreshId(m, c) /\ InitializeValid(m, c)
    [] m.type = "initialized" -> Given(c.answers, m.id) /\ InitializedValid(m, c)
    [] m.type = "read" -> FreshId(m, c) /\ ReadValid(m, c)
    [] m.type = "contents" -> Given(c.answers, m.id) /\ ContentsValid(m, c)
    [] m.type = "updated" -> UpdatedValid(m, c)
    [] m.type = "list" -> FreshId(m, c) /\ ListValid(m, c)
    [] m.type = "page" -> Given(c.answers, m.id) /\ PageValid(m, c)
    [] m.type = "call" -> FreshId(m, c) /\ CallValid(m, c)
    [] m.type = "progress" -> ProgressValid(m, c)
    [] m.type = "cancelled" -> CancelledValid(m, c)
    [] m.type = "answer" -> Given(c.answers, m.id) /\ AnswerValid(m, c)
    [] m.type = "endpoint" -> EndpointValid(m, c)
=============================================================================
