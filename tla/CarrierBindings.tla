--------------------------- MODULE CarrierBindings --------------------------
(****************************************************************************)
(* How an ordinary ASP exchange rides on another protocol: the AHP and MCP  *)
(* projections, judged against the records of the party that receives them. *)
(*                                                                          *)
(* A projection has many members with a single legal value; the members one *)
(* condition of the code tests together are one Boolean here (negotiated,   *)
(* pinned, discovered, durable, custody, faithful, minimized).  What the    *)
(* code compares with something else keeps its value.                       *)
(****************************************************************************)
EXTENDS Naturals, FiniteSets, SequencesExt

CONSTANTS None

(*********************************** AHP ***********************************)

(* Mutant: the content is only looked at when the revision is new.         *)
AhpForwardUnchecked(p, records) == p.revision >= records.revision

(* A representation only moves forward, and a revision has one content.    *)
AhpForward(p, records) ==
  /\ p.revision >= records.revision
  /\ p.revision = records.revision => p.fingerprint = records.fingerprint

AhpValid(p, records) ==
  /\ p.negotiated /\ p.authenticated
  /\ p.tuple = records.tuple /\ p.action = records.action
  /\ AhpForward(p, records)
  /\ \/ p.control = "present" /\ p.message = "session.state" /\ p.action = None
     \/ p.control = "invoke" /\ p.message = "action.request" /\ p.action # None
  /\ p.receipts = "informational"

(************************* MCP: before the channel *************************)

AuthorizationSelected(a) ==
  \/ /\ a.mode = "asp_native" /\ a.composition = "asp-native"
     /\ a.binding \in {"dpop", "compatibility_bearer", "mtls"}
  \/ /\ a.mode = "mcp_oauth_dual_use" /\ a.composition = "mcp-oauth-dual-use"
     /\ a.binding \in {"compatibility_bearer", "mtls_bound_bearer"}
     /\ a.audience = a.endpoint

GrantCoherent(grant) == grant.passport /\ grant.closed /\ grant.issued \subseteq grant.requested

(* A Grant for MCP is issued for the manifest's endpoint and no other.     *)
McpGrantIssuable(d) ==
  LET a == d.authority IN
  /\ a.endpoint_clean /\ a.audience_https
  /\ d.surface.current
  /\ GrantCoherent(d.grant)
  /\ a.requested = <<a.endpoint>> /\ a.issued = a.requested
  /\ AuthorizationSelected(a)

(****************************** MCP: the view ******************************)

Executing == {"execute_mcp_action", "mediate_mcp_action"}

ViewUnchanged(p) ==
  /\ p.resource = "current" /\ p.view = p.current_view /\ ~p.changed
  /\ p.input = p.current_input /\ p.output = p.current_output /\ p.snapshot = "current"

(* A completed action's record, kept over restarts, that may be shown.     *)
CompletedRecord(p, operation) ==
  /\ operation \in Executing
  /\ p.record = "exact_authenticated" /\ p.persisted /\ p.disclosure = "allowed"
  /\ p.key_required /\ p.tuple.key # None

CurrentView(p) ==
  /\ p.use = "current_admission" /\ ViewUnchanged(p)
  /\ p.record = None /\ ~p.persisted /\ p.disclosure = None

CurrentReplay(p, operation) ==
  /\ p.use = "current_completed_replay" /\ ViewUnchanged(p)
  /\ CompletedRecord(p, operation)
  /\ p.cause = None

(* The view rotated since the action completed, for a cause that shows.    *)
RetainedReplay(p, operation) ==
  /\ p.use = "retained_completed_replay"
  /\ CompletedRecord(p, operation)
  /\ p.view # p.current_view /\ p.changed /\ p.snapshot = "retained"
  /\ \/ p.cause = "manifest" /\ p.resource = "updated"
     \/ p.cause = "input_schema" /\ p.input # p.current_input
     \/ p.cause = "output_schema" /\ p.output # p.current_output
     \/ p.cause = "view_context"

Replays(p, operation) == CurrentReplay(p, operation) \/ RetainedReplay(p, operation)

(**************************** MCP: the session *****************************)

Untouched(p) ==
  /\ p.interruption = None /\ p.drain = None /\ p.resume = None /\ p.transition = "unchanged"

SessionActive(p) ==
  /\ p.asp = "active" /\ p.lookup = "bound" /\ Untouched(p)
  /\ \/ p.event = "none" /\ p.initialize = None
     \/ p.event = "loss_recovered" /\ p.initialize = "transport_only"

(* A terminated session comes back only through a resume of its own, with   *)
(* the next generation, after the old one has drained.                      *)
SessionResumed(p) ==
  /\ p.asp = "active" /\ p.lookup = "bound"
  /\ p.event = "session_terminated" /\ p.initialize = "no_asp_reactivation"
  /\ p.transition = "incremented"
  /\ p.interruption = "owner" /\ p.drain = "drained" /\ p.resume = "accepted"

(* A lookup that failed changed nothing, and only the surface is published. *)
LookupFailed(p, operation) ==
  /\ operation = "publish_mcp_surface" /\ CurrentView(p)
  /\ p.asp = "active" /\ p.lookup = "not_found" /\ Untouched(p)
  /\ p.event = "lookup_recovered" /\ p.initialize = "transport_only"

(* Mutant: an interrupted session goes on with whatever its view is.       *)
SessionInterruptedAnyView(p, operation) ==
  p.asp = "interrupted" /\ p.lookup = "bound" /\ p.interruption = "owner"

(* While an interrupted session drains, completed actions are still shown.  *)
SessionInterrupted(p, operation) ==
  /\ Replays(p, operation)
  /\ p.asp = "interrupted" /\ p.lookup = "bound"
  /\ p.event = "session_terminated" /\ p.initialize = "no_asp_reactivation"
  /\ p.transition = "unchanged"
  /\ p.interruption = "owner" /\ p.drain = "closed_path_in_progress" /\ p.resume = None

SessionValid(p, operation) ==
  /\ p.durable
  /\ \/ SessionActive(p) \/ SessionResumed(p)
     \/ LookupFailed(p, operation) \/ SessionInterrupted(p, operation)

(************************** MCP: what is selected **************************)

BootstrapPinned(p, a) ==
  /\ p.negotiated /\ p.pinned /\ p.discovered
  /\ p.endpoint = p.server /\ p.endpoint = a.endpoint
  /\ p.manifest = a.manifest

ViewIsManifests(p, a) ==
  p.actions = a.actions /\ p.projection = a.projection /\ p.tuple.surface = a.surface

LocationsCover(p, a) ==
  /\ a.endpoint_clean /\ a.audience_https
  /\ a.issued = a.requested /\ p.server \in Range(a.issued)

ToolOf(action) == <<"asp.action", action>>
ToolMapsAction(p, a) ==
  /\ p.action = p.mapped /\ p.action = a.action /\ p.action \in p.actions
  /\ p.tool = ToolOf(p.action)
  /\ p.mode = a.action_mode
  /\ p.dialect = a.dialect
  /\ p.input = a.input /\ p.output = a.output

CredentialsKept(p, a) ==
  /\ p.authenticated /\ p.custody
  /\ p.audience = a.audience
  /\ p.proof_target = a.proof_target /\ p.proof_target = p.server
  /\ p.authorization = a.mode /\ p.composition = a.composition
  /\ \/ /\ p.authorization = "asp_native" /\ p.composition = "asp-native" /\ ~p.oauth
        /\ <<p.binding, p.scheme>> \in {<<"dpop", "dpop">>, <<"compatibility_bearer", "bearer">>,
                                        <<"mtls", "mtls">>}
     \/ /\ p.authorization = "mcp_oauth_dual_use" /\ p.composition = "mcp-oauth-dual-use"
        /\ p.oauth
        /\ p.binding \in {"compatibility_bearer", "mtls_bound_bearer"} /\ p.scheme = "bearer"
        /\ p.audience = p.server

(************************** MCP: one execution *****************************)

(* What an action that was never executed needs, on any carrier.           *)
FreshAdmission(d, action) ==
  /\ d.surface.current /\ d.surface.candidate = d.surface.retained
  /\ d.grant.active /\ GrantCoherent(d.grant) /\ action \in d.grant.issued
  /\ d.execution.recorded                    \* every hash is the recorded one
  /\ d.execution.policy = "allow" /\ d.execution.attested

(* Grant, key, surface and arguments are the bound ones, and the Grant and  *)
(* the key those of the authority's record.                                *)
TupleBound(p, a) ==
  /\ p.tuple = p.bound_tuple
  /\ p.tuple.grant = a.grant /\ p.tuple.key = a.key
  /\ p.session = a.session /\ p.request_trace = a.trace /\ p.result_trace = a.trace
  /\ p.request_span = a.request_span /\ p.result_span = a.result_span
  /\ p.result_span # p.request_span

CancellationClosed(p) ==
  \/ p.cancellation = "after_dispatch_ambiguous" /\ p.cancelled = "wait_only"
     /\ p.retry = "reconcile_same_key"
  \/ p.cancellation = "pre_admission_proven" /\ p.cancelled = "honored_pre_admission"
     /\ p.retry = None

ReceiptsKept(p) ==
  \/ p.receipt_required /\ p.receipt = "authenticated"
  \/ ~p.receipt_required /\ p.receipt = None

ExecutionValid(p, d, operation) ==
  LET a == d.authority IN
  /\ p.action \in d.grant.issued
  /\ TupleBound(p, a)
  /\ CurrentView(p) \/ CurrentReplay(p, operation) =>
       p.tuple.surface = d.surface.retained /\ p.tuple.arguments = d.execution.input
  /\ p.proof /\ ~p.task
  /\ ~Replays(p, operation) => FreshAdmission(d, p.action) /\ p.input = d.execution.schema
  /\ p.result_tuple = p.tuple
  /\ p.faithful
  /\ CancellationClosed(p)
  /\ p.key_required => p.tuple.key # None
  /\ ReceiptsKept(p)

McpValid(p, d, operation) ==
  LET a == d.authority IN
  IF operation = "issue_mcp_grant" THEN McpGrantIssuable(d)
  ELSE /\ BootstrapPinned(p, a)
       /\ ViewIsManifests(p, a)
       /\ CurrentView(p) \/ Replays(p, operation)
       /\ SessionValid(p, operation)
       /\ LocationsCover(p, a)
       /\ ToolMapsAction(p, a)
       /\ CredentialsKept(p, a)
       /\ CurrentView(p) => /\ d.surface.current /\ d.surface.candidate = d.surface.retained
                            /\ p.tuple.surface = d.surface.retained
       /\ \/ operation = "publish_mcp_surface" /\ CurrentView(p)
          \/ operation = "adapt_mcp_action" /\ CurrentView(p) /\ p.minimized
          \/ operation \in Executing /\ ExecutionValid(p, d, operation)
=============================================================================
