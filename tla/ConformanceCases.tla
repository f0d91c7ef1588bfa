-------------------------- MODULE ConformanceCases -------------------------
(****************************************************************************)
(* A party that judges documents of one kind against its own records, again *)
(* and again.  A document is offered, the records may move on before it is   *)
(* judged, and an accepted document may change the records: it fixes the     *)
(* revision it answers, the representation it shows, the purpose of the      *)
(* next Grant or the state of an MCP session.  Documents that were accepted  *)
(* before may be offered again.                                             *)
(*                                                                          *)
(* What is accepted is the repository's validators, each in its own module.  *)
(* Who keeps the records is not in the repository: Recorded says what the    *)
(* validators' contexts say they are.                                       *)
(****************************************************************************)
EXTENDS Naturals, FiniteSets, SequencesExt

CONSTANTS
  None,
  ShownLimit, ActionOrder,      \* of ImpactSimulation
  CoreControlEvents,            \* of SurfaceDocuments
  FirstRecords(_),              \* the records a kind may begin with
  Documents(_, _),              \* what may be offered to records of a kind
  Changes(_, _),                \* what records may become by themselves
  MaxAccepted(_, _), MaxChanges(_) \* bounds

ASSUME NoneIsNoNumber == None \notin Nat
ASSUME ActionsAreNamed == ActionOrder \in Seq(Range(ActionOrder)) /\ ShownLimit \in Nat

VARIABLES kind, records, offered, accepted, changes
vars == <<kind, records, offered, accepted, changes>>

Impact == INSTANCE ImpactSimulation
Human == INSTANCE HumanElicitation
Surface == INSTANCE SurfaceDocuments
Carrier == INSTANCE CarrierBindings
Wire == INSTANCE McpSession

Kinds == {"impact", "elicitation", "limits", "risk", "purpose", "ahp", "binding", "wire"}

(* A purpose binding is judged together with what the Runtime has on record. *)
PurposeProjection(d, r) ==
  [request |-> d.request, consent |-> d.consent, grant |-> d.grant, returned |-> d.returned,
   session |-> d.session, enforced |-> d.enforced, use |-> d.use, scope |-> d.scope,
   attenuation |-> d.attenuation, parent |-> r.parent,
   records |-> [scope |-> r.scope, purpose |-> r.purposes[d.grant.purpose],
                task |-> IF d.grant.task = None THEN None ELSE r.tasks[d.grant.task]]]

Accepts(k, d, r) ==
  CASE k = "limits" ->
         /\ Surface!LimitsValid(d.limits, r.surface)
         /\ Surface!CapacityErrorValid(d.error,
              [declared |-> Range(Surface!AllLimitIds(d.limits)), disclosable |-> r.disclosable])
    [] k = "elicitation" ->
         /\ Human!ElicitationValid(r, d.request, d.response)
         /\ d.shown # None => Human!AgentProjectionValid(d.shown, d.request, d.response)
    [] k = "impact" ->
         Impact!ImpactProjectionValid(d, r.source, r.current, r.now, r.surface, r.grant)
    [] k = "wire" -> Wire!Valid(d, Wire!SessionContext(r, d))
    [] k = "purpose" -> Surface!PurposeValid(PurposeProjection(d, r))
    [] k = "risk" -> IF d.operation = "publish" THEN Surface!PublisherHintValid(d, r)
                                                ELSE Surface!RuntimeHintValid(d, r)
    [] k = "ahp" -> Carrier!AhpValid(d, r)
    [] k = "binding" -> Carrier!McpValid(d.projection, r, d.operation)

(* The input an accepted edit or redline leaves; other answers leave none.  *)
Edited(d, r) ==
  CASE d.request.kind = "edit" -> d.response.body.candidate
    [] d.request.kind = "redline" -> Human!ApplyPatch(r.base, d.response.body.patch)
    [] OTHER -> r.base

Recorded(k, d, r) ==
  CASE k = "elicitation" /\ r.lifecycle = "pending" ->
         [r EXCEPT !.lifecycle = "resolved", !.revision = d.request.revision,
                   !.request = d.request.hash, !.response = d.response.hash,
                   !.accepted_at = r.now, !.replay = "retained", !.base = Edited(d, r),
                   !.step_up = "not_applicable", !.step_up_result = None, !.verifier = None]
    [] k = "purpose" -> [r EXCEPT !.parent = d.grant]
    [] k = "ahp" -> [r EXCEPT !.revision = d.revision, !.fingerprint = d.fingerprint]
    [] k = "wire" -> Wire!AfterMessage(r, d)
    [] OTHER -> r

Init ==
  /\ kind \in Kinds /\ records \in FirstRecords(kind)
  /\ offered = None /\ accepted = <<>> /\ changes = 0

Offer ==
  /\ offered = None /\ Len(accepted) < MaxAccepted(kind, records)
  /\ offered' \in Documents(kind, records)
                    \cup {accepted[i].document : i \in DOMAIN accepted}
  /\ UNCHANGED <<kind, records, accepted, changes>>

(* The world moves on, also between the offer and the judgement.           *)
Change ==
  /\ changes < MaxChanges(kind)
  /\ records' \in Changes(kind, records) /\ changes' = changes + 1
  /\ UNCHANGED <<kind, offered, accepted>>

Judge ==
  /\ offered # None /\ offered' = None
  /\ IF Accepts(kind, offered, records)
     THEN /\ accepted' = Append(accepted, [document |-> offered, records |-> records])
          /\ records' = Recorded(kind, offered, records)
     ELSE UNCHANGED <<accepted, records>>
  /\ UNCHANGED <<kind, changes>>

Next == Offer \/ Change \/ Judge
Spec == Init /\ [][Next]_vars

(***************************** the environment *****************************)

IsList(s) == s \in Seq({s[i] : i \in DOMAIN s})
IsDocument(doc) == \A p \in DOMAIN doc : IsList(p)
IsRecord(x) == x = [f \in DOMAIN x |-> x[f]]

(* What a document and the records it is offered to are made of, as far as  *)
(* a proof needs it: what the JSON schemas settle before a validator runs.  *)
(* In an MCP session, moreover, a client lists on only while there is a     *)
(* next page, an answer is to a call, and its links lead into the store.   *)
Shaped(k, r, d) ==
  CASE k = "impact" ->
         /\ DOMAIN r.source.deadlines = Impact!Deadlines
         /\ \A n \in Impact!Deadlines : r.source.deadlines[n] \in Nat \cup {None}
         /\ r.now \in Nat /\ d.valid_until \in Nat
         /\ IsFiniteSet(DOMAIN r.source.manifest)
         /\ DOMAIN r.source.manifest \subseteq Range(ActionOrder)
         /\ \A id \in DOMAIN r.source.manifest :
              r.source.manifest[id].risk \in Range(Impact!Risks)
    [] k = "elicitation" ->
         /\ {"lifecycle", "revision", "request", "response"} \subseteq DOMAIN r
         /\ r.revision \in Nat
         /\ \A m \in {d.request, d.response} : IsRecord(m) /\ "hash" \in DOMAIN m
         /\ d.request.kind \in {"edit", "redline"} =>
              /\ IsDocument(r.base) /\ \A e \in d.request.body.editable : IsList(e)
              /\ LET candidate == d.response.body.candidate_hash IN
                 ~(d.request.kind = "redline" /\ candidate = None) => IsDocument(candidate)
    [] k = "risk" ->
         /\ IsList(d.preferences) /\ \A i \in DOMAIN d.preferences : IsList(d.preferences[i])
         /\ \A l \in Range(Surface!Languages(d.hint)) : IsList(l)
    [] k = "purpose" -> "parent" \in DOMAIN r
    [] k = "ahp" -> /\ {"revision", "fingerprint"} \subseteq DOMAIN r
                    /\ r.revision \in Nat /\ d.revision \in Nat
    [] k = "wire" ->
         /\ "listing" \in DOMAIN r
         /\ {"started", "cursor", "cursors", "names", "actions"} \subseteq DOMAIN r.listing
         /\ d.type = "list" /\ d.id \notin r.used => ~r.listing.started \/ r.listing.cursor # None
         /\ d.type = "page" => IsList(d.tools)
         /\ d.type = "answer" =>
              /\ IsList(d.links) /\ Range(d.links) \subseteq DOMAIN r.store
              /\ d.id # 0
              /\ r.asked # None => r.asked.id # None
              /\ r.asked # None /\ r.asked.id = d.id =>
                   r.asked.type = "call" /\ r.asked.payload # None
    [] OTHER -> TRUE

(* When the world moves on, what was recorded of accepted documents stays.  *)
Keeps(k, r, s) ==
  CASE k = "elicitation" ->
         \A f \in {"revision", "request", "response"} : s[f] = r[f]
    [] k = "purpose" -> s.parent = r.parent
    [] k = "ahp" -> s.revision = r.revision /\ s.fingerprint = r.fingerprint
    [] k = "wire" -> s.listing = r.listing
    [] OTHER -> TRUE

(******************************* properties ********************************)

Of(k) == IF kind = k THEN DOMAIN accepted ELSE {}
Document(i) == accepted[i].document
Records(i) == accepted[i].records

(* The smallest set that is closed under companions and contains id.       *)
Needs(m, id) ==
  LET Closed(s) == \A x \in s : m[x].companions \subseteq s IN
  {x \in DOMAIN m : \A s \in SUBSET DOMAIN m : id \in s /\ Closed(s) => x \in s}

(* What a user is told is covered can happen: no check blocks it, everything *)
(* it needs, however indirectly, is shown with it and requested too, and     *)
(* every recovery it promises is a requested action that undoes effects of   *)
(* this very action.                                                         *)
CoverageMeansPossible ==
  \A i \in Of("impact") : \A j \in DOMAIN Document(i).examples :
    LET e == Document(i).examples[j]
        source == Records(i).source IN
    e.outcome = "covered" =>
      /\ \A c \in DOMAIN source.checks : source.checks[c].state # "blocking"
      /\ Needs(source.manifest, e.action.action)
           = e.action.companions \cup {e.action.action}
      /\ Needs(source.manifest, e.action.action) \subseteq source.requested
      /\ \A a \in e.action.recovery.available :
           /\ a \in source.requested
           /\ \E t \in source.manifest[a].targets :
                t.action = e.action.action /\ t.effects \subseteq DOMAIN e.action.effects

(* A result never hides the worst: no action that is left out is riskier     *)
(* than an unrequested one that is shown, and what is left out is counted.   *)
WorstIsShown ==
  \A i \in Of("impact") :
    LET m == Records(i).source.manifest
        shown == {Document(i).examples[j].action.action : j \in DOMAIN Document(i).examples}
        others == DOMAIN m \ Records(i).source.requested IN
    /\ \A x \in others \ shown : \A y \in others \cap shown :
         Impact!Rank(m[x].risk) <= Impact!Rank(m[y].risk)
    /\ Document(i).coverage.truncated <=> others \ shown # {}

(* A result that is shown is still true when it is shown: nothing it rests   *)
(* on has expired or been replaced since it was evaluated, not even between  *)
(* its offer and its judgement, and nothing has been issued.                 *)
ImpactNeverStale ==
  \A i \in Of("impact") :
    LET r == Records(i) IN
    /\ \A n \in DOMAIN r.source.deadlines :
         r.source.deadlines[n] # None => r.now < r.source.deadlines[n]
    /\ r.current.match # None => r.now < r.current.match.valid_until
    /\ Document(i).bindings = r.current /\ r.grant.issued = {}

(* However often an exchange is delivered, and whatever happens in between,  *)
(* a revision has one answer, it changes the input once, and revisions are   *)
(* answered in their order.                                                  *)
OneAnswerPerRevision ==
  \A i, j \in Of("elicitation") : i < j =>
    LET r == Document(i).request.revision IN
    /\ r <= Document(j).request.revision
    /\ r = Document(j).request.revision =>
         /\ Document(i).request = Document(j).request
         /\ Document(i).response = Document(j).response
         /\ Records(j).lifecycle = "resolved"

(* An accepted edit touches no value outside the places the request offered  *)
(* for editing, in the input that is current when it is accepted.            *)
EditsStayInside ==
  \A i \in Of("elicitation") :
    LET q == Document(i).request
        before == Records(i).base
        after == Edited(Document(i), Records(i)) IN
    Records(i).lifecycle = "pending" /\ q.kind \in {"edit", "redline"}
      /\ q.body.editable # {} =>
      \A p \in DOMAIN before \cup DOMAIN after :
        \/ \E e \in q.body.editable : IsPrefix(e, p)
        \/ p \in DOMAIN before \cap DOMAIN after /\ before[p] = after[p]

(* Along a chain of Grants the purpose stays and a task, once there, stays.  *)
TaskNeverWidens ==
  \A i, j \in Of("purpose") : i < j =>
    /\ Document(j).grant.purpose = Document(i).grant.purpose
    /\ Document(i).grant.task # None => Document(j).grant.task = Document(i).grant.task

(* A representation never goes back and a revision never has two contents,   *)
(* however the messages that carry it are repeated or reordered.             *)
AhpNeverForks ==
  \A i, j \in Of("ahp") : i < j =>
    /\ Document(i).revision <= Document(j).revision
    /\ Document(i).revision = Document(j).revision =>
         Document(i).fingerprint = Document(j).fingerprint

(* An action is executed for the first time only while its session is live   *)
(* and the Grant, the policy and the surface in force allow it; otherwise    *)
(* only the persisted outcome of an earlier execution is shown.              *)
FreshIsAuthorized ==
  \A i \in Of("binding") :
    LET p == Document(i).projection
        d == Records(i) IN
    Document(i).operation \in Carrier!Executing =>
      \/ /\ p.asp = "active" /\ p.lookup = "bound"
         /\ d.grant.active /\ p.action \in d.grant.issued \cap d.grant.requested
         /\ d.execution.policy = "allow"
         /\ p.tuple.surface = d.surface.candidate /\ p.view = p.current_view
      \/ p.record = "exact_authenticated" /\ p.persisted /\ p.disclosure = "allowed"

(* What a user reads is the closest localization to the first language of    *)
(* theirs that has any: no longer range of it, and no earlier language, would *)
(* have found another.                                                       *)
ClosestIsRendered ==
  \A i \in Of("risk") :
    LET d == Document(i)
        languages == Range(Surface!Languages(d.hint))
        Found(tag) == {l \in languages : IsPrefix(l, tag)} IN
    d.operation = "render" =>
      IF \A n \in DOMAIN d.preferences : Found(d.preferences[n]) = {}
      THEN d.rendered.language = d.hint.default
      ELSE \E n \in DOMAIN d.preferences :
             /\ \A k \in 1..(n - 1) : Found(d.preferences[k]) = {}
             /\ d.rendered.language \in Found(d.preferences[n])
             /\ \A l \in Found(d.preferences[n]) : Len(l) <= Len(d.rendered.language)

ListingIsOneToOne ==
  kind = "wire" => Wire!ListingIsOneToOne([i \in DOMAIN accepted |-> Document(i)])

ClaimsAreBacked ==
  \A i \in Of("wire") :
    Document(i).type = "answer" => Wire!ClaimIsBacked(Document(i), Records(i))
=============================================================================
