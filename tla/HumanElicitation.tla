-------------------------- MODULE HumanElicitation --------------------------
(****************************************************************************)
(* Human elicitation: an application or a Runtime asks a human through the  *)
(* other one, and the asker judges the answer against its own records.      *)
(*                                                                          *)
(* A hash stands for what it hashes.  A JSON document is a function from    *)
(* pointers (sequences of members) to leaves; objects are its branches, and *)
(* an object without members does not exist.  A JSON schema is the set of   *)
(* documents it accepts, and whether it refers to anything outside itself.  *)
(****************************************************************************)
EXTENDS Integers, FiniteSets, SequencesExt

CONSTANTS None

(****************************** documents **********************************)

Without(record, field) == [f \in DOMAIN record \ {field} |-> record[f]]
Intact(message) == message.hash = Without(message, "hash")

Under(pointer, doc) == {p \in DOMAIN doc : IsPrefix(pointer, p)}
Node(doc, pointer) ==
  IF pointer \in DOMAIN doc THEN <<"leaf", doc[pointer]>>
  ELSE IF Under(pointer, doc) # {} THEN <<"branch">> ELSE <<"absent">>
Pointers(doc) == UNION {{SubSeq(p, 1, n) : n \in 0..Len(p)} : p \in DOMAIN doc}

(* Mutant: members that only the new document has are not looked at.       *)
ChangedMembers(before, after) ==
  {p \in Pointers(before) : Node(before, p) # Node(after, p)}

(* The highest places at which two documents differ.                       *)
Changed(before, after) ==
  {p \in Pointers(before) \cup Pointers(after) :
     /\ Node(before, p) # Node(after, p)
     /\ \A n \in 0..(Len(p) - 1) :
          Node(before, SubSeq(p, 1, n)) = Node(after, SubSeq(p, 1, n))}

Placed(doc, pointer, value) ==
  [p \in (DOMAIN doc \ Under(pointer, doc)) \cup {pointer} |->
     IF p = pointer THEN value ELSE doc[p]]
Removed(doc, pointer) == [p \in DOMAIN doc \ Under(pointer, doc) |-> doc[p]]

(* One operation of a patch; None when the base does not have its path.    *)
Patched(doc, op) ==
  IF op.path = <<>> THEN IF op.op = "remove" THEN None ELSE op.value
  ELSE IF Node(doc, Front(op.path)) # <<"branch">> THEN None
  ELSE IF op.op # "add" /\ Node(doc, op.path) = <<"absent">> THEN None
  ELSE IF op.op = "remove" THEN Removed(doc, op.path)
  ELSE Placed(doc, op.path, op.value)

ApplyPatch(doc, patch) ==
  FoldLeft(LAMBDA d, op : IF d = None \/ op.op \notin {"add", "remove", "replace"}
                          THEN None ELSE Patched(d, op), doc, patch)

Within(paths, editable) == \A p \in paths : \E e \in editable : IsPrefix(e, p)

(******************************** messages *********************************)

SchemaSound(schema, hash) == schema.closed /\ hash = schema

(* An elicitation that stands by itself.                                   *)
RequestValid(q) ==
  /\ q.requester.type # q.presenter.type
  /\ q.context_hash = q.context
  /\ Intact(q)
  /\ q.kind = "clarify" => SchemaSound(q.body.schema, q.body.schema_hash)
  /\ q.kind = "choose" => /\ q.body.least <= q.body.most
                          /\ q.body.most <= Cardinality(q.body.options)
  /\ q.kind = "redline" => SchemaSound(q.body.schema, q.body.schema_hash)

ResponseValid(a) == Intact(a)

(* The participants are those that were authenticated, and the pair is      *)
(* about one elicitation in the current session, Grant and surface.         *)
ParticipantsMatch(r, q, a) ==
  /\ r.authenticated /\ r.selected
  /\ q.requester = r.requester /\ q.presenter = r.presenter /\ a.responder = r.presenter

PairBound(r, q, a) ==
  /\ \A f \in {"elicitation", "revision", "kind", "tuple", "context_hash"} : q[f] = a[f]
  /\ a.request_hash = q.hash
  /\ q.tuple = r.tuple

(********************************* replay **********************************)

(* Mutant: the answer may differ from the recorded one.                    *)
ExactReplayOfRequest(r, q, a) ==
  r.lifecycle = "resolved" /\ q.revision = r.revision /\ q.hash = r.request

ExactReplay(r, q, a) ==
  /\ r.lifecycle = "resolved"
  /\ q.revision = r.revision
  /\ q.hash = r.request
  /\ a.hash = r.response

(* A revision is answered once; after that only the very same exchange is   *)
(* repeated, and only while its record is retained.                         *)
RevisionAdmits(r, q, a) ==
  /\ q.revision \in r.revision..(r.revision + 1)
  /\ IF ExactReplay(r, q, a)
     THEN /\ r.accepted_at # None
          /\ a.resolved <= r.accepted_at /\ r.accepted_at <= r.now
          /\ r.replay = "retained"
          /\ r.now <= r.accepted_at + r.retention
     ELSE /\ r.replay = "not_applicable" /\ r.accepted_at = None
          /\ q.revision # r.revision
          /\ r.lifecycle # "resolved"
  /\ r.lifecycle \in {"pending", "resolved"}
  /\ a.disposition = "answered" /\ r.use = "informational"
  /\ a.resolved <= r.now /\ a.resolved <= q.expires

(******************************** the answer *******************************)

ClarifyFits(q, a) == a.body.size <= q.body.most /\ a.body.answer \in q.body.schema.accepts

ChoiceFits(q, a) ==
  /\ a.body.chosen \subseteq q.body.options
  /\ Cardinality(a.body.chosen) \in q.body.least..q.body.most

(* A step-up names the verifier that really verified this very elicitation, *)
(* and is young enough.                                                     *)
StepUpFits(r, q, a) ==
  /\ r.step_up = "verified" /\ ~r.secret
  /\ a.body.verifier = r.verifier
  /\ r.step_up_result =
       [verifier |-> a.body.verifier, audience |-> r.requester, subject |-> r.subject,
        elicitation |-> q.elicitation, revision |-> q.revision, context |-> q.context_hash,
        achieved |-> a.body.achieved, authenticated |-> a.body.authenticated,
        expires |-> a.body.expires]
  /\ q.body.required \subseteq a.body.achieved
  /\ a.body.authenticated <= a.resolved /\ a.resolved <= r.now /\ r.now <= a.body.expires
  /\ r.now - a.body.authenticated <= q.body.max_age

(* An edited input replaces the input the asker holds now, only where the   *)
(* request allows it.                                                       *)
EditFits(r, q, a) ==
  /\ r.validated
  /\ q.body.base = r.base /\ q.body.base_hash = r.base
  /\ q.body.schema_hash = r.schema /\ r.schema.closed
  /\ q.context.input = q.body.base_hash
  /\ a.body.candidate_hash = a.body.candidate
  /\ a.body.candidate \in r.schema.accepts
  /\ Within(Changed(r.base, a.body.candidate), q.body.editable)

(* A redline does the same with a patch, and may allow every path.         *)
RedlineFits(r, q, a) ==
  LET candidate == ApplyPatch(r.base, a.body.patch) IN
  /\ candidate # None
  /\ a.body.patch \in q.body.schema.accepts
  /\ r.schema.closed /\ candidate \in r.schema.accepts
  /\ r.validated
  /\ q.body.base_hash = r.base /\ q.context.input = q.body.base_hash
  /\ a.body.base_hash = q.body.base_hash
  /\ a.body.candidate_hash = candidate
  /\ q.body.editable # {} => Within(Changed(r.base, candidate), q.body.editable)

AnswerFits(r, q, a) ==
  /\ CASE q.kind = "clarify" -> ClarifyFits(q, a)
       [] q.kind = "choose" -> ChoiceFits(q, a)
       [] q.kind = "step_up" -> StepUpFits(r, q, a)
       [] q.kind = "edit" -> EditFits(r, q, a)
       [] q.kind = "redline" -> RedlineFits(r, q, a)
  /\ q.kind # "step_up" => /\ r.step_up = "not_applicable" /\ ~r.secret
                           /\ r.verifier = None /\ r.step_up_result = None

(* What validate_human_elicitation_projection accepts.                     *)
ElicitationValid(r, q, a) ==
  /\ RequestValid(q) /\ ResponseValid(a)
  /\ ParticipantsMatch(r, q, a)
  /\ PairBound(r, q, a)
  /\ RevisionAdmits(r, q, a)
  /\ AnswerFits(r, q, a)

(* The agent only sees an answer or a choice, for this binding, and nothing *)
(* of a step-up or of an edited input.                                      *)
AgentProjection(q, a) ==
  [origin |-> "presenter", exposure |-> "minimized", secret |-> FALSE,
   binding |-> <<q.tuple, q.context_hash, q.hash>>,
   value |-> [kind |-> q.kind,
              answer |-> IF q.kind = "clarify" THEN a.body.answer ELSE a.body.chosen]]
AgentProjectionValid(p, q, a) ==
  q.kind \in {"clarify", "choose"} /\ p = AgentProjection(q, a)
=============================================================================
