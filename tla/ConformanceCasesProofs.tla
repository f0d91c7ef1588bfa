----------------------- MODULE ConformanceCasesProofs -----------------------
(***************************************************************************)
(* What holds of a party that judges documents, for records and documents  *)
(* of any size, any number of them and any moves of the world.             *)
(*                                                                         *)
(* Everything accepted passed its validator with the records of that moment *)
(* (Judged).  A property of one document follows from what its validator   *)
(* checks; one that compares documents needs an invariant that says what    *)
(* the records remember of those accepted before.                          *)
(*                                                                         *)
(* Who offers the documents and keeps the records is not in the repository. *)
(* Environment is what the theorems ask of it: documents and records have   *)
(* their shape (Shaped), and what was recorded of an accepted document is   *)
(* changed by accepting another one only (Keeps).  The worlds of MCCases    *)
(* are such environments.                                                  *)
(***************************************************************************)
EXTENDS ConformanceCases, Induction

(* A list of some things is a list of its own things, and of any more.     *)
LEMMA ListOfItsOwn ==
  ASSUME NEW S, NEW s \in Seq(S), NEW T, \A i \in DOMAIN s : s[i] \in T
  PROVE  s \in Seq(T)
  <1>1. s \in [1..Len(s) -> T] /\ Len(s) \in Nat
    OBVIOUS
  <1> QED BY <1>1

(* One more accepted document: the list grows by it and keeps the others.  *)
LEMMA OneMore ==
  ASSUME NEW s, s \in Seq({s[i] : i \in DOMAIN s}), NEW x,
         NEW t, t = Append(s, x)
  PROVE  /\ t \in Seq({t[i] : i \in DOMAIN t})
         /\ Len(s) \in Nat /\ DOMAIN s = 1..Len(s)
         /\ DOMAIN t = 1..(Len(s) + 1)
         /\ t[Len(s) + 1] = x
         /\ \A i \in DOMAIN s : t[i] = s[i]
  <1> DEFINE S == {s[i] : i \in DOMAIN s}
             T == S \cup {x}
  <1>1. s \in Seq(T)
    BY ListOfItsOwn
  <1>2. x \in T
    OBVIOUS
  <1> HIDE DEF T
  <1>3. t \in Seq(T)
    BY <1>1, <1>2
  <1>4. t \in Seq({t[i] : i \in DOMAIN t})
    BY <1>3, ListOfItsOwn
  <1>5. /\ Len(s) \in Nat /\ DOMAIN s = 1..Len(s)
        /\ DOMAIN t = 1..(Len(s) + 1)
        /\ t[Len(s) + 1] = x
        /\ \A i \in DOMAIN s : t[i] = s[i]
    BY <1>1, <1>2
  <1> QED BY <1>4, <1>5

-------------------------------------------------------------------------------
(* Everything accepted passed the validator of its kind.                   *)
Judged ==
  /\ accepted \in Seq({accepted[i] : i \in DOMAIN accepted})
  /\ \A i \in DOMAIN accepted : Accepts(kind, Document(i), Records(i))

(* Nothing is accepted at first.                                           *)
LEMMA JudgedInitially == Init => Judged
  <1> SUFFICES ASSUME Init PROVE Judged
    OBVIOUS
  <1>1. accepted = <<>> /\ DOMAIN accepted = {}
    BY DEF Init
  <1> QED BY <1>1 DEF Judged

(* A document is accepted: it is listed with the records it was judged by, *)
(* and what was listed before stays.                                       *)
Accepting ==
  /\ offered # None /\ Accepts(kind, offered, records)
  /\ kind' = kind /\ records' = Recorded(kind, offered, records)
  /\ accepted' \in Seq({accepted'[i] : i \in DOMAIN accepted'})
  /\ Len(accepted) \in Nat /\ DOMAIN accepted = 1..Len(accepted)
  /\ DOMAIN accepted' = 1..(Len(accepted) + 1)
  /\ accepted'[Len(accepted) + 1].document = offered
  /\ accepted'[Len(accepted) + 1].records = records
  /\ \A i \in DOMAIN accepted : accepted'[i] = accepted[i]

(* A step accepts a document, or the world moves on, or nothing is learnt. *)
LEMMA StepKinds ==
  Judged /\ [Next]_vars =>
    \/ Accepting
    \/ Change /\ UNCHANGED <<kind, accepted>>
    \/ UNCHANGED <<kind, accepted, records>>
  <1> SUFFICES ASSUME Judged, [Next]_vars
               PROVE  \/ Accepting
                      \/ Change /\ UNCHANGED <<kind, accepted>>
                      \/ UNCHANGED <<kind, accepted, records>>
    OBVIOUS
  <1>1. CASE Judge /\ Accepts(kind, offered, records)
    <2> DEFINE x == [document |-> offered, records |-> records]
    <2>1. /\ accepted' = Append(accepted, x) /\ kind' = kind /\ offered # None
          /\ records' = Recorded(kind, offered, records)
      BY <1>1 DEF Judge
    <2>2. x.document = offered /\ x.records = records
      OBVIOUS
    <2> HIDE DEF x
    <2>3. /\ accepted' \in Seq({accepted'[i] : i \in DOMAIN accepted'})
          /\ Len(accepted) \in Nat /\ DOMAIN accepted = 1..Len(accepted)
          /\ DOMAIN accepted' = 1..(Len(accepted) + 1)
          /\ accepted'[Len(accepted) + 1] = x
          /\ \A i \in DOMAIN accepted : accepted'[i] = accepted[i]
      BY <2>1, OneMore DEF Judged
    <2> QED BY <1>1, <2>1, <2>2, <2>3 DEF Accepting
  <1>2. CASE ~(Judge /\ Accepts(kind, offered, records))
    BY <1>2 DEF Next, Offer, Change, Judge, vars
  <1> QED BY <1>1, <1>2

(* The new place in the list, or an old one.                               *)
LEMMA Places ==
  ASSUME Accepting, NEW i \in DOMAIN accepted'
  PROVE  \/ /\ i = Len(accepted) + 1
            /\ Document(i)' = offered /\ Records(i)' = records
         \/ /\ i \in DOMAIN accepted /\ i < Len(accepted) + 1
            /\ Document(i)' = Document(i) /\ Records(i)' = Records(i)
  <1>1. i = Len(accepted) + 1 \/ (i \in DOMAIN accepted /\ i < Len(accepted) + 1)
    BY DEF Accepting
  <1> QED BY <1>1 DEF Accepting, Document, Records

(* What is accepted has just been judged, and stays listed with what it    *)
(* was judged by.                                                          *)
LEMMA JudgedStep == Judged /\ [Next]_vars => Judged'
  <1> SUFFICES ASSUME Judged, [Next]_vars PROVE Judged'
    OBVIOUS
  <1>1. CASE Accepting
    <2>1. ASSUME NEW i \in DOMAIN accepted'
          PROVE  Accepts(kind', Document(i)', Records(i)')
      <3>1. kind' = kind /\ Accepts(kind, offered, records)
        BY <1>1 DEF Accepting
      <3>2. \A k \in DOMAIN accepted : Accepts(kind, Document(k), Records(k))
        BY DEF Judged
      <3> QED BY <1>1, <3>1, <3>2, Places
    <2> QED BY <1>1, <2>1 DEF Judged, Accepting
  <1>2. CASE UNCHANGED <<kind, accepted>>
    BY <1>2 DEF Judged, Document, Records
  <1> QED BY <1>1, <1>2, StepKinds

(* So whatever is listed as accepted passed its validator.                 *)
LEMMA JudgedAlways == Spec => []Judged
  BY JudgedInitially, JudgedStep, PTL DEF Spec

(* A first execution that a binding admits has its session live and the    *)
(* Grant, the policy and the surface in force allow it: every path of      *)
(* McpValid that is not a replay comes through FreshAdmission and          *)
(* SessionActive.                                                          *)
THEOREM FreshAuthorized == Spec => []FreshIsAuthorized
  <1>1. Judged => FreshIsAuthorized
    <2> SUFFICES ASSUME Judged, NEW i \in Of("binding"),
                        Document(i).operation \in Carrier!Executing
                 PROVE  LET p == Document(i).projection
                            d == Records(i) IN
                        \/ /\ p.asp = "active" /\ p.lookup = "bound"
                           /\ d.grant.active /\ p.action \in d.grant.issued \cap d.grant.requested
                           /\ d.execution.policy = "allow"
                           /\ p.tuple.surface = d.surface.candidate /\ p.view = p.current_view
                        \/ /\ p.record = "exact_authenticated"
                           /\ p.persisted /\ p.disclosure = "allowed"
      BY DEF FreshIsAuthorized
    <2> DEFINE p == Document(i).projection
               d == Records(i)
               o == Document(i).operation
    <2>1. kind = "binding" /\ i \in DOMAIN accepted
      BY DEF Of
    <2>2. Carrier!McpValid(p, d, o)
      BY <2>1 DEF Judged, Accepts
    <2>3. o \in {"execute_mcp_action", "mediate_mcp_action"}
      BY DEF Carrier!Executing
    <2> HIDE DEF p, d, o
    <2>4. ~ (o = "issue_mcp_grant") /\ ~ (o = "publish_mcp_surface") /\ ~ (o = "adapt_mcp_action")
      BY <2>3
    <2>5. Carrier!ExecutionValid(p, d, o) /\ Carrier!SessionValid(p, o)
      BY <2>2, <2>4 DEF Carrier!McpValid
    <2>6. CASE Carrier!Replays(p, o)
      BY <2>6 DEF Carrier!Replays, Carrier!CurrentReplay, Carrier!RetainedReplay,
                  Carrier!CompletedRecord, p
    <2>7. CASE ~Carrier!Replays(p, o)
      <3>1. Carrier!CurrentView(p)
        BY <2>2, <2>4, <2>7 DEF Carrier!McpValid
      <3>2. p.view = p.current_view /\ p.tuple.surface = d.surface.retained
        BY <2>5, <3>1 DEF Carrier!CurrentView, Carrier!ViewUnchanged, Carrier!ExecutionValid
      <3>3. Carrier!FreshAdmission(d, p.action)
        BY <2>5, <2>7 DEF Carrier!ExecutionValid
      <3>4. /\ d.grant.active /\ p.action \in d.grant.issued \cap d.grant.requested
            /\ d.execution.policy = "allow"
            /\ p.tuple.surface = d.surface.candidate
        BY <3>2, <3>3 DEF Carrier!FreshAdmission, Carrier!GrantCoherent
      <3>5. p.asp = "active" /\ p.lookup = "bound"
        BY <2>4, <2>5, <2>7 DEF Carrier!SessionValid, Carrier!SessionActive,
             Carrier!SessionResumed, Carrier!LookupFailed, Carrier!SessionInterrupted
      <3> QED BY <3>2, <3>4, <3>5 DEF p, d
    <2> QED BY <2>6, <2>7
  <1> QED BY JudgedAlways, <1>1, PTL
-------------------------------------------------------------------------------
(* What the next theorems ask of the other parties: documents have their    *)
(* shape, and what a party recorded of an acceptance is not taken back.     *)
OfferShaped == offered # None => Shaped(kind, records, offered)
RecordsKept == Change => Keeps(kind, records, records')
Environment == []OfferShaped /\ [][RecordsKept]_vars

(* An AHP party's records are those of the last representation it accepted, *)
(* and no earlier one is ahead of them or has another content.             *)
AhpRecorded ==
  \A i \in Of("ahp") :
    /\ Document(i).revision \in Nat /\ records.revision \in Nat
    /\ Document(i).revision <= records.revision
    /\ Document(i).revision = records.revision =>
         Document(i).fingerprint = records.fingerprint

(* What is inductive about representations.                                *)
AhpInv == AhpRecorded /\ AhpNeverForks

(* An accepted representation is at least as new as the one on record, and *)
(* the same if it is of the same revision; then it is on record itself.    *)
LEMMA AhpStep ==
  Judged /\ AhpInv /\ OfferShaped /\ [Next /\ RecordsKept]_vars => AhpInv'
  <1> SUFFICES ASSUME Judged, AhpInv, OfferShaped, [Next]_vars, [RecordsKept]_vars
               PROVE  AhpInv'
    OBVIOUS
  <1>1. CASE Accepting /\ kind = "ahp"
    <2> DEFINE d == offered
               r == records
               r1 == records'
    <2>1. Carrier!AhpForward(d, r)
      <3>1. Accepts("ahp", d, r)
        BY <1>1 DEF Accepting
      <3>2. Carrier!AhpValid(d, r)
        BY <3>1 DEF Accepts
      <3> QED BY <3>2 DEF Carrier!AhpValid
    <2>2. /\ "revision" \in DOMAIN r /\ "fingerprint" \in DOMAIN r
          /\ r.revision \in Nat /\ d.revision \in Nat
      <3>1. Shaped("ahp", r, d)
        BY <1>1 DEF OfferShaped, Accepting
      <3> QED BY <3>1 DEF Shaped
    <2>3. r1.revision = d.revision /\ r1.fingerprint = d.fingerprint
      <3>1. r1 = [r EXCEPT !.revision = d.revision, !.fingerprint = d.fingerprint]
        BY <1>1 DEF Accepting, Recorded
      <3> QED BY <2>2, <3>1
    <2>4. \A i \in DOMAIN accepted :
            /\ Document(i).revision \in Nat
            /\ Document(i).revision <= r.revision
            /\ Document(i).revision = r.revision => Document(i).fingerprint = r.fingerprint
      BY <1>1 DEF AhpInv, AhpRecorded, Of
    <2>5. \A i, j \in DOMAIN accepted : i < j =>
            /\ Document(i).revision <= Document(j).revision
            /\ Document(i).revision = Document(j).revision =>
                 Document(i).fingerprint = Document(j).fingerprint
      BY <1>1 DEF AhpInv, AhpNeverForks, Of
    <2> HIDE DEF d, r, r1
    <2>6. /\ d.revision >= r.revision
          /\ d.revision = r.revision => d.fingerprint = r.fingerprint
      BY <2>1 DEF Carrier!AhpForward
    <2>7. ASSUME NEW i \in DOMAIN accepted'
          PROVE  /\ Document(i)'.revision \in Nat /\ r1.revision \in Nat
                 /\ Document(i)'.revision <= r1.revision
                 /\ Document(i)'.revision = r1.revision =>
                      Document(i)'.fingerprint = r1.fingerprint
      <3>1. CASE Document(i)' = d
        BY <2>2, <2>3, <3>1
      <3>2. CASE i \in DOMAIN accepted /\ Document(i)' = Document(i)
        BY <2>2, <2>3, <2>4, <2>6, <3>2
      <3> QED BY <1>1, <3>1, <3>2, Places DEF d
    <2>8. ASSUME NEW i \in DOMAIN accepted', NEW j \in DOMAIN accepted', i < j
          PROVE  /\ Document(i)'.revision <= Document(j)'.revision
                 /\ Document(i)'.revision = Document(j)'.revision =>
                      Document(i)'.fingerprint = Document(j)'.fingerprint
      <3>1. CASE j = Len(accepted) + 1 /\ Document(j)' = d
        BY <2>3, <2>7, <3>1
      <3>2. CASE j \in DOMAIN accepted /\ j < Len(accepted) + 1 /\ Document(j)' = Document(j)
        <4>1. i \in DOMAIN accepted /\ Document(i)' = Document(i)
          <5>1. i # Len(accepted) + 1
            BY <1>1, <2>8, <3>2 DEF Accepting
          <5> QED BY <1>1, <5>1, Places
        <4> QED BY <2>5, <2>8, <3>2, <4>1
      <3> QED BY <1>1, <3>1, <3>2, Places DEF d
    <2> QED BY <2>7, <2>8 DEF AhpInv, AhpRecorded, AhpNeverForks, Of, r1
  <1>2. CASE Change /\ UNCHANGED <<kind, accepted>>
    <2>1. Keeps(kind, records, records') \/ UNCHANGED records
      BY <1>2 DEF RecordsKept, vars
    <2>2. kind = "ahp" => /\ records'.revision = records.revision
                          /\ records'.fingerprint = records.fingerprint
      BY <2>1 DEF Keeps
    <2> QED BY <1>2, <2>2 DEF AhpInv, AhpRecorded, AhpNeverForks, Of, Document
  <1>3. CASE UNCHANGED <<kind, accepted, records>>
    BY <1>3 DEF AhpInv, AhpRecorded, AhpNeverForks, Of, Document
  <1>4. CASE Accepting /\ kind # "ahp"
    BY <1>4 DEF Accepting, AhpInv, AhpRecorded, AhpNeverForks, Of
  <1> QED BY <1>1, <1>2, <1>3, <1>4, StepKinds

(* However messages are repeated or reordered, a party that checks each    *)
(* against its record accepts representations in the order of their        *)
(* revisions, and no two contents of one.                                  *)
THEOREM AhpForward == Spec /\ Environment => []AhpNeverForks
  <1>1. Init => AhpInv
    <2> SUFFICES ASSUME Init PROVE AhpInv
      OBVIOUS
    <2>1. DOMAIN accepted = {}
      BY DEF Init
    <2> QED BY <2>1 DEF AhpInv, AhpRecorded, AhpNeverForks, Of
  <1>2. AhpInv => AhpNeverForks
    BY DEF AhpInv
  <1> QED BY JudgedAlways, AhpStep, <1>1, <1>2, PTL DEF Spec, Environment
-------------------------------------------------------------------------------
(* A chain of Grants: the recorded parent is the last Grant accepted, and   *)
(* no earlier one had another purpose or a task the parent has not.        *)
Narrows(g, h) ==
  /\ h.purpose = g.purpose
  /\ g.task # None => h.task = g.task

(* Every Grant accepted so far is narrowed by the one on record.           *)
PurposeRecorded == \A i \in Of("purpose") : Narrows(Document(i).grant, records.parent)

(* What is inductive about Grants.                                         *)
PurposeInv == PurposeRecorded /\ TaskNeverWidens

(* A Grant that was accepted narrows the parent on record.                 *)
LEMMA GrantNarrows ==
  ASSUME NEW d, NEW r, Accepts("purpose", d, r)
  PROVE  Narrows(r.parent, d.grant)
  <1> DEFINE p == PurposeProjection(d, r)
  <1>1. Surface!PurposeValid(p)
    BY DEF Accepts
  <1>2. p.attenuation = Surface!Attenuation(p.parent, p.grant) /\ p.attenuation # "wider"
    <2> HIDE DEF p
    <2> QED BY <1>1 DEF Surface!PurposeValid
  <1>3. p.parent = r.parent /\ p.grant = d.grant
    BY DEF PurposeProjection
  <1> HIDE DEF p
  <1>4. Surface!Attenuation(r.parent, d.grant) # "wider"
    BY <1>2, <1>3
  <1>5. \/ r.parent = d.grant
        \/ r.parent.purpose = d.grant.purpose /\ r.parent.task = None
    BY <1>4 DEF Surface!Attenuation
  <1> QED BY <1>5 DEF Narrows

(* A Grant narrows its parent, and narrowing is transitive.                *)
LEMMA PurposeStep ==
  Judged /\ PurposeInv /\ OfferShaped /\ [Next /\ RecordsKept]_vars => PurposeInv'
  <1> SUFFICES ASSUME Judged, PurposeInv, OfferShaped, [Next]_vars, [RecordsKept]_vars
               PROVE  PurposeInv'
    OBVIOUS
  <1>1. CASE Accepting /\ kind = "purpose"
    <2> DEFINE d == offered
               r == records
    <2>1. Narrows(r.parent, d.grant)
      <3>1. Accepts("purpose", d, r)
        BY <1>1 DEF Accepting
      <3> QED BY <3>1, GrantNarrows
    <2>2. records'.parent = d.grant
      <3>1. Shaped("purpose", r, d)
        BY <1>1 DEF OfferShaped, Accepting
      <3>2. "parent" \in DOMAIN r
        BY <3>1 DEF Shaped
      <3>3. records' = [r EXCEPT !.parent = d.grant]
        BY <1>1 DEF Accepting, Recorded
      <3> QED BY <3>2, <3>3
    <2>3. \A i \in DOMAIN accepted : Narrows(Document(i).grant, r.parent)
      BY <1>1 DEF PurposeInv, PurposeRecorded, Of
    <2>4. \A i, j \in DOMAIN accepted : i < j => Narrows(Document(i).grant, Document(j).grant)
      BY <1>1 DEF PurposeInv, TaskNeverWidens, Of, Narrows
    <2> HIDE DEF d, r
    <2>5. \A i \in DOMAIN accepted : Narrows(Document(i).grant, d.grant)
      BY <2>1, <2>3 DEF Narrows
    <2>6. ASSUME NEW i \in DOMAIN accepted'
          PROVE  Narrows(Document(i)'.grant, records'.parent)
      <3>1. CASE Document(i)' = d
        BY <2>2, <3>1 DEF Narrows
      <3>2. CASE i \in DOMAIN accepted /\ Document(i)' = Document(i)
        BY <2>2, <2>5, <3>2
      <3> QED BY <1>1, <3>1, <3>2, Places DEF d
    <2>7. ASSUME NEW i \in DOMAIN accepted', NEW j \in DOMAIN accepted', i < j
          PROVE  Narrows(Document(i)'.grant, Document(j)'.grant)
      <3>1. i # Len(accepted) + 1
        BY <1>1, <2>7 DEF Accepting
      <3>2. i \in DOMAIN accepted /\ Document(i)' = Document(i)
        BY <1>1, <3>1, Places
      <3>3. CASE Document(j)' = d
        BY <2>5, <3>2, <3>3
      <3>4. CASE j \in DOMAIN accepted /\ Document(j)' = Document(j)
        BY <2>4, <2>7, <3>2, <3>4
      <3> QED BY <1>1, <3>3, <3>4, Places DEF d
    <2> QED BY <2>6, <2>7 DEF PurposeInv, PurposeRecorded, TaskNeverWidens, Of, Narrows
  <1>2. CASE Change /\ UNCHANGED <<kind, accepted>>
    <2>1. Keeps(kind, records, records') \/ UNCHANGED records
      BY <1>2 DEF RecordsKept, vars
    <2>2. kind = "purpose" => records'.parent = records.parent
      BY <2>1 DEF Keeps
    <2> QED BY <1>2, <2>2 DEF PurposeInv, PurposeRecorded, TaskNeverWidens, Of, Document
  <1>3. CASE UNCHANGED <<kind, accepted, records>>
    BY <1>3 DEF PurposeInv, PurposeRecorded, TaskNeverWidens, Of, Document
  <1>4. CASE Accepting /\ kind # "purpose"
    BY <1>4 DEF Accepting, PurposeInv, PurposeRecorded, TaskNeverWidens, Of
  <1> QED BY <1>1, <1>2, <1>3, <1>4, StepKinds

(* The check of one delegation against its parent is enough for the whole  *)
(* chain: the purpose stays, and a task stays once there is one.           *)
THEOREM PurposeStays == Spec /\ Environment => []TaskNeverWidens
  <1>1. Init => PurposeInv
    <2> SUFFICES ASSUME Init PROVE PurposeInv
      OBVIOUS
    <2>1. DOMAIN accepted = {}
      BY DEF Init
    <2> QED BY <2>1 DEF PurposeInv, PurposeRecorded, TaskNeverWidens, Of
  <1>2. PurposeInv => TaskNeverWidens
    BY DEF PurposeInv
  <1> QED BY JudgedAlways, PurposeStep, <1>1, <1>2, PTL DEF Spec, Environment
-------------------------------------------------------------------------------
(* Elicitation: what is recorded is the last revision that was answered and *)
(* the exchange that answered it.                                          *)
ExchangeRecorded(i) ==
  /\ Document(i).request.revision \in Nat /\ records.revision \in Nat
  /\ Document(i).request.revision <= records.revision
  /\ Document(i).request.revision = records.revision =>
       /\ Document(i).request.hash = records.request
       /\ Document(i).response.hash = records.response
  /\ \A m \in {Document(i).request, Document(i).response} :
       IsRecord(m) /\ "hash" \in DOMAIN m /\ Human!Intact(m)

(* This holds of every exchange accepted so far.                           *)
ElicitationRecorded == \A i \in Of("elicitation") : ExchangeRecorded(i)
(* What is inductive about exchanges.                                      *)
ElicitationInv == ElicitationRecorded /\ OneAnswerPerRevision

(* A hash stands for what it hashes: two messages that are whole and have   *)
(* the same hash are the same message.                                     *)
LEMMA SameHash ==
  ASSUME NEW a, NEW b, IsRecord(a), IsRecord(b), "hash" \in DOMAIN a, "hash" \in DOMAIN b,
         Human!Intact(a), Human!Intact(b), a.hash = b.hash
  PROVE  a = b
  <1> DEFINE w == [f \in DOMAIN a \ {"hash"} |-> a[f]]
             v == [f \in DOMAIN b \ {"hash"} |-> b[f]]
  <1>1. w = v
    BY DEF Human!Intact, Human!Without
  <1>2. DOMAIN w = DOMAIN a \ {"hash"} /\ DOMAIN v = DOMAIN b \ {"hash"}
    OBVIOUS
  <1>3. DOMAIN a = DOMAIN b
    BY <1>1, <1>2
  <1>4. \A f \in DOMAIN a \ {"hash"} : w[f] = a[f] /\ v[f] = b[f]
    BY <1>3
  <1>5. \A f \in DOMAIN a : a[f] = b[f]
    BY <1>1, <1>4
  <1>6. a = [f \in DOMAIN a |-> a[f]] /\ b = [f \in DOMAIN b |-> b[f]]
    BY DEF IsRecord
  <1> QED BY <1>3, <1>5, <1>6

(* An exchange is accepted as the very one that was recorded, which changes *)
(* nothing, or as the first answer to the next revision.                   *)
LEMMA ExchangeAccepted ==
  ASSUME NEW d, NEW r, Accepts("elicitation", d, r), Shaped("elicitation", r, d)
  PROVE  LET s == Recorded("elicitation", d, r)
             q == d.request
             a == d.response IN
         /\ r.revision \in Nat
         /\ \A m \in {q, a} : IsRecord(m) /\ "hash" \in DOMAIN m /\ Human!Intact(m)
         /\ \/ /\ s = r /\ r.lifecycle = "resolved"
               /\ q.revision = r.revision /\ q.hash = r.request /\ a.hash = r.response
            \/ /\ q.revision = r.revision + 1
               /\ s.revision = q.revision /\ s.request = q.hash /\ s.response = a.hash
  <1> DEFINE s == Recorded("elicitation", d, r)
             q == d.request
             a == d.response
  <1>1. Human!ElicitationValid(r, q, a)
    BY DEF Accepts
  <1>2. Human!Intact(q) /\ Human!Intact(a) /\ Human!RevisionAdmits(r, q, a)
    <2> HIDE DEF q, a
    <2> QED BY <1>1 DEF Human!ElicitationValid, Human!RequestValid, Human!ResponseValid
  <1>3. /\ {"lifecycle", "revision", "request", "response"} \subseteq DOMAIN r
        /\ r.revision \in Nat
        /\ \A m \in {q, a} : IsRecord(m) /\ "hash" \in DOMAIN m
    BY DEF Shaped
  <1>4. r.lifecycle # "pending" => s = r
    BY DEF Recorded
  <1>5. r.lifecycle = "pending" =>
          s = [r EXCEPT !.lifecycle = "resolved", !.revision = q.revision,
                        !.request = q.hash, !.response = a.hash,
                        !.accepted_at = r.now, !.replay = "retained", !.base = Edited(d, r),
                        !.step_up = "not_applicable", !.step_up_result = None, !.verifier = None]
    BY DEF Recorded
  <1> HIDE DEF s, q, a
  <1>6. CASE Human!ExactReplay(r, q, a)
    <2>1. /\ r.lifecycle = "resolved" /\ q.revision = r.revision
          /\ q.hash = r.request /\ a.hash = r.response
      BY <1>6 DEF Human!ExactReplay
    <2>2. s = r
      BY <1>4, <2>1
    <2> QED BY <1>2, <1>3, <2>1, <2>2 DEF s, q, a
  <1>7. CASE ~Human!ExactReplay(r, q, a)
    <2>1. /\ q.revision \in r.revision..(r.revision + 1) /\ q.revision # r.revision
          /\ r.lifecycle = "pending"
      BY <1>2, <1>7 DEF Human!RevisionAdmits
    <2>2. q.revision = r.revision + 1
      BY <1>3, <2>1
    <2>3. s.revision = q.revision /\ s.request = q.hash /\ s.response = a.hash
      BY <1>3, <1>5, <2>1
    <2> QED BY <1>2, <1>3, <2>2, <2>3 DEF s, q, a
  <1> QED BY <1>6, <1>7

(* An accepted exchange is the recorded one again, or answers a later      *)
(* revision and is recorded instead.                                       *)
LEMMA ElicitationStep ==
  Judged /\ ElicitationInv /\ OfferShaped /\ [Next /\ RecordsKept]_vars => ElicitationInv'
  <1> SUFFICES ASSUME Judged, ElicitationInv, OfferShaped, [Next]_vars, [RecordsKept]_vars
               PROVE  ElicitationInv'
    OBVIOUS
  <1>1. CASE Accepting /\ kind = "elicitation"
    <2> DEFINE q == offered.request
               a == offered.response
               r == records
               s == records'
    <2>1. /\ r.revision \in Nat
          /\ \A m \in {q, a} : IsRecord(m) /\ "hash" \in DOMAIN m /\ Human!Intact(m)
          /\ \/ /\ s = r /\ r.lifecycle = "resolved"
                /\ q.revision = r.revision /\ q.hash = r.request /\ a.hash = r.response
             \/ /\ q.revision = r.revision + 1
                /\ s.revision = q.revision /\ s.request = q.hash /\ s.response = a.hash
      <3>1. /\ Accepts("elicitation", offered, records) /\ Shaped("elicitation", records, offered)
            /\ records' = Recorded("elicitation", offered, records)
        BY <1>1 DEF Accepting, OfferShaped
      <3> QED BY <3>1, ExchangeAccepted
    <2>2. \A i \in DOMAIN accepted : ExchangeRecorded(i)
      BY <1>1 DEF ElicitationInv, ElicitationRecorded, Of
    <2> HIDE DEF q, a, r, s
    <2>3. /\ q.revision \in Nat /\ s.revision \in Nat
          /\ r.revision <= s.revision
          /\ q.revision = s.revision /\ q.hash = s.request /\ a.hash = s.response
          /\ r.revision = s.revision => s.request = r.request /\ s.response = r.response
                                        /\ r.lifecycle = "resolved"
      BY <2>1
    <2>4. ASSUME NEW i \in DOMAIN accepted'
          PROVE  ExchangeRecorded(i)'
      <3>1. CASE Document(i)' = offered
        BY <2>1, <2>3, <3>1 DEF ExchangeRecorded, q, a, s
      <3>2. CASE i \in DOMAIN accepted /\ Document(i)' = Document(i)
        <4> DEFINE p == Document(i).request
                   b == Document(i).response
        <4>1. /\ p.revision \in Nat /\ p.revision <= r.revision /\ r.revision \in Nat
              /\ p.revision = r.revision => p.hash = r.request /\ b.hash = r.response
              /\ \A m \in {p, b} : IsRecord(m) /\ "hash" \in DOMAIN m /\ Human!Intact(m)
          BY <2>2, <3>2 DEF ExchangeRecorded, r
        <4>2. p = Document(i)'.request /\ b = Document(i)'.response
          BY <3>2
        <4> HIDE DEF p, b
        <4>3. /\ p.revision \in Nat /\ p.revision <= s.revision /\ s.revision \in Nat
              /\ p.revision = s.revision => p.hash = s.request /\ b.hash = s.response
          BY <2>3, <4>1
        <4> QED BY <4>1, <4>2, <4>3 DEF ExchangeRecorded, s
      <3> QED BY <1>1, <3>1, <3>2, Places
    <2>5. ASSUME NEW i \in DOMAIN accepted', NEW j \in DOMAIN accepted', i < j
          PROVE  /\ Document(i)'.request.revision <= Document(j)'.request.revision
                 /\ Document(i)'.request.revision = Document(j)'.request.revision =>
                      /\ Document(i)'.request = Document(j)'.request
                      /\ Document(i)'.response = Document(j)'.response
                      /\ Records(j)'.lifecycle = "resolved"
      <3>1. i # Len(accepted) + 1
        BY <1>1, <2>5 DEF Accepting
      <3>2. i \in DOMAIN accepted /\ Document(i)' = Document(i)
        BY <1>1, <3>1, Places
      <3>3. CASE Document(j)' = offered /\ Records(j)' = records
        <4> DEFINE p == Document(i).request
                   b == Document(i).response
        <4>1. /\ p.revision \in Nat /\ p.revision <= r.revision /\ r.revision \in Nat
              /\ p.revision = r.revision => p.hash = r.request /\ b.hash = r.response
              /\ \A m \in {p, b} : IsRecord(m) /\ "hash" \in DOMAIN m /\ Human!Intact(m)
          BY <2>2, <3>2 DEF ExchangeRecorded, r
        <4>2. p = Document(i)'.request /\ b = Document(i)'.response
          BY <3>2
        <4> HIDE DEF p, b
        <4>3. p.revision <= q.revision
          BY <2>3, <4>1
        <4>4. p.revision = q.revision =>
                p.hash = q.hash /\ b.hash = a.hash /\ r.lifecycle = "resolved"
          BY <2>3, <4>1
        <4>5. p.revision = q.revision => p = q /\ b = a
          BY <2>1, <4>1, <4>4, SameHash
        <4> QED BY <3>3, <4>2, <4>3, <4>4, <4>5 DEF q, a, r
      <3>4. CASE j \in DOMAIN accepted /\ Document(j)' = Document(j) /\ Records(j)' = Records(j)
        BY <1>1, <2>5, <3>2, <3>4 DEF ElicitationInv, OneAnswerPerRevision, Of
      <3> QED BY <1>1, <3>3, <3>4, Places
    <2> QED BY <2>4, <2>5 DEF ElicitationInv, ElicitationRecorded, OneAnswerPerRevision, Of
  <1>2. CASE Change /\ UNCHANGED <<kind, accepted>>
    <2>1. Keeps(kind, records, records') \/ UNCHANGED records
      BY <1>2 DEF RecordsKept, vars
    <2>2. kind = "elicitation" => /\ records'.revision = records.revision
                                  /\ records'.request = records.request
                                  /\ records'.response = records.response
      BY <2>1 DEF Keeps
    <2>3. kind = "elicitation" =>
            \A i \in DOMAIN accepted : ExchangeRecorded(i) => ExchangeRecorded(i)'
      BY <1>2, <2>2 DEF ExchangeRecorded, Document
    <2> QED BY <1>2, <2>3 DEF ElicitationInv, ElicitationRecorded, OneAnswerPerRevision, Of,
                              Document, Records
  <1>3. CASE UNCHANGED <<kind, accepted, records>>
    BY <1>3 DEF ElicitationInv, ElicitationRecorded, OneAnswerPerRevision, Of,
                ExchangeRecorded, Document, Records
  <1>4. CASE Accepting /\ kind # "elicitation"
    BY <1>4 DEF Accepting, ElicitationInv, ElicitationRecorded, OneAnswerPerRevision, Of
  <1> QED BY <1>1, <1>2, <1>3, <1>4, StepKinds

(* Delivered again an exchange is recognized by the two hashes on record,  *)
(* and a pending revision is later than the answered one: one answer per   *)
(* revision.                                                               *)
THEOREM AnsweredOnce == Spec /\ Environment => []OneAnswerPerRevision
  <1>1. Init => ElicitationInv
    <2> SUFFICES ASSUME Init PROVE ElicitationInv
      OBVIOUS
    <2>1. DOMAIN accepted = {}
      BY DEF Init
    <2> QED BY <2>1 DEF ElicitationInv, ElicitationRecorded, OneAnswerPerRevision, Of
  <1>2. ElicitationInv => OneAnswerPerRevision
    BY DEF ElicitationInv
  <1> QED BY JudgedAlways, ElicitationStep, <1>1, <1>2, PTL DEF Spec, Environment
-------------------------------------------------------------------------------
(* Every accepted document had its shape, and so had the records it met.   *)
AcceptedShaped == \A i \in DOMAIN accepted : Shaped(kind, Records(i), Document(i))

LEMMA AcceptedShapedAlways == Spec /\ Environment => []AcceptedShaped
  <1>1. Init => AcceptedShaped
    <2> SUFFICES ASSUME Init PROVE AcceptedShaped
      OBVIOUS
    <2>1. DOMAIN accepted = {}
      BY DEF Init
    <2> QED BY <2>1 DEF AcceptedShaped
  <1>2. Judged /\ AcceptedShaped /\ OfferShaped /\ [Next]_vars => AcceptedShaped'
    <2> SUFFICES ASSUME Judged, AcceptedShaped, OfferShaped, [Next]_vars PROVE AcceptedShaped'
      OBVIOUS
    <2>1. CASE Accepting
      <3>1. kind' = kind /\ Shaped(kind, records, offered)
        BY <2>1 DEF Accepting, OfferShaped
      <3>2. \A k \in DOMAIN accepted : Shaped(kind, Records(k), Document(k))
        BY DEF AcceptedShaped
      <3>3. ASSUME NEW i \in DOMAIN accepted'
            PROVE  Shaped(kind', Records(i)', Document(i)')
        BY <2>1, <3>1, <3>2, Places
      <3> QED BY <3>3 DEF AcceptedShaped
    <2>2. CASE UNCHANGED <<kind, accepted>>
      BY <2>2 DEF AcceptedShaped, Document, Records
    <2> QED BY <2>1, <2>2, StepKinds
  <1> QED BY JudgedAlways, <1>1, <1>2, PTL DEF Spec, Environment

(* The earliest of some moments is one of them and no later than any.      *)
LEMMA Earliest ==
  ASSUME NEW T \in SUBSET Nat, T # {}
  PROVE  Impact!Min(T) \in T /\ \A t \in T : Impact!Min(T) <= t
  BY LeastNumber DEF Impact!Min

(* A result is valid no longer than the earliest of the deadlines it rests *)
(* on, and is judged by the clock and the bindings of the moment of        *)
(* judgement.                                                              *)
THEOREM ImpactStays == Spec /\ Environment => []ImpactNeverStale
  <1>1. Judged /\ AcceptedShaped => ImpactNeverStale
    <2> SUFFICES ASSUME Judged, AcceptedShaped, NEW i \in Of("impact")
                 PROVE  LET r == Records(i) IN
                        /\ \A n \in DOMAIN r.source.deadlines :
                             r.source.deadlines[n] # None => r.now < r.source.deadlines[n]
                        /\ r.current.match # None => r.now < r.current.match.valid_until
                        /\ Document(i).bindings = r.current /\ r.grant.issued = {}
      BY DEF ImpactNeverStale
    <2> DEFINE r == Records(i)
               d == Document(i)
               given == {r.source.deadlines[n] : n \in Impact!Deadlines} \ {None}
    <2>1. kind = "impact" /\ i \in DOMAIN accepted
      BY DEF Of
    <2>2. Impact!ImpactProjectionValid(d, r.source, r.current, r.now, r.surface, r.grant)
      BY <2>1 DEF Judged, Accepts
    <2>3. /\ DOMAIN r.source.deadlines = Impact!Deadlines
          /\ \A n \in Impact!Deadlines : r.source.deadlines[n] \in Nat \cup {None}
          /\ r.now \in Nat /\ d.valid_until \in Nat
      <3>1. Shaped("impact", r, d)
        BY <2>1 DEF AcceptedShaped
      <3> QED BY <3>1 DEF Shaped
    <2> HIDE DEF r, d
    <2>4. /\ Impact!BindingsCurrent(d, r.source, r.current)
          /\ Impact!ResultCurrent(d, r.source, r.now)
          /\ Impact!MatchCurrent(d, r.source, r.now)
          /\ r.grant.issued = {}
      BY <2>2 DEF Impact!ImpactProjectionValid, Impact!ImpactValid
    <2>5. r.now < d.valid_until /\ d.valid_until <= Impact!Min(given)
      BY <2>4 DEF Impact!ResultCurrent
    <2>6. ASSUME NEW n \in Impact!Deadlines, r.source.deadlines[n] # None
          PROVE  r.now < r.source.deadlines[n]
      <3>1. given \in SUBSET Nat
        BY <2>3
      <3>2. r.source.deadlines[n] \in given
        BY <2>6
      <3> HIDE DEF given
      <3>3. Impact!Min(given) \in Nat /\ Impact!Min(given) <= r.source.deadlines[n]
        BY <3>1, <3>2, Earliest
      <3>4. r.source.deadlines[n] \in Nat
        BY <3>1, <3>2
      <3> QED BY <2>3, <2>5, <3>3, <3>4
    <2>7. d.bindings = r.current
      BY <2>4 DEF Impact!BindingsCurrent
    <2>8. r.current.match # None => r.now < r.current.match.valid_until
      BY <2>4, <2>7 DEF Impact!MatchCurrent
    <2> QED BY <2>3, <2>4, <2>6, <2>7, <2>8 DEF r, d
  <1> QED BY JudgedAlways, AcceptedShapedAlways, <1>1, PTL

-------------------------------------------------------------------------------
(* Two documents that differ at a place differ first at a place on the way  *)
(* to it, and that is one of the places that Changed lists.                *)
LEMMA ChangedCovers ==
  ASSUME NEW b, NEW a, NEW p, IsList(p), p \in DOMAIN b \cup DOMAIN a,
         ~(p \in DOMAIN b \cap DOMAIN a /\ b[p] = a[p])
  PROVE  \E q \in Human!Changed(b, a) : IsList(q) /\ IsPrefix(q, p)
  <1> DEFINE At(n) == SubSeq(p, 1, n)
             Differ(n) == Human!Node(b, At(n)) # Human!Node(a, At(n))
             N == {n \in Nat : n <= Len(p) /\ Differ(n)}
             S == {p[i] : i \in DOMAIN p}
  <1>1. p \in Seq(S) /\ Len(p) \in Nat
    BY DEF IsList
  <1>2. \A n \in 0..Len(p) : At(n) \in Seq(S) /\ Len(At(n)) = n
    BY <1>1
  <1>3. \A n \in 0..Len(p) : \A m \in 0..n : SubSeq(At(n), 1, m) = At(m)
    BY <1>1
  <1>4. At(Len(p)) = p
    BY <1>1
  <1>5. Human!Node(b, p) # Human!Node(a, p)
    BY DEF Human!Node
  <1>6. Len(p) \in N
    <2>1. Differ(Len(p))
      BY <1>4, <1>5
    <2> HIDE DEF Differ
    <2> QED BY <1>1, <2>1
  <1>7. PICK n \in N : \A m \in N : n <= m
    BY <1>6, LeastNumber
  <1>8. n \in 0..Len(p) /\ Differ(n)
    BY <1>1, <1>7
  <1>9. \A m \in 0..(n - 1) : ~Differ(m)
    <2> SUFFICES ASSUME NEW m \in 0..(n - 1), Differ(m) PROVE FALSE
      OBVIOUS
    <2>1. m \in N /\ m < n
      BY <1>1, <1>8
    <2> QED BY <1>7, <2>1
  <1> DEFINE q == At(n)
  <1>10. q \in Human!Pointers(b) \cup Human!Pointers(a)
    BY <1>8 DEF Human!Pointers
  <1>11. \A m \in 0..(Len(q) - 1) : Human!Node(b, SubSeq(q, 1, m)) = Human!Node(a, SubSeq(q, 1, m))
    <2> SUFFICES ASSUME NEW m \in 0..(Len(q) - 1)
                 PROVE  Human!Node(b, SubSeq(q, 1, m)) = Human!Node(a, SubSeq(q, 1, m))
      OBVIOUS
    <2>1. m \in 0..(n - 1) /\ m \in 0..n
      BY <1>2, <1>8
    <2>2. SubSeq(q, 1, m) = At(m)
      BY <1>3, <1>8, <2>1
    <2>3. ~Differ(m)
      BY <1>9, <2>1
    <2> QED BY <2>2, <2>3
  <1>12. Human!Node(b, q) # Human!Node(a, q)
    BY <1>8
  <1>13. IsPrefix(q, p)
    BY <1>1, <1>2, <1>8 DEF IsPrefix
  <1>14. IsList(q)
    BY <1>2, <1>8, ListOfItsOwn DEF IsList
  <1> HIDE DEF q
  <1> QED BY <1>10, <1>11, <1>12, <1>13, <1>14 DEF Human!Changed

(* A beginning of a beginning is a beginning.                              *)
LEMMA PrefixOfPrefix ==
  ASSUME NEW e, NEW c, NEW p, IsList(e), IsList(c), IsList(p),
         IsPrefix(e, c), IsPrefix(c, p)
  PROVE  IsPrefix(e, p)
  <1>1. e \in Seq({e[i] : i \in DOMAIN e}) /\ c \in Seq({c[i] : i \in DOMAIN c})
        /\ p \in Seq({p[i] : i \in DOMAIN p})
    BY DEF IsList
  <1>2. Len(e) \in Nat /\ Len(c) \in Nat /\ Len(p) \in Nat /\ Len(e) <= Len(c) /\ Len(c) <= Len(p)
    BY <1>1 DEF IsPrefix
  <1>3. \A i \in 1..Len(c) : c[i] = p[i]
    <2>1. SubSeq(c, 1, Len(c)) = SubSeq(p, 1, Len(c))
      BY DEF IsPrefix
    <2> QED BY <1>1, <1>2, <2>1
  <1>4. SubSeq(c, 1, Len(e)) = SubSeq(p, 1, Len(e))
    <2>1. \A i \in 1..Len(e) : c[i] = p[i]
      BY <1>2, <1>3
    <2>2. SubSeq(c, 1, Len(e)) \in Seq({c[i] : i \in DOMAIN c} \cup {p[i] : i \in DOMAIN p})
      BY <1>1, <1>2
    <2> QED BY <1>1, <1>2, <2>1
  <1> QED BY <1>2, <1>4 DEF IsPrefix

(* The check looks at the paths where the inputs first differ; every       *)
(* difference is at or below one of them, so nothing outside the editable  *)
(* places changed.                                                         *)
THEOREM EditsStay == Spec /\ Environment => []EditsStayInside
  <1>1. Judged /\ AcceptedShaped => EditsStayInside
    <2> SUFFICES ASSUME Judged, AcceptedShaped, NEW i \in Of("elicitation"),
                        Document(i).request.kind \in {"edit", "redline"},
                        Document(i).request.body.editable # {},
                        NEW p \in DOMAIN Records(i).base \cup DOMAIN Edited(Document(i), Records(i))
                 PROVE  LET before == Records(i).base
                            after == Edited(Document(i), Records(i)) IN
                        \/ \E e \in Document(i).request.body.editable : IsPrefix(e, p)
                        \/ p \in DOMAIN before \cap DOMAIN after /\ before[p] = after[p]
      BY DEF EditsStayInside
    <2> DEFINE r == Records(i)
               d == Document(i)
               q == d.request
               a == d.response
               before == r.base
               after == Edited(d, r)
    <2>1. kind = "elicitation" /\ i \in DOMAIN accepted
      BY DEF Of
    <2>2. Human!ElicitationValid(r, q, a)
      <3>1. Accepts("elicitation", d, r)
        BY <2>1 DEF Judged
      <3> QED BY <3>1 DEF Accepts
    <2>3. Human!AnswerFits(r, q, a)
      <3> HIDE DEF r, q, a
      <3> QED BY <2>2 DEF Human!ElicitationValid
    <2>4. /\ IsDocument(before) /\ \A e \in q.body.editable : IsList(e)
          /\ ~(q.kind = "redline" /\ a.body.candidate_hash = None) =>
               IsDocument(a.body.candidate_hash)
      <3>1. Shaped("elicitation", r, d)
        BY <2>1 DEF AcceptedShaped
      <3> QED BY <3>1 DEF Shaped
    <2>5. /\ IsDocument(after)
          /\ Human!Within(Human!Changed(before, after), q.body.editable)
      <3>1. CASE q.kind = "edit"
        <4>1. after = a.body.candidate
          BY <3>1 DEF Edited
        <4>2. Human!EditFits(r, q, a)
          <5> HIDE DEF r, q, a
          <5> QED BY <2>3, <3>1 DEF Human!AnswerFits
        <4> HIDE DEF r, q, a
        <4>3. /\ a.body.candidate_hash = a.body.candidate
              /\ Human!Within(Human!Changed(r.base, a.body.candidate), q.body.editable)
          BY <4>2 DEF Human!EditFits
        <4> QED BY <2>4, <3>1, <4>1, <4>3
      <3>2. CASE q.kind = "redline"
        <4>1. after = Human!ApplyPatch(r.base, a.body.patch)
          BY <3>2 DEF Edited
        <4>2. Human!RedlineFits(r, q, a)
          <5> HIDE DEF r, q, a
          <5> QED BY <2>3, <3>2 DEF Human!AnswerFits
        <4>3. q.body.editable # {}
          OBVIOUS
        <4> HIDE DEF r, q, a
        <4>4. /\ after # None /\ a.body.candidate_hash = after
              /\ Human!Within(Human!Changed(r.base, after), q.body.editable)
          BY <4>1, <4>2, <4>3 DEF Human!RedlineFits
        <4> QED BY <2>4, <4>4
      <3> QED BY <3>1, <3>2
    <2>6. SUFFICES ASSUME ~(p \in DOMAIN before \cap DOMAIN after /\ before[p] = after[p])
                   PROVE  \E e \in q.body.editable : IsPrefix(e, p)
      OBVIOUS
    <2>7. p \in DOMAIN before \cup DOMAIN after
      OBVIOUS
    <2> HIDE DEF r, d, q, a, before, after
    <2>8. IsList(p)
      BY <2>4, <2>5, <2>7 DEF IsDocument
    <2>9. PICK c \in Human!Changed(before, after) : IsList(c) /\ IsPrefix(c, p)
      BY <2>6, <2>7, <2>8, ChangedCovers
    <2>10. PICK e \in q.body.editable : IsPrefix(e, c)
      BY <2>5, <2>9 DEF Human!Within, Human!IsPrefix, IsPrefix
    <2>11. IsList(e)
      BY <2>4
    <2>12. IsPrefix(e, p)
      BY <2>8, <2>9, <2>10, <2>11, PrefixOfPrefix
    <2> QED BY <2>12
  <1> QED BY JudgedAlways, AcceptedShapedAlways, <1>1, PTL
-------------------------------------------------------------------------------
(* An MCP session: what was listed is remembered.                          *)
Listed(i) ==
  /\ Document(i).type = "list" =>
       /\ records.listing.started
       /\ Document(i).cursor = None \/ Document(i).cursor \in records.listing.cursors
  /\ Document(i).type = "page" =>
       \A n \in DOMAIN Document(i).tools :
         /\ Document(i).tools[n].name \in records.listing.names
         /\ Document(i).tools[n].binding.action \in records.listing.actions

(* Two requests of a listing differ, and so do two places of its pages.    *)
Differ(i, j) ==
  /\ Document(i).type = "list" /\ Document(j).type = "list" =>
       Document(i).cursor # Document(j).cursor
  /\ Document(i).type = "page" /\ Document(j).type = "page" =>
       \A n \in DOMAIN Document(i).tools, o \in DOMAIN Document(j).tools :
         /\ Document(i).tools[n].name # Document(j).tools[o].name
         /\ Document(i).tools[n].binding.action # Document(j).tools[o].binding.action
(* The tools of a page differ.                                             *)
PageSound(i) ==
  Document(i).type = "page" =>
    \A n \in DOMAIN Document(i).tools : \A o \in 1..(n - 1) :
      /\ Document(i).tools[n].name # Document(i).tools[o].name
      /\ Document(i).tools[n].binding.action # Document(i).tools[o].binding.action

(* What is inductive about a listing.                                      *)
ListingInv ==
  /\ \A i \in Of("wire") : Listed(i) /\ PageSound(i)
  /\ \A i, j \in Of("wire") : i < j => Differ(i, j)

(* What an accepted message says that was not listed before, and what the   *)
(* party remembers of the listing then.                                    *)
LEMMA MessageListed ==
  ASSUME NEW m, NEW s, Accepts("wire", m, s), Shaped("wire", s, m),
         NEW t, t = Recorded("wire", m, s)
  PROVE  /\ s.listing.started => t.listing.started
         /\ s.listing.cursors \subseteq t.listing.cursors
         /\ s.listing.names \subseteq t.listing.names
         /\ s.listing.actions \subseteq t.listing.actions
         /\ m.type = "list" =>
              /\ t.listing.started
              /\ m.cursor = None \/ m.cursor \in t.listing.cursors
              /\ m.cursor # None => m.cursor \notin s.listing.cursors
              /\ m.cursor = None => ~s.listing.started
         /\ m.type = "page" =>
              \A n \in DOMAIN m.tools :
                /\ m.tools[n].name \in t.listing.names \ s.listing.names
                /\ m.tools[n].binding.action \in t.listing.actions \ s.listing.actions
                /\ \A o \in 1..(n - 1) :
                     /\ m.tools[n].name # m.tools[o].name
                     /\ m.tools[n].binding.action # m.tools[o].binding.action
  <1> DEFINE c == Wire!SessionContext(s, m)
             answered == [s EXCEPT !.asked = IF m.type \in Wire!Responses THEN None ELSE @]
  <1>1. Wire!Valid(m, c)
    BY DEF Accepts
  <1>2. /\ c.used = s.used /\ c.first = ~s.listing.started /\ c.cursor = s.listing.cursor
        /\ c.cursors = s.listing.cursors /\ c.names = s.listing.names
        /\ c.actions = s.listing.actions
    BY DEF Wire!SessionContext
  <1>3. t = Wire!AfterMessage(s, m)
    BY DEF Recorded
  <1>4. /\ "listing" \in DOMAIN s
        /\ {"started", "cursor", "cursors", "names", "actions"} \subseteq DOMAIN s.listing
        /\ m.type = "list" /\ m.id \notin s.used => ~s.listing.started \/ s.listing.cursor # None
    BY DEF Shaped
  <1>5. answered.listing = s.listing /\ DOMAIN answered = DOMAIN s
    BY <1>4
  <1> HIDE DEF c
  <1>6. CASE m.type = "list"
    <2>1. t = [s EXCEPT !.used = @ \cup {m.id}, !.asked = m,
                        !.listing.started = TRUE,
                        !.listing.cursors = @ \cup ({m.cursor} \ {None})]
      BY <1>3, <1>6 DEF Wire!AfterMessage
    <2>2. /\ t.listing.started = TRUE
          /\ t.listing.cursors = s.listing.cursors \cup ({m.cursor} \ {None})
          /\ t.listing.names = s.listing.names /\ t.listing.actions = s.listing.actions
      <3> DEFINE l == s.listing
                 w == {m.cursor} \ {None}
      <3>1. t.listing = [l EXCEPT !.started = TRUE, !.cursors = @ \cup w]
        BY <1>4, <2>1, Zenon
      <3>2. {"started", "cursors", "names", "actions"} \subseteq DOMAIN l
        BY <1>4
      <3> HIDE DEF l, w
      <3>3. /\ t.listing.started = TRUE /\ t.listing.cursors = l.cursors \cup w
            /\ t.listing.names = l.names /\ t.listing.actions = l.actions
        BY <3>1, <3>2
      <3> QED BY <3>3 DEF l, w
    <2>3. Wire!FreshId(m, c) /\ Wire!ListValid(m, c)
      BY <1>1, <1>6 DEF Wire!Valid
    <2>4. /\ m.id \notin s.used
          /\ s.listing.cursor = None \/ m.cursor = s.listing.cursor
          /\ m.cursor # None => m.cursor \notin s.listing.cursors
      BY <1>2, <2>3 DEF Wire!FreshId, Wire!ListValid, Wire!Given
    <2>5. m.cursor = None => ~s.listing.started
      BY <1>4, <1>6, <2>4
    <2> QED BY <1>6, <2>2, <2>4, <2>5
  <1>7. CASE m.type = "page"
    <2>1. t = [answered EXCEPT
                 !.listing.cursor = m.next,
                 !.listing.names = @ \cup {m.tools[i].name : i \in DOMAIN m.tools},
                 !.listing.actions = @ \cup {m.tools[i].binding.action : i \in DOMAIN m.tools}]
      BY <1>3, <1>7 DEF Wire!AfterMessage, Wire!Requests
    <2> HIDE DEF answered
    <2>2. /\ t.listing.started = s.listing.started
          /\ t.listing.cursors = s.listing.cursors
          /\ t.listing.names = s.listing.names \cup {m.tools[i].name : i \in DOMAIN m.tools}
          /\ t.listing.actions =
               s.listing.actions \cup {m.tools[i].binding.action : i \in DOMAIN m.tools}
      <3> DEFINE l == s.listing
                 v == {m.tools[i].name : i \in DOMAIN m.tools}
                 w == {m.tools[i].binding.action : i \in DOMAIN m.tools}
      <3>1. t.listing = [answered.listing EXCEPT
                           !.cursor = m.next, !.names = @ \cup v, !.actions = @ \cup w]
        BY <1>4, <1>5, <2>1
      <3>2. {"started", "cursor", "cursors", "names", "actions"} \subseteq DOMAIN l
        BY <1>4
      <3>3. answered.listing = l
        BY <1>5
      <3> HIDE DEF l, v, w
      <3>4. /\ t.listing.started = l.started /\ t.listing.cursors = l.cursors
            /\ t.listing.names = l.names \cup v /\ t.listing.actions = l.actions \cup w
        BY <3>1, <3>2, <3>3
      <3> QED BY <3>4 DEF l, v, w
    <2>3. Wire!Unlisted(m, c)
      <3>1. Wire!PageValid(m, c)
        BY <1>1, <1>7 DEF Wire!Valid
      <3> QED BY <3>1 DEF Wire!PageValid
    <2>4. \A n \in DOMAIN m.tools :
            /\ m.tools[n].name \notin s.listing.names
            /\ m.tools[n].binding.action \notin s.listing.actions
            /\ \A o \in 1..(n - 1) :
                 /\ m.tools[n].name # m.tools[o].name
                 /\ m.tools[n].binding.action # m.tools[o].binding.action
      BY <1>2, <2>3 DEF Wire!Unlisted
    <2> QED BY <1>7, <2>2, <2>4
  <1>8. CASE m.type \notin {"list", "page"}
    <2>1. t.listing = s.listing
      <3>1. CASE m.type \in Wire!Requests
        <4>1. t = [s EXCEPT !.used = @ \cup {m.id}, !.asked = m]
          BY <1>3, <1>8, <3>1 DEF Wire!AfterMessage
        <4> QED BY <1>4, <4>1
      <3>2. CASE m.type \notin Wire!Requests
        BY <1>3, <1>5, <1>8, <3>2 DEF Wire!AfterMessage
      <3> QED BY <3>1, <3>2
    <2> QED BY <1>8, <2>1
  <1> QED BY <1>6, <1>7, <1>8

(* A page is compared with what was listed, and is then listed itself.     *)
LEMMA ListingStep ==
  Judged /\ ListingInv /\ OfferShaped /\ [Next /\ RecordsKept]_vars => ListingInv'
  <1> SUFFICES ASSUME Judged, ListingInv, OfferShaped, [Next]_vars, [RecordsKept]_vars
               PROVE  ListingInv'
    OBVIOUS
  <1>1. CASE Accepting /\ kind = "wire"
    <2> DEFINE m == offered
               l == records.listing
               k == records'.listing
    <2>1. /\ l.started => k.started
          /\ l.cursors \subseteq k.cursors
          /\ l.names \subseteq k.names
          /\ l.actions \subseteq k.actions
          /\ m.type = "list" =>
               /\ k.started
               /\ m.cursor = None \/ m.cursor \in k.cursors
               /\ m.cursor # None => m.cursor \notin l.cursors
               /\ m.cursor = None => ~l.started
          /\ m.type = "page" =>
               \A n \in DOMAIN m.tools :
                 /\ m.tools[n].name \in k.names \ l.names
                 /\ m.tools[n].binding.action \in k.actions \ l.actions
                 /\ \A o \in 1..(n - 1) :
                      /\ m.tools[n].name # m.tools[o].name
                      /\ m.tools[n].binding.action # m.tools[o].binding.action
      <3>1. /\ Accepts("wire", offered, records) /\ Shaped("wire", records, offered)
            /\ records' = Recorded("wire", offered, records)
        BY <1>1 DEF Accepting, OfferShaped
      <3> QED BY <3>1, MessageListed
    <2>2. \A i \in DOMAIN accepted : Listed(i) /\ PageSound(i)
      BY <1>1 DEF ListingInv, Of
    <2>3. \A i, j \in DOMAIN accepted : i < j => Differ(i, j)
      BY <1>1 DEF ListingInv, Of
    <2> HIDE DEF m, l, k
    <2>4. ASSUME NEW i \in DOMAIN accepted'
          PROVE  Listed(i)' /\ PageSound(i)'
      <3>1. CASE Document(i)' = m
        BY <2>1, <3>1 DEF Listed, PageSound, k
      <3>2. CASE i \in DOMAIN accepted /\ Document(i)' = Document(i)
        <4>1. Listed(i) /\ PageSound(i)
          BY <2>2, <3>2
        <4>2. PageSound(i)'
          BY <3>2, <4>1 DEF PageSound
        <4>3. Listed(i)'
          BY <2>1, <3>2, <4>1 DEF Listed, l, k
        <4> QED BY <4>2, <4>3
      <3> QED BY <1>1, <3>1, <3>2, Places DEF m
    <2>5. ASSUME NEW i \in DOMAIN accepted', NEW j \in DOMAIN accepted', i < j
          PROVE  Differ(i, j)'
      <3>1. i # Len(accepted) + 1
        BY <1>1, <2>5 DEF Accepting
      <3>2. i \in DOMAIN accepted /\ Document(i)' = Document(i)
        BY <1>1, <3>1, Places
      <3>3. CASE Document(j)' = m
        <4> DEFINE d == Document(i)
        <4>1. /\ d.type = "list" => l.started /\ (d.cursor = None \/ d.cursor \in l.cursors)
              /\ d.type = "page" =>
                   \A n \in DOMAIN d.tools :
                     d.tools[n].name \in l.names /\ d.tools[n].binding.action \in l.actions
          BY <2>2, <3>2 DEF Listed, l
        <4> HIDE DEF d
        <4>2. d.type = "list" /\ m.type = "list" => d.cursor # m.cursor
          BY <2>1, <4>1
        <4>3. d.type = "page" /\ m.type = "page" =>
                \A n \in DOMAIN d.tools, o \in DOMAIN m.tools :
                  /\ d.tools[n].name # m.tools[o].name
                  /\ d.tools[n].binding.action # m.tools[o].binding.action
          BY <2>1, <4>1
        <4> QED BY <3>2, <3>3, <4>2, <4>3 DEF Differ, d
      <3>4. CASE j \in DOMAIN accepted /\ Document(j)' = Document(j)
        BY <2>3, <2>5, <3>2, <3>4 DEF Differ
      <3> QED BY <1>1, <3>3, <3>4, Places DEF m
    <2> QED BY <2>4, <2>5 DEF ListingInv, Of
  <1>2. CASE Change /\ UNCHANGED <<kind, accepted>>
    <2>1. Keeps(kind, records, records') \/ UNCHANGED records
      BY <1>2 DEF RecordsKept, vars
    <2>2. kind = "wire" => records'.listing = records.listing
      BY <2>1 DEF Keeps
    <2> QED BY <1>2, <2>2 DEF ListingInv, Listed, PageSound, Differ, Of, Document
  <1>3. CASE UNCHANGED <<kind, accepted, records>>
    BY <1>3 DEF ListingInv, Listed, PageSound, Differ, Of, Document
  <1>4. CASE Accepting /\ kind # "wire"
    BY <1>4 DEF Accepting, ListingInv, Of
  <1> QED BY <1>1, <1>2, <1>3, <1>4, StepKinds

(* What the invariant says of two different places of the pages.           *)
LEMMA PlacesDiffer ==
  ASSUME Judged, AcceptedShaped, ListingInv, kind = "wire",
         NEW i \in DOMAIN accepted, NEW j \in DOMAIN accepted,
         Document(i).type = "page", Document(j).type = "page",
         NEW n \in DOMAIN Document(i).tools, NEW o \in DOMAIN Document(j).tools,
         i # j \/ n # o
  PROVE  /\ Document(i).tools[n].name # Document(j).tools[o].name
         /\ Document(i).tools[n].binding.action # Document(j).tools[o].binding.action
  <1>1. i \in Nat /\ j \in Nat
    <2>1. accepted \in Seq({accepted[x] : x \in DOMAIN accepted})
      BY DEF Judged
    <2>2. DOMAIN accepted = 1..Len(accepted) /\ Len(accepted) \in Nat
      BY <2>1
    <2> QED BY <2>2
  <1>2. i = j \/ Differ(i, j) \/ Differ(j, i)
    <2>1. i < j \/ j < i \/ i = j
      BY <1>1
    <2> QED BY <2>1 DEF ListingInv, Of
  <1>3. CASE i # j
    BY <1>2, <1>3 DEF Differ
  <1>4. CASE i = j
    <2>1. n \in 1..(o - 1) \/ o \in 1..(n - 1)
      <3>1. Shaped("wire", Records(i), Document(i))
        BY DEF AcceptedShaped
      <3>2. IsList(Document(i).tools)
        BY <3>1 DEF Shaped
      <3>3. DOMAIN Document(i).tools = 1..Len(Document(i).tools) /\ Len(Document(i).tools) \in Nat
        BY <3>2 DEF IsList
      <3> QED BY <1>4, <3>3
    <2>2. PageSound(i)
      BY DEF ListingInv, Of
    <2> QED BY <1>4, <2>1, <2>2 DEF PageSound
  <1> QED BY <1>3, <1>4

(* The names, the actions and the cursors remembered from earlier pages    *)
(* are enough: over all its pages a listing names no tool, and no action,  *)
(* twice.                                                                  *)
THEOREM ListedOnce == Spec /\ Environment => []ListingIsOneToOne
  <1>1. Init => ListingInv
    <2> SUFFICES ASSUME Init PROVE ListingInv
      OBVIOUS
    <2>1. DOMAIN accepted = {}
      BY DEF Init
    <2> QED BY <2>1 DEF ListingInv, Of
  <1>2. Judged /\ AcceptedShaped /\ ListingInv => ListingIsOneToOne
    <2> SUFFICES ASSUME Judged, AcceptedShaped, ListingInv, kind = "wire"
                 PROVE  Wire!ListingIsOneToOne([i \in DOMAIN accepted |-> Document(i)])
      BY DEF ListingIsOneToOne
    <2> DEFINE messages == [i \in DOMAIN accepted |-> Document(i)]
               OfType(type) == {i \in DOMAIN messages : messages[i].type = type}
               At == UNION {{i} \X DOMAIN messages[i].tools : i \in OfType("page")}
               Tool(at) == messages[at[1]].tools[at[2]]
    <2>1. \A i \in DOMAIN accepted : messages[i] = Document(i)
      OBVIOUS
    <2>2. DOMAIN messages = DOMAIN accepted
      OBVIOUS
    <2> HIDE DEF messages
    <2>3. ASSUME NEW i \in OfType("list"), NEW j \in OfType("list"),
                 messages[i].cursor = messages[j].cursor
          PROVE  i = j
      <3>1. /\ i \in DOMAIN accepted /\ j \in DOMAIN accepted
            /\ Document(i).type = "list" /\ Document(j).type = "list"
            /\ Document(i).cursor = Document(j).cursor
        BY <2>1, <2>2, <2>3
      <3>2. i \in Nat /\ j \in Nat
        <4>1. accepted \in Seq({accepted[x] : x \in DOMAIN accepted})
          BY DEF Judged
        <4>2. DOMAIN accepted = 1..Len(accepted) /\ Len(accepted) \in Nat
          BY <4>1
        <4> QED BY <3>1, <4>2
      <3>3. ~(i < j) /\ ~(j < i)
        BY <3>1 DEF ListingInv, Differ, Of
      <3> QED BY <3>2, <3>3
    <2>4. ASSUME NEW x \in At, NEW y \in At
          PROVE  /\ Tool(x).name = Tool(y).name <=> x = y
                 /\ Tool(x).binding.action = Tool(y).binding.action => x = y
      <3>1. \A z \in At : /\ z[1] \in DOMAIN accepted /\ Document(z[1]).type = "page"
                          /\ z[2] \in DOMAIN Document(z[1]).tools
                          /\ z = <<z[1], z[2]>>
                          /\ Tool(z) = Document(z[1]).tools[z[2]]
        BY <2>1, <2>2
      <3> HIDE DEF At, Tool
      <3>2. x # y => x[1] # y[1] \/ x[2] # y[2]
        BY <3>1
      <3>3. x # y => /\ Tool(x).name # Tool(y).name
                     /\ Tool(x).binding.action # Tool(y).binding.action
        BY <3>1, <3>2, PlacesDiffer
      <3> QED BY <3>3
    <2> HIDE DEF OfType, Tool
    <2>5. /\ \A i, j \in OfType("list") : messages[i].cursor = messages[j].cursor => i = j
          /\ \A x, y \in At :
               /\ Tool(x).name = Tool(y).name <=> x = y
               /\ Tool(x).binding.action = Tool(y).binding.action => x = y
      BY <2>3, <2>4
    <2> QED BY <2>5 DEF Wire!ListingIsOneToOne, OfType, Tool, messages
  <1> QED BY JudgedAlways, AcceptedShapedAlways, ListingStep, <1>1, <1>2, PTL DEF Spec, Environment
-------------------------------------------------------------------------------
(* What an accepted answer to a call says of the receipts it links to.     *)
AppReference(p) == [id |-> p.receipt.id, hash |-> p.receipt.hash, type |-> "app", role |-> None]

(* Each instance counts as this module does.                               *)
LEMMA SameCount == \A S : Wire!Cardinality(S) = Cardinality(S)
  BY DEF Wire!Cardinality, Cardinality, Wire!IsFiniteSet, IsFiniteSet

(* Of the linked receipts exactly one is the application's, and it is the  *)
(* one the answer names.                                                   *)
LEMMA OneReceipt ==
  ASSUME NEW p, NEW links, NEW fetched, IsList(links), DOMAIN fetched = DOMAIN links,
         p.receipt # None, p.approval_receipt = None,
         Wire!ReceiptsResolve(p, links, fetched)
  PROVE  \E i \in DOMAIN links :
           /\ fetched[i].expected = AppReference(p)
           /\ \A j \in DOMAIN links : fetched[j].expected.type = "app" => j = i
           /\ Wire!AppReceiptAgrees(p, fetched[i].receipt) /\ fetched[i].locally_valid
  <1> DEFINE ref == AppReference(p)
             F == Wire!Found(fetched, ref)
  <1>1. Wire!References(p) = {ref}
    BY DEF Wire!References, AppReference
  <1>2. ref.type = "app"
    BY DEF AppReference
  <1>3. F = {i \in DOMAIN fetched : fetched[i].expected = ref}
    BY DEF Wire!Found
  <1> HIDE DEF ref, F
  <1>4. Wire!Referenced(p)
    BY DEF Wire!Referenced
  <1>5. /\ \A r \in Wire!References(p) : Cardinality(Wire!Found(fetched, r)) = 1
        /\ (UNION {Wire!Found(fetched, r) : r \in Wire!References(p)})
             \cup (UNION {Wire!FoundApproval(fetched, role, p.approvals[role]) : role \in Wire!Roles(p)})
           = DOMAIN fetched
        /\ \A i \in DOMAIN fetched :
             fetched[i].expected.type = "app" => Wire!AppReceiptAgrees(p, fetched[i].receipt)
        /\ \A i \in DOMAIN fetched : fetched[i].locally_valid
    <2>1. \A r \in Wire!References(p) : Cardinality(Wire!Found(fetched, r)) = 1
      BY <1>4, SameCount DEF Wire!ReceiptsResolve
    <2>2. (UNION {Wire!Found(fetched, r) : r \in Wire!References(p)})
            \cup (UNION {Wire!FoundApproval(fetched, role, p.approvals[role]) : role \in Wire!Roles(p)})
          = DOMAIN fetched
      BY <1>4, Zenon DEF Wire!ReceiptsResolve
    <2>3. /\ \A i \in DOMAIN fetched :
               fetched[i].expected.type = "app" => Wire!AppReceiptAgrees(p, fetched[i].receipt)
          /\ \A i \in DOMAIN fetched : fetched[i].locally_valid
      BY <1>4 DEF Wire!ReceiptsResolve
    <2> QED BY <2>1, <2>2, <2>3, Zenon
  <1>6. Cardinality(F) = 1
    BY <1>1, <1>5 DEF F
  <1>7. IsFiniteSet(F)
    <2>1. links \in Seq({links[i] : i \in DOMAIN links})
      BY DEF IsList
    <2>2. DOMAIN fetched = 1..Len(links) /\ Len(links) \in Nat
      BY <2>1
    <2>3. IsFiniteSet(1..Len(links))
      BY <2>2, FS_Interval
    <2> QED BY <1>3, <2>2, <2>3, FS_Subset
  <1>8. PICK i : F = {i}
    BY <1>6, <1>7, FS_Singleton
  <1>9. i \in DOMAIN fetched /\ fetched[i].expected = ref
    BY <1>3, <1>8
  <1>10. ASSUME NEW j \in DOMAIN fetched, fetched[j].expected.type = "app"
         PROVE  j = i
    <2>1. CASE j \in UNION {Wire!Found(fetched, r) : r \in Wire!References(p)}
      <3>1. j \in F
        BY <1>1, <2>1 DEF F
      <3> QED BY <1>8, <3>1
    <2>2. CASE j \in UNION {Wire!FoundApproval(fetched, role, p.approvals[role]) : role \in Wire!Roles(p)}
      <3>1. fetched[j].expected.type = "approval"
        BY <2>2 DEF Wire!FoundApproval
      <3> QED BY <1>10, <3>1
    <2> QED BY <1>5, <2>1, <2>2
  <1> QED BY <1>2, <1>5, <1>9, <1>10 DEF ref

(* Resolving the links one by one establishes that one receipt of the      *)
(* application, locally valid, says of this execution what the answer      *)
(* claims.                                                                 *)
THEOREM ClaimsBacked == Spec /\ Environment => []ClaimsAreBacked
  <1>1. Judged /\ AcceptedShaped => ClaimsAreBacked
    <2> SUFFICES ASSUME Judged, AcceptedShaped, NEW k \in Of("wire"),
                        Document(k).type = "answer"
                 PROVE  Wire!ClaimIsBacked(Document(k), Records(k))
      BY DEF ClaimsAreBacked
    <2> DEFINE m == Document(k)
               s == Records(k)
               p == m.payload
               q == s.asked.payload
               c == Wire!SessionContext(s, m)
    <2>1. kind = "wire" /\ k \in DOMAIN accepted
      BY DEF Of
    <2>2. Wire!Valid(m, c)
      <3>1. Accepts("wire", m, s)
        BY <2>1 DEF Judged
      <3> QED BY <3>1 DEF Accepts
    <2>3. /\ IsList(m.links) /\ Range(m.links) \subseteq DOMAIN s.store
          /\ m.id # 0
          /\ s.asked # None => s.asked.id # None
          /\ s.asked # None /\ s.asked.id = m.id =>
               s.asked.type = "call" /\ s.asked.payload # None
      <3>1. Shaped("wire", s, m)
        BY <2>1 DEF AcceptedShaped
      <3> QED BY <3>1 DEF Shaped
    <2>4. m.type = "answer"
      OBVIOUS
    <2>5. c.answers = IF s.asked = None THEN 0 ELSE s.asked.id
      BY DEF Wire!SessionContext
    <2>6. /\ s.asked # None /\ s.asked.type = "call" => c.request = q
          /\ s.asked # None /\ s.asked.type = "call" /\ q # None =>
               /\ c.mode = q.execution.mode
               /\ c.receipt_required =
                    (Wire!Declared(s, q.tuple.action).receipts /\ q.execution.mode = "commit")
          /\ c.receipts = Wire!Fetched(s, m.links)
      BY <2>4 DEF Wire!SessionContext, Wire!CallFacts
    <2> SUFFICES ASSUME p.error = None, p.result = "success", q.execution.mode = "commit",
                        Wire!Declared(s, q.tuple.action).receipts
                 PROVE  \E u \in DOMAIN s.store :
                          LET receipt == s.store[u].receipt IN
                          /\ Range(m.links) \cap {x \in DOMAIN s.store : s.store[x].expected.type = "app"}
                               = {u}
                          /\ s.store[u].locally_valid /\ receipt.policy.outcome = "allow"
                          /\ receipt.execution = Wire!Sanitized(q.execution)
                          /\ receipt.effects = p.effects
                          /\ receipt.output_hash = Wire!Hash("output", p.output)
      BY DEF Wire!ClaimIsBacked, Range, Wire!Range
    <2> HIDE DEF m, s, c
    <2>7. Wire!Given(c.answers, m.id) /\ Wire!AnswerValid(m, c)
      BY <2>2, <2>4 DEF Wire!Valid
    <2>8. s.asked # None /\ s.asked.id = m.id
      BY <2>3, <2>5, <2>7, NoneIsNoNumber DEF Wire!Given
    <2>9. /\ s.asked.type = "call" /\ q # None /\ c.request = q /\ c.receipt_required
      BY <2>3, <2>6, <2>8
    <2>10. /\ Wire!AnswerRepeats(p, c) /\ Wire!ResultValid(p, c) /\ Wire!ReceiptsValid(m, p, c)
      BY <2>7 DEF Wire!AnswerValid, Wire!IsResult
    <2>11. p.execution = Wire!Sanitized(q.execution)
      BY <2>9, <2>10 DEF Wire!AnswerRepeats
    <2>12. p.approval_receipt = None
      BY <2>10 DEF Wire!ResultValid
    <2>13. p.receipt # None /\ Wire!ReceiptsResolve(p, m.links, c.receipts)
      BY <2>9, <2>10 DEF Wire!ReceiptsValid, Wire!OverCapacity
    <2>14. c.receipts = [i \in DOMAIN m.links |-> s.store[m.links[i]]]
      BY <2>6 DEF Wire!Fetched
    <2>15. DOMAIN c.receipts = DOMAIN m.links
      BY <2>14
    <2>16. PICK i \in DOMAIN m.links :
             /\ c.receipts[i].expected = AppReference(p)
             /\ \A j \in DOMAIN m.links : c.receipts[j].expected.type = "app" => j = i
             /\ Wire!AppReceiptAgrees(p, c.receipts[i].receipt) /\ c.receipts[i].locally_valid
      BY <2>3, <2>12, <2>13, <2>15, OneReceipt
    <2> DEFINE u == m.links[i]
               receipt == s.store[u].receipt
    <2>17. c.receipts[i] = s.store[u]
      BY <2>14
    <2>18. u \in DOMAIN s.store
      BY <2>3 DEF Range
    <2>19. Range(m.links) \cap {x \in DOMAIN s.store : s.store[x].expected.type = "app"} = {u}
      <3>1. s.store[u].expected.type = "app"
        BY <2>16, <2>17 DEF AppReference
      <3>2. \A j \in DOMAIN m.links : s.store[m.links[j]].expected.type = "app" => j = i
        BY <2>14, <2>16
      <3> QED BY <2>18, <3>1, <3>2 DEF Range
    <2>20. /\ receipt.execution = p.execution /\ receipt.effects = p.effects
           /\ receipt.policy.outcome = "allow"
           /\ receipt.output_hash = Wire!Hash("output", p.output)
      <3>1. Wire!AppReceiptAgrees(p, receipt)
        BY <2>16, <2>17
      <3> HIDE DEF receipt, p
      <3>2. p.error = None /\ p.result = "success"
        BY DEF p
      <3> QED BY <3>1, <3>2 DEF Wire!AppReceiptAgrees, Wire!IsResult
    <2>21. s.store[u].locally_valid
      BY <2>16, <2>17
    <2> QED BY <2>11, <2>18, <2>19, <2>20, <2>21
  <1> QED BY JudgedAlways, AcceptedShapedAlways, <1>1, PTL
-------------------------------------------------------------------------------
(* Companions: what an action needs is found by taking the companions of    *)
(* what was found, as often as there are actions.                          *)
Companions(m, x) == m[x].companions
Grow(m, id, s) == s \cup ((UNION {Companions(m, x) : x \in s}) \ {id})

(* Nothing that s needs is missing in it, other than the action itself.    *)
Closes(m, id, s) == \A x \in s : Companions(m, x) \ {id} \subseteq s

(* The impact simulation counts as this module does.                       *)
LEMMA SameCountOfActions == \A S : Impact!Cardinality(S) = Cardinality(S)
  BY DEF Impact!Cardinality, Cardinality, Impact!IsFiniteSet, IsFiniteSet

(* The stages of the closure, as a function that computes them.            *)
LEMMA ClosureStages ==
  ASSUME NEW m, NEW id \in DOMAIN m, IsFiniteSet(DOMAIN m),
         \A x \in DOMAIN m : m[x].companions \subseteq DOMAIN m
  PROVE  \E g \in [0..Cardinality(DOMAIN m) -> SUBSET (DOMAIN m \ {id})] :
           /\ Impact!CompanionClosure(m, id) = g[Cardinality(DOMAIN m)]
           /\ g[0] = m[id].companions \ {id}
           /\ \A n \in 1..Cardinality(DOMAIN m) : g[n] = Grow(m, id, g[n - 1])
  <1> DEFINE K == Impact!Cardinality(DOMAIN m)
             V == SUBSET (DOMAIN m \ {id})
             base == m[id].companions \ {id}
             F == [s \in V |-> Grow(m, id, s)]
  <1>1. K \in Nat /\ K = Cardinality(DOMAIN m)
    BY FS_CardinalityType, SameCountOfActions
  <1>2. base \in V
    OBVIOUS
  <1>3. F \in [V -> V]
    <2> SUFFICES ASSUME NEW s \in V PROVE Grow(m, id, s) \in V
      OBVIOUS
    <2>1. \A x \in s : Companions(m, x) \subseteq DOMAIN m
      BY DEF Companions
    <2> QED BY <2>1 DEF Grow
  <1> DEFINE After(g, n) == g[n - 1] \cup ((UNION {m[c].companions : c \in g[n - 1]}) \ {id})
             Stages(f) == f = [n \in 0..K |-> IF n = 0 THEN base ELSE After(f, n)]
             f == CHOOSE h : Stages(h)
  <1>4. Impact!CompanionClosure(m, id) = f[K]
    BY DEF Impact!CompanionClosure
  <1> HIDE DEF K, f
  <1>5. \E g \in [0..K -> V] : Steps(g, K, base, F)
    <2> HIDE DEF V, base, F
    <2> QED BY <1>1, <1>2, <1>3, StepsExist
  <1>6. PICK g \in [0..K -> V] : \A n \in 0..K : g[n] = IF n = 0 THEN base ELSE F[g[n - 1]]
    BY <1>5 DEF Steps
  <1>7. \A n \in 1..K : g[n] = Grow(m, id, g[n - 1])
    <2> SUFFICES ASSUME NEW n \in 1..K PROVE g[n] = Grow(m, id, g[n - 1])
      OBVIOUS
    <2>1. n - 1 \in 0..K /\ n \in 0..K /\ n # 0
      BY <1>1
    <2>2. g[n - 1] \in V
      BY <1>6, <2>1
    <2>3. g[n] = F[g[n - 1]]
      BY <1>6, <2>1
    <2> QED BY <2>2, <2>3
  <1>8. g[0] = base
    <2>1. 0 \in 0..K
      BY <1>1
    <2> QED BY <1>6, <2>1
  <1>9. \A n \in 0..K : g[n] = IF n = 0 THEN base ELSE After(g, n)
    <2> SUFFICES ASSUME NEW n \in 0..K
                 PROVE  g[n] = IF n = 0 THEN base ELSE After(g, n)
      OBVIOUS
    <2>1. n # 0 => n \in 1..K
      BY <1>1
    <2> QED BY <1>7, <1>8, <2>1 DEF Grow, Companions
  <1>10. Stages(g)
    <2> HIDE DEF V, base, After
    <2> QED BY <1>6, <1>9
  <1>11. Stages(f)
    <2> HIDE DEF Stages
    <2> QED BY <1>10 DEF f
  <1>12. \A n \in 0..K : f[n] = IF n = 0 THEN base ELSE After(f, n)
    <2> HIDE DEF After, base
    <2> QED BY <1>11
  <1>13. f[K] = g[K]
    <2> DEFINE N == {n \in Nat : n <= K => f[n] = g[n]}
    <2>1. 0 \in N
      <3>1. 0 \in 0..K
        BY <1>1
      <3> QED BY <1>8, <1>12, <3>1
    <2>2. ASSUME NEW n \in Nat, n \in N
          PROVE  n + 1 \in N
      <3> SUFFICES ASSUME n + 1 <= K PROVE f[n + 1] = g[n + 1]
        OBVIOUS
      <3>1. n + 1 \in 0..K /\ n + 1 # 0 /\ (n + 1) - 1 = n /\ n <= K
        BY <1>1
      <3>2. f[n] = g[n]
        BY <2>2, <3>1
      <3>3. After(f, n + 1) = After(g, n + 1)
        BY <3>1, <3>2
      <3> HIDE DEF After
      <3> QED BY <1>9, <1>12, <3>1, <3>3
    <2> HIDE DEF N
    <2>3. K \in N
      BY <1>1, <2>1, <2>2, SetInduction
    <2> QED BY <1>1, <2>3 DEF N
  <1>14. g \in [0..Cardinality(DOMAIN m) -> SUBSET (DOMAIN m \ {id})]
    BY <1>1, <1>6
  <1>15. \A n \in 1..Cardinality(DOMAIN m) : g[n] = Grow(m, id, g[n - 1])
    BY <1>1, <1>7
  <1>16. Impact!CompanionClosure(m, id) = g[Cardinality(DOMAIN m)]
    BY <1>1, <1>4, <1>13
  <1> QED BY <1>8, <1>14, <1>15, <1>16

(* The closure holds the companions of the action and of all it holds: a    *)
(* stage that is not closed yet has grown as often as it was computed, and  *)
(* the last one would hold more than there are other actions.              *)
LEMMA ClosureCloses ==
  ASSUME NEW m, NEW id \in DOMAIN m, IsFiniteSet(DOMAIN m),
         \A x \in DOMAIN m : m[x].companions \subseteq DOMAIN m
  PROVE  LET s == Impact!CompanionClosure(m, id) IN
         /\ s \subseteq DOMAIN m \ {id}
         /\ m[id].companions \ {id} \subseteq s
         /\ Closes(m, id, s)
  <1> DEFINE K == Cardinality(DOMAIN m)
             V == SUBSET (DOMAIN m \ {id})
             base == m[id].companions \ {id}
             s == Impact!CompanionClosure(m, id)
  <1>1. PICK g \in [0..K -> V] :
          s = g[K] /\ g[0] = base /\ \A n \in 1..K : g[n] = Grow(m, id, g[n - 1])
    BY ClosureStages
  <1>2. K \in Nat
    BY FS_CardinalityType
  <1>3. IsFiniteSet(DOMAIN m \ {id}) /\ Cardinality(DOMAIN m \ {id}) = K - 1
    BY FS_RemoveElement
  <1>4. \A t \in V : IsFiniteSet(t) /\ Cardinality(t) \in Nat /\ Cardinality(t) <= K - 1
    BY <1>3, FS_Subset, FS_CardinalityType
  <1> HIDE DEF K, V, s
  <1> DEFINE Good(n) == base \subseteq g[n] /\ (Closes(m, id, g[n]) \/ Cardinality(g[n]) >= n)
             N == {n \in Nat : n <= K => Good(n)}
  <1>5. 0 \in N
    <2>0. 0 \in 0..K /\ g \in [0..K -> V]
      BY <1>1, <1>2
    <2>1. g[0] \in V
      BY <2>0
    <2>2. Cardinality(g[0]) >= 0
      BY <1>4, <2>1
    <2>3. base \subseteq g[0]
      BY <1>1
    <2> HIDE DEF base
    <2> QED BY <2>2, <2>3
  <1>6. ASSUME NEW n \in Nat, n \in N
        PROVE  n + 1 \in N
    <2> SUFFICES ASSUME n + 1 <= K PROVE Good(n + 1)
      OBVIOUS
    <2>1. n \in 0..K /\ n + 1 \in 1..K /\ n + 1 \in 0..K /\ (n + 1) - 1 = n /\ n <= K
      BY <1>2
    <2>2. Good(n)
      BY <1>6, <2>1
    <2>3. g[n] \in V /\ g[n + 1] \in V
      BY <1>1, <2>1
    <2>4. g[n + 1] = Grow(m, id, g[n])
      BY <1>1, <2>1
    <2> DEFINE s1 == g[n]
               s2 == g[n + 1]
    <2>5. s1 \subseteq s2
      BY <2>4 DEF Grow
    <2>6. base \subseteq s2
      BY <2>2, <2>5
    <2>7. CASE Closes(m, id, s1)
      <3>1. s2 = s1
        BY <2>4, <2>7 DEF Grow, Closes
      <3> QED BY <2>6, <2>7, <3>1
    <2>8. CASE ~Closes(m, id, s1)
      <3>1. s2 # s1
        BY <2>4, <2>8 DEF Grow, Closes
      <3>2. Cardinality(s1) >= n
        BY <2>2, <2>8
      <3>3. /\ IsFiniteSet(s2) /\ Cardinality(s1) \in Nat /\ Cardinality(s2) \in Nat
        BY <1>4, <2>3
      <3>4. Cardinality(s1) <= Cardinality(s2) /\ Cardinality(s1) # Cardinality(s2)
        BY <2>5, <3>1, <3>3, FS_Subset
      <3> HIDE DEF s1, s2
      <3>5. Cardinality(s2) >= n + 1
        BY <3>2, <3>3, <3>4
      <3> QED BY <2>6, <3>5 DEF s2
    <2> QED BY <2>7, <2>8
  <1> HIDE DEF N
  <1>7. K \in N
    BY <1>2, <1>5, <1>6, SetInduction
  <1>8. Good(K)
    BY <1>2, <1>7 DEF N
  <1>9. g[K] \in V
    BY <1>1, <1>2
  <1>10. Cardinality(g[K]) <= K - 1 /\ Cardinality(g[K]) \in Nat
    BY <1>4, <1>9
  <1>11. ~(Cardinality(g[K]) >= K)
    BY <1>2, <1>10
  <1>12. Closes(m, id, s) /\ base \subseteq s
    BY <1>1, <1>8, <1>11
  <1> QED BY <1>1, <1>9, <1>12 DEF V, s

(* Every set that holds the action and the companions of all it holds has   *)
(* the closure in it.                                                      *)
LEMMA ClosureIsLeast ==
  ASSUME NEW m, NEW id \in DOMAIN m, IsFiniteSet(DOMAIN m),
         \A x \in DOMAIN m : m[x].companions \subseteq DOMAIN m,
         NEW t, id \in t, \A x \in t : m[x].companions \subseteq t
  PROVE  Impact!CompanionClosure(m, id) \subseteq t
  <1> DEFINE K == Cardinality(DOMAIN m)
             V == SUBSET (DOMAIN m \ {id})
  <1>1. PICK g \in [0..K -> V] :
          /\ Impact!CompanionClosure(m, id) = g[K] /\ g[0] = m[id].companions \ {id}
          /\ \A n \in 1..K : g[n] = Grow(m, id, g[n - 1])
    BY ClosureStages
  <1>2. K \in Nat
    BY FS_CardinalityType
  <1> HIDE DEF K, V
  <1> DEFINE N == {n \in Nat : n <= K => g[n] \subseteq t}
  <1>3. 0 \in N
    BY <1>1
  <1>4. ASSUME NEW n \in Nat, n \in N
        PROVE  n + 1 \in N
    <2> SUFFICES ASSUME n + 1 <= K PROVE g[n + 1] \subseteq t
      OBVIOUS
    <2>1. n + 1 \in 1..K /\ (n + 1) - 1 = n /\ n <= K
      BY <1>2
    <2>2. g[n + 1] = Grow(m, id, g[n])
      BY <1>1, <2>1
    <2>3. g[n] \subseteq t
      BY <1>4, <2>1
    <2> QED BY <2>2, <2>3 DEF Grow, Companions
  <1> HIDE DEF N
  <1>5. K \in N
    BY <1>2, <1>3, <1>4, SetInduction
  <1> QED BY <1>1, <1>2, <1>5 DEF N

(* What an action needs is itself and its closure.                         *)
LEMMA NeedsIsClosure ==
  ASSUME NEW m, NEW id \in DOMAIN m, IsFiniteSet(DOMAIN m),
         \A x \in DOMAIN m : m[x].companions \subseteq DOMAIN m
  PROVE  Needs(m, id) = Impact!CompanionClosure(m, id) \cup {id}
  <1> DEFINE c == Impact!CompanionClosure(m, id)
             t == c \cup {id}
             Closed(s) == \A x \in s : m[x].companions \subseteq s
  <1>1. /\ c \subseteq DOMAIN m \ {id} /\ m[id].companions \ {id} \subseteq c
        /\ Closes(m, id, c)
    BY ClosureCloses
  <1>2. \A s \in SUBSET DOMAIN m : id \in s /\ Closed(s) => c \subseteq s
    BY ClosureIsLeast
  <1> HIDE DEF c
  <1>3. t \in SUBSET DOMAIN m /\ id \in t
    BY <1>1
  <1>4. Closed(t)
    BY <1>1 DEF Closes, Companions
  <1>5. Needs(m, id) = {x \in DOMAIN m :
                          \A s \in SUBSET DOMAIN m : id \in s /\ Closed(s) => x \in s}
    BY DEF Needs
  <1>6. Needs(m, id) \subseteq t
    BY <1>3, <1>4, <1>5
  <1>7. t \subseteq Needs(m, id)
    BY <1>2, <1>3, <1>5
  <1> QED BY <1>6, <1>7 DEF c

(* A manifest that is valid: the companions of its actions are actions, a   *)
(* recovery is an action that undoes effects of the action it recovers.     *)
LEMMA ManifestResolves ==
  ASSUME NEW m, Impact!ManifestValid(m), NEW id \in DOMAIN m
  PROVE  /\ m[id].companions \subseteq DOMAIN m
         /\ \A w \in m[id].recovery :
              \E t \in m[w.action].targets :
                t.action = id /\ t.effects \subseteq DOMAIN m[id].effects
  <1>1. Impact!RelationshipsShape(id, m[id]) /\ Impact!DeclarationResolves(m, id)
    BY DEF Impact!ManifestValid
  <1>2. m[id].companions \subseteq DOMAIN m
    BY <1>1 DEF Impact!DeclarationResolves
  <1>3. ASSUME NEW w \in m[id].recovery
        PROVE  \E t \in m[w.action].targets :
                 t.action = id /\ t.effects \subseteq DOMAIN m[id].effects
    <2> DEFINE t == [action |-> id, effects |-> w.effects, window |-> w.window]
    <2>1. t \in m[w.action].targets
      BY <1>1 DEF Impact!DeclarationResolves
    <2>2. w.effects \subseteq DOMAIN m[id].effects
      BY <1>1 DEF Impact!RelationshipsShape
    <2>3. t.action = id /\ t.effects = w.effects
      OBVIOUS
    <2> QED BY <2>1, <2>2, <2>3
  <1> QED BY <1>2, <1>3

(* An outcome is "covered" only where no check blocks, for sure or not.    *)
LEMMA CoveredUnblocked ==
  ASSUME NEW checks, Impact!Outcome(checks).outcome = "covered"
  PROVE  \A c \in DOMAIN checks : checks[c].state # "blocking"
  <1> DEFINE status == Impact!Decision(checks).status
  <1>1. status # "incompatible" /\ status # "indeterminate"
    <2>1. status = "incompatible" => Impact!Outcome(checks).outcome = "not_covered"
      BY DEF Impact!Outcome
    <2>2. status # "incompatible" /\ status = "indeterminate" =>
            Impact!Outcome(checks).outcome = "indeterminate"
      BY DEF Impact!Outcome
    <2> QED BY <2>1, <2>2
  <1>2. Impact!Blocking(checks, TRUE) = {} /\ Impact!Blocking(checks, FALSE) = {}
    BY <1>1 DEF Impact!Decision
  <1>3. ASSUME NEW c \in DOMAIN checks, checks[c].state = "blocking"
        PROVE  FALSE
    <2>1. CASE c \in Impact!DefinitiveChecks
      BY <1>2, <1>3, <2>1 DEF Impact!Blocking
    <2>2. CASE c \notin Impact!DefinitiveChecks
      BY <1>2, <1>3, <2>2 DEF Impact!Blocking
    <2> QED BY <2>1, <2>2
  <1> QED BY <1>3

(* What is shown as covered was requested, and is shown as it is derived.   *)
LEMMA ExampleCovered ==
  ASSUME NEW source, NEW j \in DOMAIN Impact!Examples(source),
         Impact!Examples(source)[j].outcome = "covered"
  PROVE  \E id \in source.requested :
           /\ Impact!Examples(source)[j].action =
                Impact!DerivedAction(source.manifest, id, source.requested)
           /\ Impact!Outcome(source.checks).outcome = "covered"
  <1> DEFINE ids == Impact!Named(source.requested) \o Impact!Unrequested(source)
             id == ids[j]
             action == Impact!DerivedAction(source.manifest, id, source.requested)
             e == Impact!Examples(source)[j]
  <1>1. j \in DOMAIN ids
    BY DEF Impact!Examples
  <1>2. e = [relation |-> IF id \in source.requested THEN "requested" ELSE "unrequested",
             action |-> action,
             outcome |-> IF id \in source.requested THEN Impact!Outcome(source.checks).outcome
                                                    ELSE "not_covered",
             reasons |-> IF id \in source.requested THEN Impact!Outcome(source.checks).reasons
                                                    ELSE {"action_not_requested"}]
    BY <1>1 DEF Impact!Examples
  <1> HIDE DEF ids, action, e
  <1>3. e.action = action /\ e.outcome = IF id \in source.requested
                                         THEN Impact!Outcome(source.checks).outcome
                                         ELSE "not_covered"
    BY <1>2
  <1>4. id \in source.requested /\ Impact!Outcome(source.checks).outcome = "covered"
    BY <1>3 DEF e
  <1> QED BY <1>3, <1>4 DEF e, action

(* What a Runtime shows a user as covered can happen: the checks that decide *)
(* an outcome, the closure of the companions and the recovery that pairs     *)
(* two declarations are all derived again before a result is accepted.      *)
THEOREM CoveragePossible == Spec /\ Environment => []CoverageMeansPossible
  <1>1. Judged /\ AcceptedShaped => CoverageMeansPossible
    <2> SUFFICES ASSUME Judged, AcceptedShaped, NEW i \in Of("impact"),
                        NEW j \in DOMAIN Document(i).examples,
                        Document(i).examples[j].outcome = "covered"
                 PROVE  LET e == Document(i).examples[j]
                            source == Records(i).source IN
                        /\ \A c \in DOMAIN source.checks : source.checks[c].state # "blocking"
                        /\ Needs(source.manifest, e.action.action)
                             = e.action.companions \cup {e.action.action}
                        /\ Needs(source.manifest, e.action.action) \subseteq source.requested
                        /\ \A a \in e.action.recovery.available :
                             /\ a \in source.requested
                             /\ \E t \in source.manifest[a].targets :
                                  /\ t.action = e.action.action
                                  /\ t.effects \subseteq DOMAIN e.action.effects
      BY DEF CoverageMeansPossible
    <2> DEFINE r == Records(i)
               d == Document(i)
               e == Document(i).examples[j]
               source == Records(i).source
               m == Records(i).source.manifest
               q == Records(i).source.requested
    <2>1. kind = "impact" /\ i \in DOMAIN accepted
      BY DEF Of
    <2>2. Impact!ImpactProjectionValid(d, source, r.current, r.now, r.surface, r.grant)
      BY <2>1 DEF Judged, Accepts
    <2>3. IsFiniteSet(DOMAIN m)
      <3>1. Shaped("impact", r, d)
        BY <2>1 DEF AcceptedShaped
      <3> QED BY <3>1 DEF Shaped
    <2>4. /\ Impact!ManifestValid(m) /\ Impact!RequestClosed(source)
          /\ d.examples = Impact!Examples(source)
      <3> HIDE DEF d, source, r
      <3>1. /\ Impact!ManifestValid(source.manifest) /\ Impact!RequestClosed(source)
            /\ d.examples = Impact!Examples(source)
        BY <2>2 DEF Impact!ImpactProjectionValid, Impact!ImpactValid
      <3> QED BY <3>1 DEF source
    <2>5. PICK id \in q : /\ e.action = Impact!DerivedAction(m, id, q)
                          /\ Impact!Outcome(source.checks).outcome = "covered"
      BY <2>4, ExampleCovered
    <2>6. id \in DOMAIN m /\ Impact!CompanionClosure(m, id) \subseteq q
      BY <2>4 DEF Impact!RequestClosed
    <2>7. /\ e.action.action = id /\ e.action.companions = Impact!CompanionClosure(m, id)
          /\ e.action.effects = m[id].effects
          /\ e.action.recovery.available = {w.action : w \in m[id].recovery} \cap q
      BY <2>5 DEF Impact!DerivedAction
    <2>8. \A x \in DOMAIN m : m[x].companions \subseteq DOMAIN m
      BY <2>4, ManifestResolves
    <2>9. Needs(m, id) = Impact!CompanionClosure(m, id) \cup {id}
      BY <2>3, <2>6, <2>8, NeedsIsClosure
    <2>10. \A w \in m[id].recovery :
             \E t \in m[w.action].targets : t.action = id /\ t.effects \subseteq DOMAIN m[id].effects
      BY <2>4, <2>6, ManifestResolves
    <2>11. \A c \in DOMAIN source.checks : source.checks[c].state # "blocking"
      BY <2>5, CoveredUnblocked
    <2> HIDE DEF e, source, m, q
    <2>12. \A a \in e.action.recovery.available :
             /\ a \in q
             /\ \E t \in m[a].targets :
                  t.action = e.action.action /\ t.effects \subseteq DOMAIN e.action.effects
      BY <2>7, <2>10
    <2>13. /\ Needs(m, e.action.action) = e.action.companions \cup {e.action.action}
           /\ Needs(m, e.action.action) \subseteq q
      BY <2>6, <2>7, <2>9
    <2> QED BY <2>11, <2>12, <2>13 DEF e, source, m, q
  <1> QED BY JudgedAlways, AcceptedShapedAlways, <1>1, PTL
-------------------------------------------------------------------------------
(* Languages: a lookup tries the beginnings of a tag, the longest first.    *)

(* Documents of a surface are counted as this module counts.               *)
LEMMA SameCountOfTags == \A S : Surface!Cardinality(S) = Cardinality(S)
  BY DEF Surface!Cardinality, Cardinality, Surface!IsFiniteSet, IsFiniteSet

(* A valid tag has no subtag a lookup would skip: it is a language, a       *)
(* script, a region and variants.                                          *)
LEMMA NoSingleton ==
  ASSUME NEW tag, IsList(tag), Surface!TagValid(tag)
  PROVE  Len(tag) \in Nat /\ Len(tag) >= 1
         /\ \A i \in 1..Len(tag) : tag[i].form # "singleton"
  <1> DEFINE script == {i \in {2} : Len(tag) >= 2 /\ tag[2].form = "script"}
             at == 2 + Surface!Cardinality(script)
             region == {i \in {at} : Len(tag) >= at /\ tag[at].form = "region"}
             variants == (at + Surface!Cardinality(region))..Len(tag)
  <1>1. /\ tag # <<>> /\ tag[1].form = "language"
        /\ \A i \in variants : tag[i].form = "variant"
    BY DEF Surface!TagValid
  <1>2. Len(tag) \in Nat /\ Len(tag) >= 1
    BY <1>1 DEF IsList
  <1>3. Surface!Cardinality({}) = 0 /\ Surface!Cardinality({2}) = 1
        /\ Surface!Cardinality({at}) = 1
    BY SameCountOfTags, FS_Singleton, FS_EmptySet
  <1>4. script = {} \/ (script = {2} /\ tag[2].form = "script")
    OBVIOUS
  <1> HIDE DEF script
  <1>5. \/ at = 2
        \/ at = 3 /\ tag[2].form = "script"
    <2>1. CASE script = {}
      BY <1>3, <2>1
    <2>2. CASE script = {2} /\ tag[2].form = "script"
      BY <1>3, <2>2
    <2> QED BY <1>4, <2>1, <2>2
  <1> HIDE DEF at
  <1>6. region = {} \/ (region = {at} /\ tag[at].form = "region")
    OBVIOUS
  <1> HIDE DEF region
  <1> DEFINE more == Surface!Cardinality(region)
  <1>7. \/ more = 0
        \/ more = 1 /\ tag[at].form = "region"
    BY <1>3, <1>6
  <1>8. variants = (at + more)..Len(tag)
    OBVIOUS
  <1> HIDE DEF more, variants
  <1>9. ASSUME NEW i \in 1..Len(tag)
        PROVE  tag[i].form \in {"language", "script", "region", "variant"}
    <2>1. i = 1 \/ (i = 2 /\ at = 3) \/ (i = at /\ more = 1) \/ i \in (at + more)..Len(tag)
      BY <1>2, <1>5, <1>7
    <2> QED BY <1>1, <1>5, <1>7, <1>8, <2>1
  <1> QED BY <1>2, <1>9

(* The first k subtags.                                                    *)
Begin(tag, k) == SubSeq(tag, 1, k)

(* A beginning of a list: what it is made of.                              *)
LEMMA Beginnings ==
  ASSUME NEW tag, IsList(tag), NEW k \in 0..Len(tag)
  PROVE  /\ IsList(Begin(tag, k)) /\ Len(Begin(tag, k)) = k
         /\ \A i \in 1..k : Begin(tag, k)[i] = tag[i]
         /\ IsPrefix(Begin(tag, k), tag)
         /\ k >= 1 => SubSeq(Begin(tag, k), 1, k - 1) = Begin(tag, k - 1)
         /\ Begin(tag, k) = <<>> <=> k = 0
         /\ Begin(tag, Len(tag)) = tag
  <1> DEFINE S == {tag[i] : i \in DOMAIN tag}
  <1>1. tag \in Seq(S) /\ Len(tag) \in Nat
    BY DEF IsList
  <1> HIDE DEF S
  <1>2. /\ Begin(tag, k) \in Seq(S) /\ Len(Begin(tag, k)) = k
        /\ \A i \in 1..k : Begin(tag, k)[i] = tag[i]
    BY <1>1 DEF Begin
  <1>3. IsList(Begin(tag, k))
    BY <1>2, ListOfItsOwn DEF IsList
  <1>4. SubSeq(Begin(tag, k), 1, k) = Begin(tag, k)
    BY <1>2
  <1>5. IsPrefix(Begin(tag, k), tag)
    BY <1>1, <1>2, <1>4 DEF IsPrefix, Begin
  <1>6. ASSUME k >= 1
        PROVE  SubSeq(Begin(tag, k), 1, k - 1) = Begin(tag, k - 1)
    <2>1. /\ SubSeq(Begin(tag, k), 1, k - 1) \in Seq(S) /\ Begin(tag, k - 1) \in Seq(S)
          /\ Len(SubSeq(Begin(tag, k), 1, k - 1)) = k - 1 /\ Len(Begin(tag, k - 1)) = k - 1
      BY <1>1, <1>2, <1>6 DEF Begin
    <2>2. \A i \in 1..(k - 1) : SubSeq(Begin(tag, k), 1, k - 1)[i] = Begin(tag, k - 1)[i]
      BY <1>1, <1>2, <1>6 DEF Begin
    <2> QED BY <2>1, <2>2
  <1>7. Begin(tag, k) = <<>> <=> k = 0
    BY <1>2
  <1>8. Begin(tag, Len(tag)) = tag
    BY <1>1 DEF Begin
  <1> QED BY <1>2, <1>3, <1>5, <1>6, <1>7, <1>8

(* So a step of a lookup drops one subtag.                                 *)
LEMMA OneShorter ==
  ASSUME NEW tag, IsList(tag), Surface!TagValid(tag), NEW k \in 1..Len(tag)
  PROVE  Surface!Shortened(Begin(tag, k)) = Begin(tag, k - 1)
  <1>1. k \in 0..Len(tag) /\ k - 1 \in 0..Len(tag) /\ k >= 1
    BY NoSingleton
  <1>2. Surface!Front(Begin(tag, k)) = Begin(tag, k - 1)
    BY <1>1, Beginnings DEF Surface!Front
  <1>3. ASSUME Begin(tag, k - 1) # <<>>
        PROVE  Surface!Last(Begin(tag, k - 1)).form # "singleton"
    <2>1. Len(Begin(tag, k - 1)) = k - 1 /\ k - 1 # 0
      BY <1>1, <1>3, Beginnings
    <2>2. k - 1 \in 1..(k - 1) /\ k - 1 \in 1..Len(tag)
      BY <1>1, <2>1
    <2>3. Begin(tag, k - 1)[k - 1] = tag[k - 1]
      BY <1>1, <2>2, Beginnings
    <2> QED BY <2>1, <2>2, <2>3, NoSingleton DEF Surface!Last
  <1> QED BY <1>2, <1>3 DEF Surface!Shortened

(* A lookup ends at the longest beginning of the tag that is a language, or *)
(* with none of the tag left.                                              *)
LEMMA LookupEnds ==
  ASSUME NEW L, NEW tag, IsList(tag), Surface!TagValid(tag)
  PROVE  \E k \in 0..Len(tag) :
           /\ Surface!LookupOne(L, tag) = Begin(tag, k)
           /\ k = 0 \/ Begin(tag, k) \in L
           /\ \A j \in 1..Len(tag) : Begin(tag, j) \in L => j <= k
  <1> DEFINE K == Len(tag)
             Here == {k \in 0..K : k = 0 \/ Begin(tag, k) \in L}
  <1>1. K \in Nat /\ 0 \in 0..K
    BY NoSingleton
  <1> HIDE DEF K
  <1>2. Here \in SUBSET (0..K) /\ Here # {}
    BY <1>1
  <1>3. PICK top \in Here : \A j \in Here : top >= j
    BY <1>1, <1>2, GreatestNumber
  <1>4. top \in 0..K /\ (top = 0 \/ Begin(tag, top) \in L)
    OBVIOUS
  <1>5. \A j \in 1..K : Begin(tag, j) \in L => j <= top
    BY <1>1, <1>3
  <1> HIDE DEF Here
  <1> DEFINE step(f, n) == IF f[n - 1] \in L \cup {<<>>} THEN f[n - 1]
                           ELSE Surface!Shortened(f[n - 1])
             Tries(f) == f = [n \in 0..K |-> IF n = 0 THEN tag ELSE step(f, n)]
             f == CHOOSE h : Tries(h)
             left(n) == IF K - n >= top THEN K - n ELSE top
             g == [n \in 0..K |-> Begin(tag, left(n))]
  <1>6. Surface!LookupOne(L, tag) = f[K]
    BY DEF Surface!LookupOne, K
  <1> HIDE DEF f
  <1>7. \A n \in 0..K : left(n) \in 0..K /\ g[n] = Begin(tag, left(n))
    BY <1>1, <1>4
  <1>8. g[0] = tag
    <2>1. left(0) = K /\ 0 \in 0..K
      BY <1>1, <1>4
    <2>2. g[0] = Begin(tag, K)
      BY <1>7, <2>1
    <2>3. Begin(tag, Len(tag)) = tag
      BY <1>1, Beginnings DEF K
    <2> QED BY <2>2, <2>3 DEF K
  <1>9. ASSUME NEW n \in 1..K
        PROVE  g[n] = step(g, n)
    <2>1. /\ n \in 0..K /\ n - 1 \in 0..K
          /\ left(n) \in 0..K /\ left(n - 1) \in 0..K
      BY <1>1, <1>4
    <2>2. g[n] = Begin(tag, left(n)) /\ g[n - 1] = Begin(tag, left(n - 1))
      BY <1>7, <2>1
    <2>3. left(n - 1) = top => left(n) = top
      BY <1>1, <1>4, <2>1
    <2>4. left(n - 1) # top =>
            left(n) = left(n - 1) - 1 /\ left(n - 1) > top /\ left(n - 1) \in 1..K
      BY <1>1, <1>4, <2>1
    <2> HIDE DEF g, left
    <2>5. CASE left(n - 1) = top
      <3>1. Begin(tag, top) \in L \cup {<<>>}
        <4>1. top = 0 => Begin(tag, top) = <<>>
          BY <1>4, Beginnings DEF K
        <4> QED BY <1>4, <4>1
      <3> QED BY <2>2, <2>3, <2>5, <3>1
    <2>6. CASE left(n - 1) # top
      <3>1. Begin(tag, left(n - 1)) \notin L
        BY <1>1, <1>4, <1>5, <2>4, <2>6
      <3>2. Begin(tag, left(n - 1)) # <<>>
        <4>1. left(n - 1) \in 0..Len(tag) /\ left(n - 1) # 0
          BY <1>1, <2>4, <2>6 DEF K
        <4> QED BY <4>1, Beginnings
      <3>3. Surface!Shortened(Begin(tag, left(n - 1))) = Begin(tag, left(n - 1) - 1)
        BY <2>4, <2>6, OneShorter DEF K
      <3> QED BY <2>2, <2>4, <2>6, <3>1, <3>2, <3>3
    <2> QED BY <2>5, <2>6
  <1>10. Tries(g)
    <2>1. \A n \in 0..K : g[n] = IF n = 0 THEN tag ELSE step(g, n)
      <3> SUFFICES ASSUME NEW n \in 0..K
                   PROVE  g[n] = IF n = 0 THEN tag ELSE step(g, n)
        OBVIOUS
      <3>1. n # 0 => n \in 1..K
        BY <1>1
      <3> HIDE DEF g, step
      <3> QED BY <1>8, <1>9, <3>1
    <2>2. g = [n \in 0..K |-> g[n]]
      OBVIOUS
    <2> HIDE DEF g, step
    <2> QED BY <2>1, <2>2
  <1>11. Tries(f)
    <2> HIDE DEF Tries
    <2> QED BY <1>10 DEF f
  <1>12. \A n \in 0..K : f[n] = IF n = 0 THEN tag ELSE step(f, n)
    <2> HIDE DEF step
    <2> QED BY <1>11
  <1> HIDE DEF g, Tries
  <1>13. f[K] = g[K]
    <2> DEFINE N == {n \in Nat : n <= K => f[n] = g[n]}
    <2>1. 0 \in N
      BY <1>1, <1>8, <1>12
    <2>2. ASSUME NEW n \in Nat, n \in N
          PROVE  n + 1 \in N
      <3> SUFFICES ASSUME n + 1 <= K PROVE f[n + 1] = g[n + 1]
        OBVIOUS
      <3>1. n + 1 \in 0..K /\ n + 1 \in 1..K /\ n + 1 # 0 /\ (n + 1) - 1 = n /\ n <= K
        BY <1>1
      <3>2. f[n] = g[n]
        BY <2>2, <3>1
      <3>3. step(f, n + 1) = step(g, n + 1)
        BY <3>1, <3>2
      <3>4. f[n + 1] = step(f, n + 1) /\ g[n + 1] = step(g, n + 1)
        <4> HIDE DEF step
        <4> QED BY <1>9, <1>12, <3>1
      <3> HIDE DEF step
      <3> QED BY <3>3, <3>4
    <2> HIDE DEF N
    <2>3. K \in N
      BY <1>1, <2>1, <2>2, SetInduction
    <2> QED BY <1>1, <2>3 DEF N
  <1>14. K \in 0..K /\ left(K) = top
    BY <1>1, <1>4
  <1> HIDE DEF left
  <1>15. Surface!LookupOne(L, tag) = Begin(tag, top)
    BY <1>6, <1>7, <1>13, <1>14
  <1> QED BY <1>4, <1>5, <1>15 DEF K

(* The languages that are a range of the tag.                              *)
Ranges(L, tag) == {l \in L : IsPrefix(l, tag)}

(* So a lookup finds the longest of them, and something else when there is  *)
(* none.                                                                   *)
LEMMA LookupClosest ==
  ASSUME NEW L, NEW tag, IsList(tag), Surface!TagValid(tag),
         \A l \in L : IsList(l) /\ Surface!TagValid(l)
  PROVE  LET q == Surface!LookupOne(L, tag) IN
         /\ q \in L <=> Ranges(L, tag) # {}
         /\ q \in L => q \in Ranges(L, tag) /\ \A l \in Ranges(L, tag) : Len(l) <= Len(q)
  <1>1. PICK k \in 0..Len(tag) :
          /\ Surface!LookupOne(L, tag) = Begin(tag, k)
          /\ k = 0 \/ Begin(tag, k) \in L
          /\ \A j \in 1..Len(tag) : Begin(tag, j) \in L => j <= k
    BY LookupEnds
  <1>2. Len(Begin(tag, k)) = k /\ IsPrefix(Begin(tag, k), tag)
    BY Beginnings
  <1>3. ASSUME NEW l \in Ranges(L, tag)
        PROVE  Len(l) \in 1..Len(tag) /\ l = Begin(tag, Len(l)) /\ l \in L
    <2>1. l \in L /\ IsPrefix(l, tag)
      BY DEF Ranges
    <2>2. IsList(l) /\ Len(l) \in Nat /\ Len(l) >= 1
      BY <2>1, NoSingleton
    <2>3. SubSeq(l, 1, Len(l)) = l
      BY <2>2 DEF IsList
    <2>4. Len(l) <= Len(tag) /\ l = SubSeq(tag, 1, Len(l))
      BY <2>1, <2>3 DEF IsPrefix
    <2>5. Len(tag) \in Nat
      BY NoSingleton
    <2> QED BY <2>1, <2>2, <2>4, <2>5 DEF Begin
  <1>4. \A l \in Ranges(L, tag) : Len(l) <= k
    BY <1>1, <1>3
  <1>5. Begin(tag, k) \in L => Begin(tag, k) \in Ranges(L, tag)
    BY <1>2 DEF Ranges
  <1>6. Ranges(L, tag) # {} => Begin(tag, k) \in L
    <2> SUFFICES ASSUME NEW l \in Ranges(L, tag) PROVE k # 0
      BY <1>1
    <2>1. Len(l) \in 1..Len(tag) /\ Len(l) <= k
      BY <1>3, <1>4
    <2>2. Len(l) >= 1 /\ Len(l) \in Nat
      BY <2>1, NoSingleton
    <2> QED BY <2>1, <2>2
  <1> QED BY <1>1, <1>2, <1>4, <1>5, <1>6

(* What is rendered is the localization in the language that the selection  *)
(* picks: the longest range of the first preference that has any, by the    *)
(* lookup, and the hint's default when no preference has one.              *)
THEOREM ClosestShown == Spec /\ Environment => []ClosestIsRendered
  <1>1. Judged /\ AcceptedShaped => ClosestIsRendered
    <2> SUFFICES ASSUME Judged, AcceptedShaped, NEW i \in Of("risk"),
                        Document(i).operation = "render"
                 PROVE  LET d == Document(i)
                            L == Range(Surface!Languages(d.hint)) IN
                        IF \A n \in DOMAIN d.preferences : Ranges(L, d.preferences[n]) = {}
                        THEN d.rendered.language = d.hint.default
                        ELSE \E n \in DOMAIN d.preferences :
                               /\ \A k \in 1..(n - 1) : Ranges(L, d.preferences[k]) = {}
                               /\ d.rendered.language \in Ranges(L, d.preferences[n])
                               /\ \A l \in Ranges(L, d.preferences[n]) :
                                    Len(l) <= Len(d.rendered.language)
      BY DEF ClosestIsRendered, Ranges
    <2> DEFINE d == Document(i)
               r == Records(i)
               L == Range(Surface!Languages(d.hint))
               prefs == d.preferences
               Found(n) == Surface!LookupOne(L, prefs[n])
               finding == {n \in DOMAIN prefs : Found(n) \in L}
    <2>1. kind = "risk" /\ i \in DOMAIN accepted
      BY DEF Of
    <2>2. Surface!RuntimeHintValid(d, r)
      <3>1. Accepts("risk", d, r)
        BY <2>1 DEF Judged
      <3> QED BY <3>1 DEF Accepts
    <2>3. /\ IsList(prefs) /\ \A n \in DOMAIN prefs : IsList(prefs[n])
          /\ \A l \in L : IsList(l)
      <3>1. Shaped("risk", r, d)
        BY <2>1 DEF AcceptedShaped
      <3> QED BY <3>1 DEF Shaped
    <2>4. /\ \A n \in DOMAIN prefs : Surface!TagValid(prefs[n])
          /\ \A l \in L : Surface!TagValid(l)
          /\ d.rendered.language = Surface!SelectedLanguage(d.hint, prefs)
      <3> HIDE DEF d, r
      <3>1. /\ \A n \in DOMAIN prefs : Surface!TagValid(prefs[n])
            /\ Surface!HintValid(d.hint, d.effects)
            /\ d.rendered.language = Surface!SelectedLanguage(d.hint, prefs)
        BY <2>2 DEF Surface!RuntimeHintValid, Surface!HintBound
      <3>2. \A l \in L : Surface!TagValid(l)
        BY <3>1 DEF Surface!HintValid, Surface!Languages, Range
      <3> QED BY <3>1, <3>2
    <2>5. Surface!SelectedLanguage(d.hint, prefs)
            = IF finding = {} THEN d.hint.default ELSE Found(Surface!Min(finding))
      <3> HIDE DEF d
      <3>1. Surface!Range(Surface!Languages(d.hint)) = L
        BY DEF Surface!Range, Range
      <3> QED BY <3>1 DEF Surface!SelectedLanguage
    <2> HIDE DEF d, r, L, prefs
    <2>6. ASSUME NEW n \in DOMAIN prefs
          PROVE  /\ n \in finding <=> Ranges(L, prefs[n]) # {}
                 /\ n \in finding =>
                      /\ Found(n) \in Ranges(L, prefs[n])
                      /\ \A l \in Ranges(L, prefs[n]) : Len(l) <= Len(Found(n))
      BY <2>3, <2>4, LookupClosest
    <2>7. DOMAIN prefs = 1..Len(prefs) /\ Len(prefs) \in Nat
      BY <2>3 DEF IsList
    <2>8. finding \subseteq DOMAIN prefs
      OBVIOUS
    <2> HIDE DEF finding, Found
    <2>9. CASE finding = {}
      <3>1. \A n \in DOMAIN prefs : Ranges(L, prefs[n]) = {}
        BY <2>6, <2>9
      <3>2. d.rendered.language = d.hint.default
        BY <2>4, <2>5, <2>9
      <3> QED BY <3>1, <3>2 DEF d, L, prefs
    <2>10. CASE finding # {}
      <3> DEFINE first == Surface!Min(finding)
      <3>1. first \in finding /\ \A n \in finding : first <= n
        <4>1. finding \in SUBSET Nat
          BY <2>7, <2>8
        <4>2. \E n \in finding : \A k \in finding : n <= k
          BY <2>10, <4>1, LeastNumber
        <4> QED BY <4>2 DEF Surface!Min
      <3> HIDE DEF first
      <3>2. first \in DOMAIN prefs /\ Ranges(L, prefs[first]) # {}
        BY <2>6, <2>8, <3>1
      <3>3. ASSUME NEW k \in 1..(first - 1)
            PROVE  Ranges(L, prefs[k]) = {}
        <4>1. k \in DOMAIN prefs /\ ~ (first <= k)
          BY <2>7, <3>2
        <4> QED BY <2>6, <3>1, <4>1
      <3>4. d.rendered.language = Found(first)
        BY <2>4, <2>5, <2>10 DEF first
      <3>5. /\ Found(first) \in Ranges(L, prefs[first])
            /\ \A l \in Ranges(L, prefs[first]) : Len(l) <= Len(Found(first))
        BY <2>6, <3>1, <3>2
      <3>6. \E n \in DOMAIN prefs :
               /\ \A k \in 1..(n - 1) : Ranges(L, prefs[k]) = {}
               /\ d.rendered.language \in Ranges(L, prefs[n])
               /\ \A l \in Ranges(L, prefs[n]) : Len(l) <= Len(d.rendered.language)
        BY <3>2, <3>3, <3>4, <3>5
      <3> QED BY <3>2, <3>6 DEF d, L, prefs
    <2> QED BY <2>9, <2>10
  <1> QED BY JudgedAlways, AcceptedShapedAlways, <1>1, PTL
-------------------------------------------------------------------------------
(* The lists of an impact simulation are ordered by counting, too.         *)
LEMMA OrderedLists ==
  ASSUME NEW S, IsFiniteSet(S), NEW before, Orders(S, before)
  PROVE  LET s == Impact!InOrder(S, before)
             n == Cardinality(S) IN
         /\ n \in Nat /\ s \in [1..n -> S] /\ s \in Seq(S) /\ Len(s) = n
         /\ \A x \in S : \E k \in 1..n : s[k] = x
         /\ \A j, k \in 1..n : j < k => <<s[j], s[k]>> \in before
  <1> DEFINE n == Cardinality(S)
             s == Impact!InOrder(S, before)
             At(k) == CHOOSE x \in S : Impact!Cardinality(Before(S, before, x)) = k - 1
  <1>1. s = [k \in 1..n |-> At(k)]
    <2>1. s = [k \in 1..Impact!Cardinality(S) |-> At(k)]
      BY DEF Impact!InOrder, Before
    <2> HIDE DEF s, At
    <2> QED BY <2>1, SameCountOfActions
  <1>2. ASSUME NEW k \in 1..n
        PROVE  At(k) \in S /\ Ahead(S, before, At(k)) = k - 1
    <2>1. \A x : Impact!Cardinality(Before(S, before, x)) = Ahead(S, before, x)
      BY SameCountOfActions DEF Ahead
    <2>2. \E x \in S : Impact!Cardinality(Before(S, before, x)) = k - 1
      BY <2>1, CountsAreRanks
    <2>3. At(k) \in S /\ Impact!Cardinality(Before(S, before, At(k))) = k - 1
      BY <2>2
    <2> HIDE DEF At
    <2> QED BY <2>1, <2>3
  <1> HIDE DEF At, s
  <1>3. s \in [1..n -> S] /\ \A k \in 1..n : Ahead(S, before, s[k]) = k - 1
    BY <1>1, <1>2
  <1> HIDE DEF n
  <1>4. /\ Cardinality(S) \in Nat /\ s \in Seq(S) /\ Len(s) = Cardinality(S)
        /\ \A x \in S : \E k \in 1..Cardinality(S) : s[k] = x
        /\ \A j, k \in 1..Cardinality(S) : j < k => <<s[j], s[k]>> \in before
    BY <1>3, RankedLists DEF n
  <1> QED BY <1>3, <1>4 DEF s, n

(* An action has its place among the names, and a risk its rank.           *)
LEMMA PlacesAndRanks ==
  /\ \A id \in Range(ActionOrder) :
       Impact!Place(id) \in Nat /\ ActionOrder[Impact!Place(id)] = id
  /\ \A risk \in Range(Impact!Risks) :
       Impact!Rank(risk) \in Nat /\ Impact!Risks[Impact!Rank(risk)] = risk
  <1>1. ASSUME NEW id \in Range(ActionOrder)
        PROVE  Impact!Place(id) \in Nat /\ ActionOrder[Impact!Place(id)] = id
    <2>1. \E i \in DOMAIN ActionOrder : ActionOrder[i] = id
      BY DEF Range
    <2>2. Impact!Place(id) \in DOMAIN ActionOrder /\ ActionOrder[Impact!Place(id)] = id
      BY <2>1 DEF Impact!Place
    <2>3. DOMAIN ActionOrder \subseteq Nat
      BY ActionsAreNamed
    <2> QED BY <2>2, <2>3
  <1>2. ASSUME NEW risk \in Range(Impact!Risks)
        PROVE  Impact!Rank(risk) \in Nat /\ Impact!Risks[Impact!Rank(risk)] = risk
    <2>1. \E i \in DOMAIN Impact!Risks : Impact!Risks[i] = risk
      BY DEF Range
    <2>2. Impact!Rank(risk) \in DOMAIN Impact!Risks /\ Impact!Risks[Impact!Rank(risk)] = risk
      BY <2>1 DEF Impact!Rank
    <2>3. DOMAIN Impact!Risks \subseteq Nat
      BY DEF Impact!Risks
    <2> QED BY <2>2, <2>3
  <1> QED BY <1>1, <1>2

(* Names order actions.                                                    *)
LEMMA NamesOrder ==
  ASSUME NEW ids, ids \subseteq Range(ActionOrder)
  PROVE  /\ \A x, y \in ids : <<x, y>> \in Impact!ByName(ids) <=>
                                 Impact!Place(x) < Impact!Place(y)
         /\ Orders(ids, Impact!ByName(ids))
  <1>1. ASSUME NEW x \in ids, NEW y \in ids
        PROVE  <<x, y>> \in Impact!ByName(ids) <=> Impact!Place(x) < Impact!Place(y)
    BY DEF Impact!ByName
  <1>2. \A x \in ids : Impact!Place(x) \in Nat /\ ActionOrder[Impact!Place(x)] = x
    BY PlacesAndRanks
  <1>3. \A x \in ids : <<x, x>> \notin Impact!ByName(ids)
    BY <1>1, <1>2
  <1>4. ASSUME NEW x \in ids, NEW y \in ids, NEW z \in ids,
               Impact!Place(x) < Impact!Place(y), Impact!Place(y) < Impact!Place(z)
        PROVE  Impact!Place(x) < Impact!Place(z)
    BY <1>2, <1>4
  <1>5. ASSUME NEW x \in ids, NEW y \in ids, x # y
        PROVE  Impact!Place(x) < Impact!Place(y) \/ Impact!Place(y) < Impact!Place(x)
    <2>1. Impact!Place(x) # Impact!Place(y)
      BY <1>2, <1>5
    <2> QED BY <1>2, <2>1
  <1> QED BY <1>1, <1>3, <1>4, <1>5 DEF Orders

(* So do risks, the riskiest first, and names where the risk is the same.   *)
LEMMA RisksOrder ==
  ASSUME NEW m, NEW ids, ids \subseteq Range(ActionOrder),
         \A x \in ids : m[x].risk \in Range(Impact!Risks)
  PROVE  /\ \A x, y \in ids : Impact!Rank(m[x].risk) > Impact!Rank(m[y].risk) =>
                                <<x, y>> \in Impact!RiskiestFirst(m, ids)
         /\ Orders(ids, Impact!RiskiestFirst(m, ids))
  <1> DEFINE rank(x) == Impact!Rank(m[x].risk)
             place(x) == Impact!Place(x)
             first == Impact!RiskiestFirst(m, ids)
             Sooner(x, y) == rank(x) > rank(y) \/ (rank(x) = rank(y) /\ place(x) < place(y))
  <1>1. \A x \in ids : /\ rank(x) \in Nat /\ Impact!Risks[rank(x)] = m[x].risk
                       /\ place(x) \in Nat /\ ActionOrder[place(x)] = x
    BY PlacesAndRanks
  <1>2. ASSUME NEW x \in ids, NEW y \in ids
        PROVE  <<x, y>> \in first <=> Sooner(x, y)
    <2>1. <<x, y>> \in first <=>
            \/ rank(x) > rank(y)
            \/ m[x].risk = m[y].risk /\ <<x, y>> \in Impact!ByName(ids)
      BY DEF Impact!RiskiestFirst
    <2>2. <<x, y>> \in Impact!ByName(ids) <=> place(x) < place(y)
      BY NamesOrder
    <2>3. m[x].risk = m[y].risk <=> rank(x) = rank(y)
      BY <1>1
    <2> HIDE DEF rank, place, first
    <2> QED BY <2>1, <2>2, <2>3
  <1> HIDE DEF rank, place, first
  <1>3. \A x \in ids : ~ Sooner(x, x)
    BY <1>1
  <1>4. ASSUME NEW x \in ids, NEW y \in ids, NEW z \in ids, Sooner(x, y), Sooner(y, z)
        PROVE  Sooner(x, z)
    BY <1>1, <1>4
  <1>5. ASSUME NEW x \in ids, NEW y \in ids, x # y
        PROVE  Sooner(x, y) \/ Sooner(y, x)
    <2>1. place(x) # place(y)
      BY <1>1, <1>5
    <2> QED BY <1>1, <2>1
  <1>6. \A x, y \in ids : rank(x) > rank(y) => Sooner(x, y)
    OBVIOUS
  <1> HIDE DEF Sooner
  <1>7. Orders(ids, first)
    BY <1>2, <1>3, <1>4, <1>5 DEF Orders
  <1> QED BY <1>2, <1>6, <1>7 DEF first, rank

(* The unrequested actions of a result: some of them, and when not all then *)
(* a number of the first by risk.                                          *)
LEMMA UnrequestedFirst ==
  ASSUME NEW source, IsFiniteSet(DOMAIN source.manifest),
         DOMAIN source.manifest \subseteq Range(ActionOrder),
         \A id \in DOMAIN source.manifest :
           source.manifest[id].risk \in Range(Impact!Risks)
  PROVE  LET m == source.manifest
             others == DOMAIN m \ source.requested
             u == Impact!Unrequested(source) IN
         /\ u \in Seq(others) /\ Len(u) <= Cardinality(others) /\ Cardinality(others) \in Nat
         /\ \A x \in others \ Range(u) : \A y \in Range(u) :
              Impact!Rank(m[x].risk) <= Impact!Rank(m[y].risk)
         /\ Cardinality(others) > Len(u) <=> others \ Range(u) # {}
  <1> DEFINE m == source.manifest
             others == DOMAIN m \ source.requested
             first == Impact!RiskiestFirst(m, others)
             s == Impact!InOrder(others, first)
             n == Cardinality(others)
             last == Impact!Min({ShownLimit, Len(s)})
             u == Impact!Unrequested(source)
  <1>1. /\ IsFiniteSet(others) /\ others \subseteq Range(ActionOrder)
        /\ \A x \in others : m[x].risk \in Range(Impact!Risks)
    BY FS_Subset
  <1>2. u = SubSeq(s, 1, last)
    BY DEF Impact!Unrequested
  <1> HIDE DEF u, others, m
  <1>3. /\ \A x, y \in others : Impact!Rank(m[x].risk) > Impact!Rank(m[y].risk) =>
                                  <<x, y>> \in first
        /\ Orders(others, first)
    BY <1>1, RisksOrder
  <1> HIDE DEF first
  <1>4. /\ n \in Nat /\ s \in [1..n -> others] /\ s \in Seq(others) /\ Len(s) = n
        /\ \A x \in others : \E k \in 1..n : s[k] = x
        /\ \A j, k \in 1..n : j < k => <<s[j], s[k]>> \in first
    BY <1>1, <1>3, OrderedLists
  <1>5. \A x, y \in others : ~ (<<x, y>> \in first /\ <<y, x>> \in first)
    BY <1>3 DEF Orders
  <1> HIDE DEF s, n
  <1>6. last \in Nat /\ last <= n /\ (last = n \/ last = ShownLimit)
    <2>1. ShownLimit \in Nat /\ Len(s) \in Nat
      BY <1>4, ActionsAreNamed
    <2>2. \E x \in {ShownLimit, Len(s)} : \A y \in {ShownLimit, Len(s)} : x <= y
      BY <2>1
    <2>3. last \in {ShownLimit, Len(s)} /\ \A y \in {ShownLimit, Len(s)} : last <= y
      BY <2>2 DEF Impact!Min
    <2> HIDE DEF last
    <2> QED BY <1>4, <2>1, <2>3
  <1> HIDE DEF last
  <1>7. u \in Seq(others) /\ Len(u) = last /\ \A k \in 1..last : u[k] = s[k]
    BY <1>2, <1>4, <1>6
  <1>8. Range(u) = {s[k] : k \in 1..last}
    BY <1>7 DEF Range
  <1>9. ASSUME NEW x \in others, x \notin Range(u)
        PROVE  \E k \in 1..n : s[k] = x /\ k > last
    <2>1. PICK k \in 1..n : s[k] = x
      BY <1>4
    <2>2. k \notin 1..last
      BY <1>8, <1>9, <2>1
    <2>3. k > last
      BY <1>4, <1>6, <2>2
    <2> QED BY <2>1, <2>3
  <1>10. ASSUME NEW x \in others, x \notin Range(u), NEW y \in Range(u)
         PROVE  Impact!Rank(m[x].risk) <= Impact!Rank(m[y].risk)
    <2>1. PICK k \in 1..n : s[k] = x /\ k > last
      BY <1>9, <1>10
    <2>2. PICK j \in 1..last : s[j] = y
      BY <1>8
    <2>3. j \in 1..n /\ j < k
      BY <1>4, <1>6, <2>1
    <2>4. y \in others /\ <<y, x>> \in first
      BY <1>4, <2>1, <2>2, <2>3
    <2>5. ~ (Impact!Rank(m[x].risk) > Impact!Rank(m[y].risk))
      BY <1>3, <1>5, <2>4
    <2>6. Impact!Rank(m[x].risk) \in Nat /\ Impact!Rank(m[y].risk) \in Nat
      BY <1>1, <2>4, PlacesAndRanks
    <2> QED BY <2>5, <2>6
  <1>11. ASSUME n > Len(u)
         PROVE  others \ Range(u) # {}
    <2>1. n \in 1..n /\ n > last
      BY <1>4, <1>6, <1>7, <1>11
    <2>2. s[n] \in others
      BY <1>4, <2>1
    <2>3. ASSUME NEW k \in 1..last
          PROVE  s[k] # s[n]
      <3>1. k \in 1..n /\ k < n
        BY <1>4, <1>6, <2>1
      <3>2. <<s[k], s[n]>> \in first
        BY <1>4, <2>1, <3>1
      <3> QED BY <1>3, <2>2, <3>2 DEF Orders
    <2> QED BY <1>8, <2>2, <2>3
  <1>12. ASSUME others \ Range(u) # {}
         PROVE  n > Len(u)
    <2>1. PICK x \in others : x \notin Range(u)
      BY <1>12
    <2>2. PICK k \in 1..n : k > last
      BY <1>9, <2>1
    <2> QED BY <1>4, <1>6, <1>7, <2>2
  <1>13. Len(u) <= n
    BY <1>6, <1>7
  <1>14. /\ u \in Seq(others) /\ Len(u) <= n /\ n \in Nat
         /\ \A x \in others \ Range(u) : \A y \in Range(u) :
              Impact!Rank(m[x].risk) <= Impact!Rank(m[y].risk)
         /\ n > Len(u) <=> others \ Range(u) # {}
    BY <1>4, <1>7, <1>10, <1>11, <1>12, <1>13
  <1> QED BY <1>14 DEF m, others, n, u

(* The examples of a result are the requested actions and these.           *)
LEMMA ExamplesShow ==
  ASSUME NEW source, IsFiniteSet(source.requested),
         source.requested \subseteq Range(ActionOrder),
         NEW others, Impact!Unrequested(source) \in Seq(others)
  PROVE  LET e == Impact!Examples(source) IN
         {e[j].action.action : j \in DOMAIN e}
           = source.requested \cup Range(Impact!Unrequested(source))
  <1> DEFINE q == source.requested
             named == Impact!Named(q)
             u == Impact!Unrequested(source)
             ids == named \o u
             e == Impact!Examples(source)
             n == Cardinality(q)
  <1>1. /\ n \in Nat /\ named \in Seq(q) /\ Len(named) = n
        /\ \A x \in q : \E k \in 1..n : named[k] = x
    BY NamesOrder, OrderedLists DEF Impact!Named
  <1>2. DOMAIN e = DOMAIN ids
    BY DEF Impact!Examples
  <1>3. ASSUME NEW j \in DOMAIN ids
        PROVE  e[j].action.action = ids[j]
    <2> DEFINE action == Impact!DerivedAction(source.manifest, ids[j], q)
               outcome == IF ids[j] \in q THEN Impact!Outcome(source.checks).outcome
                                          ELSE "not_covered"
               reasons == IF ids[j] \in q THEN Impact!Outcome(source.checks).reasons
                                          ELSE {"action_not_requested"}
               relation == IF ids[j] \in q THEN "requested" ELSE "unrequested"
    <2>1. e[j] = [relation |-> relation, action |-> action,
                  outcome |-> outcome, reasons |-> reasons]
      BY DEF Impact!Examples
    <2>2. action.action = ids[j]
      BY DEF Impact!DerivedAction
    <2> HIDE DEF action, outcome, reasons, relation, e, ids
    <2>3. e[j].action = action
      BY <2>1
    <2> QED BY <2>2, <2>3
  <1> HIDE DEF e, u, n, named, q
  <1>4. {e[j].action.action : j \in DOMAIN e} = {ids[j] : j \in DOMAIN ids}
    <2> HIDE DEF ids
    <2> QED BY <1>2, <1>3
  <1>5. /\ u \in Seq(others) /\ Len(u) \in Nat /\ DOMAIN u = 1..Len(u)
        /\ DOMAIN ids = 1..(n + Len(u))
        /\ \A j \in 1..n : ids[j] = named[j] /\ named[j] \in q
        /\ \A j \in 1..Len(u) : ids[n + j] = u[j]
    <2>1. u \in Seq(others) /\ Len(u) \in Nat /\ DOMAIN u = 1..Len(u)
      BY DEF u
    <2>2. DOMAIN named = 1..n /\ \A j \in 1..n : named[j] \in q
      BY <1>1
    <2> DEFINE T == q \cup others
    <2>3. named \in Seq(T) /\ u \in Seq(T)
      BY <1>1, <2>1
    <2> HIDE DEF T
    <2>4. DOMAIN ids = 1..(n + Len(u)) /\ \A j \in 1..n : ids[j] = named[j]
      BY <1>1, <2>3
    <2>5. ASSUME NEW j \in 1..Len(u)
          PROVE  ids[n + j] = u[j]
      <3>1. n + j \in 1..(n + Len(u)) /\ ~ (n + j <= n) /\ (n + j) - n = j
        BY <1>1, <2>1
      <3> QED BY <1>1, <2>3, <3>1
    <2> QED BY <2>1, <2>2, <2>4, <2>5
  <1>6. \A j \in 1..(n + Len(u)) :
          j \in 1..n \/ (j - n \in 1..Len(u) /\ j = n + (j - n))
    BY <1>1, <1>5
  <1>7. \A j \in 1..n : j \in 1..(n + Len(u))
    BY <1>1, <1>5
  <1>8. \A j \in 1..Len(u) : n + j \in 1..(n + Len(u))
    BY <1>1, <1>5
  <1> HIDE DEF ids
  <1>9. \A j \in DOMAIN ids : ids[j] \in q \cup Range(u)
    <2> SUFFICES ASSUME NEW j \in DOMAIN ids PROVE ids[j] \in q \cup Range(u)
      OBVIOUS
    <2>1. CASE j \in 1..n
      BY <1>5, <2>1
    <2>2. CASE j - n \in 1..Len(u) /\ j = n + (j - n)
      <3>1. ids[j] = u[j - n]
        BY <1>5, <2>2
      <3> QED BY <1>5, <2>2, <3>1 DEF Range
    <2> QED BY <1>5, <1>6, <2>1, <2>2
  <1>10. \A x \in q : \E j \in DOMAIN ids : ids[j] = x
    BY <1>1, <1>5, <1>7
  <1>11. \A x \in Range(u) : \E j \in DOMAIN ids : ids[j] = x
    BY <1>5, <1>8 DEF Range
  <1>12. {ids[j] : j \in DOMAIN ids} = q \cup Range(u)
    BY <1>9, <1>10, <1>11
  <1> QED BY <1>4, <1>12 DEF e, q, u

(* No action that a result leaves out is riskier than an unrequested one it *)
(* shows, and it says when it leaves any out: the list it is compared with  *)
(* is ordered by risk and then cut.                                        *)
THEOREM WorstShown == Spec /\ Environment => []WorstIsShown
  <1>1. Judged /\ AcceptedShaped => WorstIsShown
    <2> SUFFICES ASSUME Judged, AcceptedShaped, NEW i \in Of("impact")
                 PROVE  LET m == Records(i).source.manifest
                            shown == {Document(i).examples[j].action.action :
                                        j \in DOMAIN Document(i).examples}
                            others == DOMAIN m \ Records(i).source.requested IN
                        /\ \A x \in others \ shown : \A y \in others \cap shown :
                             Impact!Rank(m[x].risk) <= Impact!Rank(m[y].risk)
                        /\ Document(i).coverage.truncated <=> others \ shown # {}
      BY DEF WorstIsShown
    <2> DEFINE r == Records(i)
               d == Document(i)
               source == Records(i).source
               m == Records(i).source.manifest
               q == Records(i).source.requested
               others == DOMAIN m \ q
               u == Impact!Unrequested(source)
               shown == {d.examples[j].action.action : j \in DOMAIN d.examples}
    <2>1. kind = "impact" /\ i \in DOMAIN accepted
      BY DEF Of
    <2>2. Impact!ImpactProjectionValid(d, source, r.current, r.now, r.surface, r.grant)
      BY <2>1 DEF Judged, Accepts
    <2>3. /\ IsFiniteSet(DOMAIN m) /\ DOMAIN m \subseteq Range(ActionOrder)
          /\ \A id \in DOMAIN m : m[id].risk \in Range(Impact!Risks)
      <3>1. Shaped("impact", r, d)
        BY <2>1 DEF AcceptedShaped
      <3> QED BY <3>1 DEF Shaped
    <2>4. /\ Impact!RequestClosed(source)
          /\ d.coverage = Impact!Coverage(source)
          /\ d.examples = Impact!Examples(source)
      <3> HIDE DEF d, source, r
      <3> QED BY <2>2 DEF Impact!ImpactProjectionValid, Impact!ImpactValid
    <2>5. q \subseteq DOMAIN m
      BY <2>4 DEF Impact!RequestClosed
    <2>6. IsFiniteSet(q) /\ q \subseteq Range(ActionOrder)
      BY <2>3, <2>5, FS_Subset
    <2>7. d.coverage.truncated <=> Cardinality(others) > Len(u)
      <3>1. d.coverage.truncated <=> Impact!Cardinality(others) > Len(u)
        <4> DEFINE some == Impact!Cardinality(q)
                   all == Impact!Cardinality(others)
                   cut == all > Len(u)
        <4>1. d.coverage = [requested |-> some, unrequested |-> all,
                            included |-> Len(u), truncated |-> cut]
          BY <2>4 DEF Impact!Coverage
        <4>2. cut \in BOOLEAN
          OBVIOUS
        <4> HIDE DEF some, all, cut, d, u
        <4>3. d.coverage.truncated = cut
          BY <4>1
        <4> QED BY <4>2, <4>3 DEF cut, all
      <3> HIDE DEF others, u, d
      <3> QED BY <3>1, SameCountOfActions
    <2>8. /\ u \in Seq(others)
          /\ \A x \in others \ Range(u) : \A y \in Range(u) :
               Impact!Rank(m[x].risk) <= Impact!Rank(m[y].risk)
          /\ Cardinality(others) > Len(u) <=> others \ Range(u) # {}
      BY <2>3, UnrequestedFirst
    <2>9. shown = q \cup Range(u)
      BY <2>4, <2>6, <2>8, ExamplesShow
    <2>10. others \cap q = {}
      OBVIOUS
    <2> HIDE DEF others, u, m, q, shown, d
    <2>11. others \ shown = others \ Range(u) /\ others \cap shown \subseteq Range(u)
      BY <2>9, <2>10
    <2>12. /\ \A x \in others \ shown : \A y \in others \cap shown :
                Impact!Rank(m[x].risk) <= Impact!Rank(m[y].risk)
           /\ d.coverage.truncated <=> others \ shown # {}
      BY <2>7, <2>8, <2>11
    <2> QED BY <2>12 DEF others, m, q, shown, d
  <1> QED BY JudgedAlways, AcceptedShapedAlways, <1>1, PTL
===============================================================================
