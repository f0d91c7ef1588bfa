-------------------------- MODULE SurfaceDocuments --------------------------
(****************************************************************************)
(* Documents of a surface that are judged by themselves: operational        *)
(* limits and the capacity errors that name them, risk explanations in      *)
(* several languages, and purpose bindings along a chain of Grants.         *)
(*                                                                          *)
(* A language tag is a sequence of subtags; a subtag's place is that of its *)
(* text among the subtags of its world.  None is an absent member.          *)
(****************************************************************************)
EXTENDS Naturals, FiniteSets, SequencesExt

CONSTANTS None, CoreControlEvents

(*************************** operational limits ****************************)

(* The limits of one action or event, in the order they are declared.      *)
LimitIds(item) ==
  item.windows \o (IF item.in_flight = None THEN <<>> ELSE <<item.in_flight>>)

AllLimitIds(limits) ==
  FlattenSeq([i \in DOMAIN limits.actions |-> LimitIds(limits.actions[i])])
    \o FlattenSeq([i \in DOMAIN limits.events |-> limits.events[i].windows])

(* Only actions that require idempotency and events that control nothing    *)
(* are limited, each once, and no limit has two names' worth of meaning.    *)
LimitsValid(limits, surface) ==
  /\ surface.idempotent \subseteq surface.actions
  /\ surface.control \subseteq surface.events
  /\ IsInjective([i \in DOMAIN limits.actions |-> limits.actions[i].id])
  /\ IsInjective([i \in DOMAIN limits.events |-> limits.events[i].id])
  /\ \A i \in DOMAIN limits.actions :
       limits.actions[i].id \in surface.actions \cap surface.idempotent
  /\ \A i \in DOMAIN limits.events :
       limits.events[i].id \in surface.events \ (CoreControlEvents \cup surface.control)
  /\ IsInjective(AllLimitIds(limits))

(* An error names only limits its receiver may know of.                    *)
CapacityErrorValid(error, context) ==
  /\ context.disclosable \subseteq context.declared
  /\ error.limits \subseteq context.disclosable

(*************************** risk explanations *****************************)

Languages(hint) == [i \in DOMAIN hint.localizations |-> hint.localizations[i].language]

(* A language, then a script, a region and variants, all optional and no    *)
(* variant twice.  What a subtag can be is its form.                       *)
TagValid(tag) ==
  LET script == {i \in {2} : Len(tag) >= 2 /\ tag[2].form = "script"}
      at == 2 + Cardinality(script)
      region == {i \in {at} : Len(tag) >= at /\ tag[at].form = "region"}
      variants == (at + Cardinality(region))..Len(tag) IN
  /\ tag # <<>> /\ tag[1].form = "language"
  /\ \A i \in variants : tag[i].form = "variant"
  /\ \A i, j \in variants : tag[i] = tag[j] => i = j

(* The order of the texts of two tags: a hyphen sorts before every letter    *)
(* and digit, so the first subtag they differ in decides, and the shorter    *)
(* tag comes first when there is none.                                       *)
TagBefore(a, b) ==
  \/ IsStrictPrefix(a, b)
  \/ \E n \in DOMAIN a \cap DOMAIN b :
       /\ \A m \in 1..(n - 1) : a[m] = b[m]
       /\ a[n].place < b[n].place

(* A hint has its default language, its localizations are sorted by their    *)
(* language, and each of them explains the action's effects, all of them in *)
(* their order.                                                             *)
HintValid(hint, effects) ==
  /\ IsInjective(effects)
  /\ TagValid(hint.default)
  /\ \A i \in DOMAIN hint.localizations : TagValid(hint.localizations[i].language)
  /\ \A i, j \in DOMAIN hint.localizations :
       i < j => ~TagBefore(Languages(hint)[j], Languages(hint)[i])
  /\ IsInjective(Languages(hint))
  /\ hint.default \in Range(Languages(hint))
  /\ \A i \in DOMAIN hint.localizations : hint.localizations[i].effects = effects

(* One step back in a lookup: the last subtag goes, and with it a singleton *)
(* that would then be last.                                                 *)
Shortened(tag) ==
  LET shorter == Front(tag) IN
  IF shorter # <<>> /\ Last(shorter).form = "singleton" THEN Front(shorter) ELSE shorter

LookupOne(languages, preference) ==
  LET Tried[n \in 0..Len(preference)] ==
        IF n = 0 THEN preference
        ELSE IF Tried[n - 1] \in languages \cup {<<>>} THEN Tried[n - 1]
        ELSE Shortened(Tried[n - 1])
  IN Tried[Len(preference)]

(* Mutant: the last preference a lookup finds anything for wins.           *)
SelectedLanguageLast(hint, preferences) ==
  LET languages == Range(Languages(hint))
      Found(i) == LookupOne(languages, preferences[i])
      finding == {i \in DOMAIN preferences : Found(i) \in languages} IN
  IF finding = {} THEN hint.default ELSE Found(Max(finding))

(* The language of the first preference a lookup finds anything for.       *)
SelectedLanguage(hint, preferences) ==
  LET languages == Range(Languages(hint))
      Found(i) == LookupOne(languages, preferences[i])
      finding == {i \in DOMAIN preferences : Found(i) \in languages} IN
  IF finding = {} THEN hint.default ELSE Found(Min(finding))

HintBound(p) ==
  /\ HintValid(p.hint, p.effects)
  /\ p.hint_action = p.action

PublisherHintValid(p, surface) == HintBound(p) /\ p.hint_surface = surface.candidate

(* What a Runtime renders is the localization the user's preferences select *)
(* from the hint of the surface it retained, literally and for nothing but  *)
(* advice.                                                                  *)
RuntimeHintValid(p, surface) ==
  /\ surface.status = "current" /\ surface.references = "complete"
  /\ surface.mode = "proposal_only" => surface.semantics = "closed_read_propose"
  /\ HintBound(p)
  /\ p.hint_surface = surface.retained
  /\ \A i \in DOMAIN p.preferences : TagValid(p.preferences[i])
  /\ LET language == SelectedLanguage(p.hint, p.preferences) IN
     /\ p.language = language
     /\ \E i \in DOMAIN p.hint.localizations :
          /\ p.hint.localizations[i].language = language
          /\ p.rendered = p.hint.localizations[i]
  /\ p.literal /\ p.use = "advisory_only" /\ p.agent = "absent"

(**************************** purpose bindings *****************************)

(* Mutant: another task of the same purpose counts as narrower.            *)
AttenuationAnyTask(parent, binding) ==
  IF parent = binding THEN "equal"
  ELSE IF parent.purpose = binding.purpose /\ binding.task # None THEN "narrower" ELSE "wider"

(* How a Grant's binding relates to its parent's: the same, or a task of    *)
(* the purpose the parent had without a task.                               *)
Attenuation(parent, binding) ==
  IF parent = binding THEN "equal"
  ELSE IF parent.purpose = binding.purpose /\ parent.task = None /\ binding.task # None
       THEN "narrower" ELSE "wider"

Active(record, ref) ==
  /\ ref = record.ref /\ record.state = "active" /\ record.policy = "allow"

PurposeValid(p) ==
  /\ \A member \in {"consent", "grant", "returned", "session"} : p[member] = p.request
  /\ p.enforced /\ p.use = "informational_only"
  /\ p.scope = p.records.scope
  /\ Active(p.records.purpose, p.grant.purpose)
  /\ IF p.grant.task = None THEN p.records.task = None
     ELSE /\ p.records.task # None
          /\ Active(p.records.task, p.grant.task)
          /\ p.records.task.parent = p.grant.purpose
  /\ p.attenuation = Attenuation(p.parent, p.grant)
  /\ p.attenuation # "wider"
=============================================================================
