--------------------------- MODULE MCConformance ----------------------------
(* A catalog with a positive and a negative vector per role, one feature of *)
(* its own for the runtime, and copies of it with one thing wrong.         *)
EXTENDS ConformanceRunner

Kept == [op |-> "replace", path |-> "fact", value |-> "changed"]
Nothing == [ahp |-> "absent", mcp |-> "absent", elicitation |-> "absent",
            agent |-> "absent", risk |-> "absent", impact |-> "absent",
            purpose |-> "absent"]

(* The rows: one per profile, a second one for the other receipt producer,  *)
(* and the rows of the features.                                           *)
Row1(id, p, kind, value, vs) ==
  [id |-> id, profile |-> p, anchor |-> "section", class |-> "stateful",
   applies |-> [kind |-> kind, value |-> value], vectors |-> vs]

PV(id, p, role, reqs, features) ==
  [id |-> id, profile |-> p, role |-> role, polarity |-> "positive", baseline |-> None,
   variant |-> "plain", operation |-> "act", setup |-> {}, features |-> features,
   requirements |-> reqs, class |-> "stateful", error |-> None, required |-> {"done"},
   forbidden |-> {"leaked"}, deltas |-> <<[state |-> "effects", before |-> 0, after |-> 1]>>,
   counterparts |-> <<>>]
NV(id, base, p, role, reqs, features) ==
  [PV(id, p, role, reqs, features) EXCEPT
     !.polarity = "negative", !.baseline = base, !.variant = "changed",
     !.error = "denied", !.required = {"denied"}]

Base ==
  LET ps == <<"surface-publisher", "grant-issuer", "action-executor",
              "runtime-mediator", "agent-adapter">>
      plain == [i \in 1..5 |-> Row1(<<"R", i>>, ps[i], "always", None,
                                    <<<<"P", i>>, <<"N", i>>>>)]
      role(i) == IF i = 6 THEN "application" ELSE "runtime"
      receipts == [k \in 1..2 |->
                     Row1(<<"R", k + 5>>, ReceiptProfile, "producer_role", role(k + 5),
                          <<<<"P", k + 5>>, <<"N", k + 5>>>>)]
      simulation == Row1(<<"R", 8>>, "runtime-mediator", "feature", "impact", <<<<"P", 8>>>>)
      vs == [i \in 1..5 |-> PV(<<"P", i>>, ps[i], None, <<<<"R", i>>>>, {})]
            \o [k \in 1..2 |-> PV(<<"P", k + 5>>, ReceiptProfile, role(k + 5), <<<<"R", k + 5>>>>, {})]
            \o [i \in 1..5 |-> NV(<<"N", i>>, <<"P", i>>, ps[i], None, <<<<"R", i>>>>, {})]
            \o [k \in 1..2 |-> NV(<<"N", k + 5>>, <<"P", k + 5>>, ReceiptProfile, role(k + 5),
                                  <<<<"R", k + 5>>>>, {})]
            \o <<[PV(<<"P", 8>>, "runtime-mediator", None, <<<<"R", 8>>>>, {"impact"}) EXCEPT
                    !.operation = "simulate_impact", !.setup = {<<"impact", "selected">>}]>>
      rows == plain \o receipts \o <<simulation>>
      fixture(i) == [id |-> <<"F", i>>, baseline |-> <<"P", i>>, operational |-> None,
                     transport |-> None,
                     projections |-> [Nothing EXCEPT !.impact = IF i = 8 THEN "valid" ELSE "absent"],
                     document |-> [fact |-> "given"]] IN
  [versions |-> [suite |-> 1, vectors |-> 1, fixtures |-> 1, cases |-> 1, bundles |-> 1],
   protocol |-> "agent-surface/0.1", anchors |-> {"section"},
   requirements |-> rows, vectors |-> vs,
   profiles |-> [p \in Range(Profiles) |->
                   Column(SelectSeq(rows, LAMBDA r : r.profile = p), "id")],
   features |-> [f \in {"impact", "idle"} |-> IF f = "impact" THEN <<<<"R", 8>>>> ELSE <<>>],
   fixtures |-> [i \in 1..8 |-> fixture(i)],
   mutations |-> <<[id |-> "M1", variant |-> "plain", patch |-> <<>>],
                   [id |-> "M2", variant |-> "changed", patch |-> <<Kept>>]>>,
   bundles |->
     <<[id |-> "B1", kind |-> "foundation",
        claims |-> <<[profile |-> "surface-publisher", role |-> None, features |-> {},
                      requirements |-> <<<<"R", 1>>>>, vectors |-> <<<<"P", 1>>, <<"N", 1>>>>]>>],
       [id |-> "B2", kind |-> "feature_overlay",
        claims |-> <<[profile |-> ReceiptProfile, role |-> "application", features |-> {},
                      requirements |-> <<<<"R", 6>>>>, vectors |-> <<<<"P", 6>>, <<"N", 6>>>>],
                     [profile |-> "runtime-mediator", role |-> None, features |-> {"impact"},
                      requirements |-> <<<<"R", 4>>, <<"R", 8>>>>,
                      vectors |-> <<<<"P", 4>>, <<"N", 4>>, <<"P", 8>>>>]>>]>>]

(* Interoperation: the grant issuer's positive vector needs a runtime.     *)
Interop == [Base EXCEPT !.vectors[2].counterparts = <<"runtime-mediator">>]

(* N4 exercises the feature's row too, and names both rows.                *)
Mixed ==
  [Base EXCEPT !.requirements[8].vectors = <<<<"P", 8>>, <<"N", 4>>>>,
               !.vectors[11].requirements = <<<<"R", 4>>, <<"R", 8>>>>,
               !.vectors[11].features = {"impact"},
               !.vectors[11].operation = "simulate_impact",
               !.vectors[11].setup = {<<"impact", "selected">>},
               !.fixtures[4].projections.impact = "valid",
               !.vectors[4].features = {"impact"},
               !.vectors[4].operation = "simulate_impact",
               !.vectors[4].setup = {<<"impact", "selected">>},
               !.bundles[2].claims[2].vectors = <<<<"P", 4>>, <<"N", 4>>, <<"P", 8>>>>]

Short == [Base EXCEPT !.bundles[2].claims[2].vectors = <<<<"P", 4>>, <<"P", 8>>>>]
Hidden == [Base EXCEPT !.profiles["runtime-mediator"] = <<<<"R", 8>>>>]

(* Rows for any producer that name the vectors of one: a claim then plans   *)
(* vectors of the other producer.                                          *)
Always == [kind |-> "always", value |-> None]
Crossed ==
  [Base EXCEPT !.requirements[6].applies = Always, !.requirements[7].applies = Always,
               !.bundles[2].claims[1].requirements = <<<<"R", 6>>, <<"R", 7>>>>,
               !.bundles[2].claims[1].vectors =
                  <<<<"P", 6>>, <<"N", 6>>, <<"P", 7>>, <<"N", 7>>>>]

(* The same, and a mutation whose second replacement changes nothing, as it *)
(* finds what the first one put there.                                     *)
Unpatchable ==
  [Crossed EXCEPT !.mutations[2].patch = <<Kept, Kept>>]

(* One more negative vector for the runtime, which needs a counterpart: the *)
(* report of a run, without its result, is one of the first catalog.       *)
Grown ==
  [Base EXCEPT !.requirements[4].vectors = <<<<"P", 4>>, <<"N", 4>>, <<"N", 9>>>>,
               !.vectors = Append(@, [NV(<<"N", 9>>, <<"P", 4>>, "runtime-mediator", None,
                                         <<<<"R", 4>>>>, {}) EXCEPT
                                        !.counterparts = <<"grant-issuer">>]),
               !.bundles[2].claims[2].vectors =
                  <<<<"P", 4>>, <<"N", 4>>, <<"N", 9>>, <<"P", 8>>>>]

MCCatalogs ==
  [base |-> Base, interop |-> Interop, mixed |-> Mixed, short |-> Short, hidden |-> Hidden,
   unpatchable |-> Unpatchable, grown |-> Grown]

Runtime(chosen) ==
  [kind |-> "implementation", profile |-> "runtime-mediator", role |-> None,
   protocol |-> "agent-surface/0.1", features |-> chosen, counterparts |-> {},
   boundary |-> "here", artifact |-> "a1"]
Peer(b, a) == [kind |-> "implementation", profile |-> "runtime-mediator", boundary |-> b,
               artifact |-> a]
Issuer(peers) == [Runtime({}) EXCEPT !.profile = "grant-issuer", !.counterparts = peers]

MCSubjects ==
  {Runtime({}), Runtime({"idle"}), [Runtime({}) EXCEPT !.kind = "suite_fixture"],
   [Runtime({}) EXCEPT !.profile = ReceiptProfile, !.role = "application"],
   [Runtime({}) EXCEPT !.role = "runtime"],
   Issuer({Peer("there", "a2")}), Issuer({Peer("here", "a2")}),
   Issuer({Peer("there", "a2"), Peer("elsewhere", "a3")})}

(* Edits between some of the trees; a second one for some of the subjects.  *)
EditedTrees == {"base", "grown", "short"}
EditsAreOfFew ==
  /\ edits > 0 => {disk, snapshot, catalog} \subseteq EditedTrees \cup {None}
  /\ edits > 1 => subject \in {Runtime({}), Runtime({"idle"})}

(* A tree that is changed and changed back under one run.                  *)
SwappedCatalogs == [base |-> Base, grown |-> Grown]
SwappedSubjects == {Runtime({})}
=============================================================================
