--------------------------- MODULE ReplaySession --------------------------
(***************************************************************************)
(* The session reducer of asp-replay (validation/session.rs): how one      *)
(* session_transition record is judged against the state replayed so far,  *)
(* and how a capture gap lets the next record resume from another state.   *)
(*                                                                         *)
(* A record says which generation, prior and next state it describes; its  *)
(* form stands for the shape of its JSON body: "exact", "empty_reason"     *)
(* (the reason member is an empty string), "extra" (an unknown member) or  *)
(* "broken" (a member is missing or has the wrong type).                   *)
(***************************************************************************)
EXTENDS ReplayReport

CONSTANTS Generations      \* the generations a bundle's scope may name
ASSUME GenerationsAssumption == Generations \subseteq Nat \ {0}

VARIABLES session_generation,     \* from the bundle's scope, never changed
          session_state, session_transitions, session_gap_pending

sessionVars == <<session_generation, session_state, session_transitions,
                 session_gap_pending>>

Terminal == {"cancelled", "completed", "failed"}
SessionStates == {"absent", "active", "interrupted"} \cup Terminal
SessionForms == {"exact", "empty_reason", "extra", "broken"}

Transitions ==
  [kind : {"session_transition"}, form : SessionForms,
   generation : Generations, prior : SessionStates, next : SessionStates]

SessionInit ==
  /\ session_generation \in Generations
  /\ session_state = IF session_generation > 1 THEN "interrupted" ELSE "absent"
  /\ session_transitions = 0
  /\ session_gap_pending = FALSE

-----------------------------------------------------------------------------
(* SessionTransitionPolicy                                                 *)

Lifecycle == ({"active"} \X ({"interrupted"} \cup Terminal))
             \cup {<<"interrupted", "cancelled">>}

(* How a generation begins: the first from nothing, a later one by the
   resume of an interrupted session.                                       *)
Beginning(generation) ==
  {<<IF generation = 1 THEN "absent" ELSE "interrupted", "active">>}

Legal(generation, first, gap_pending) ==
  IF first
    THEN Beginning(generation) \cup (IF gap_pending THEN Lifecycle ELSE {})
    ELSE Lifecycle

(* Mutated form: a gap reopens a session that has ended.                   *)
ReplayedAcrossTheEnd(r) ==
  IF session_gap_pending THEN r.prior ELSE session_state

(* A record after a capture gap is taken at its word about the state it
   starts from, unless the session is known to have ended.                 *)
ReplayedState(r) ==
  IF session_gap_pending /\ session_state \notin Terminal
    THEN r.prior ELSE session_state

Continues(r) == ReplayedState(r) = r.prior

IsLegal(r) ==
  <<r.prior, r.next>>
    \in Legal(r.generation, session_transitions = 0, session_gap_pending)

-----------------------------------------------------------------------------
(* transition: what each outcome reports and does to the replayed state    *)

Reaches(r) == r.form # "broken" /\ r.generation = session_generation
Accepted(r) == Reaches(r) /\ Continues(r) /\ IsLegal(r)

(* An unknown member is an error of its own and does not stop the rest; the
   other errors exclude each other.                                        *)
TransitionFindings(r) ==
  (IF r.form = "extra" THEN <<Error("SESSION")>> ELSE <<>>)
    \o (IF Accepted(r) THEN <<>> ELSE <<Error("SESSION")>>)

AcceptTransition(r) ==
  /\ Accepted(r)
  /\ session_state' = r.next
  /\ session_transitions' = session_transitions + 1
  /\ session_gap_pending' = FALSE

(* Refused after the generation was compared: the state taken from the
   record after a gap stays.                                               *)
RefuseTransition(r) ==
  /\ Reaches(r) /\ ~Accepted(r)
  /\ session_state' = ReplayedState(r)
  /\ UNCHANGED <<session_transitions, session_gap_pending>>

IgnoreTransition(r) ==
  /\ ~Reaches(r)
  /\ UNCHANGED <<session_state, session_transitions, session_gap_pending>>

Transition(r) ==
  /\ \/ AcceptTransition(r)
     \/ RefuseTransition(r)
     \/ IgnoreTransition(r)
  /\ UNCHANGED session_generation

(* A validated capture gap (validate_records): what the session did in it is
   unknown.                                                                *)
SessionGap ==
  /\ session_gap_pending' = TRUE
  /\ UNCHANGED <<session_generation, session_state, session_transitions>>

SessionTypeOK ==
  /\ session_generation \in Generations
  /\ session_state \in SessionStates
  /\ session_transitions \in Nat
  /\ session_gap_pending \in BOOLEAN
=============================================================================
