---------------------------- MODULE EffectLedger ----------------------------
(****************************************************************************)
(* What the reference application promises of its effects, without the      *)
(* tables, counters and checks it keeps the promise with: an effect is      *)
(* settled once per idempotency key and once per execution identifier of a  *)
(* grant and action, under a grant that was issued for it and has not been  *)
(* fenced.  The application holds all of it in memory, so it may forget     *)
(* everything at once, and never a part.                                    *)
(****************************************************************************)
CONSTANTS
  GrantIds,
  Delegations,   \* [runtime_id, agent_id, actions] of a grant
  Entries        \* what identifies an effect: its execution record

VARIABLES
  settled,       \* the entries whose effect has been performed
  authority,     \* grant id -> the delegation it was issued for
  fenced         \* the grants revoked so far

ledger == <<settled, authority, fenced>>

Init ==
  /\ settled = {}
  /\ authority = <<>>
  /\ fenced = {}

Clash(e, f) ==
  /\ e.grant_id = f.grant_id
  /\ e.action_id = f.action_id
  /\ \/ e.idempotency_key = f.idempotency_key
     \/ e.execution_id = f.execution_id

Delegated(e) ==
  /\ e.grant_id \in DOMAIN authority
  /\ authority[e.grant_id].runtime_id = e.runtime_id
  /\ authority[e.grant_id].agent_id = e.agent_id
  /\ e.action_id \in authority[e.grant_id].actions

Settle(e) ==
  /\ Delegated(e)
  /\ e.grant_id \notin fenced
  /\ \A f \in settled : ~ Clash(e, f)
  /\ settled' = settled \cup {e}
  /\ UNCHANGED <<authority, fenced>>

Issue(g, d) ==
  /\ g \notin DOMAIN authority
  /\ authority' = [x \in DOMAIN authority \cup {g} |->
                     IF x = g THEN d ELSE authority[x]]
  /\ UNCHANGED <<settled, fenced>>

Fence(g) ==
  /\ g \in DOMAIN authority
  /\ fenced' = fenced \cup {g}
  /\ UNCHANGED <<settled, authority>>

Forget ==
  /\ settled' = {}
  /\ authority' = <<>>
  /\ fenced' = {}

Next ==
  \/ \E e \in Entries : Settle(e)
  \/ \E g \in GrantIds, d \in Delegations : Issue(g, d)
  \/ \E g \in GrantIds : Fence(g)
  \/ Forget

Spec == Init /\ [][Next]_ledger
=============================================================================
