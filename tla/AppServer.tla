------------------------------ MODULE AppServer ------------------------------
(****************************************************************************)
(* The reference application of the vertical slice: the AppState of         *)
(* app_server.rs and the whole of `handle`, one request at a time.          *)
(*                                                                          *)
(* `handle` is a cascade of early returns.  Decision(q) is the outcome the  *)
(* cascade reaches for request q in the present state, Response(q) the      *)
(* JSON answer of that outcome, and one action per kind of outcome makes    *)
(* the state change.  Member formats and digests are abstract: an input is  *)
(* a value of Inputs, an execution hash is the record the code digests, a   *)
(* Grant Credential is the serial number of the 32 random bytes drawn for   *)
(* it.                                                                      *)
(****************************************************************************)
EXTENDS Naturals, Sequences, FiniteSets

CONSTANTS
  Runtimes, Agents,      \* delegate identifiers
  Keys, Executions,      \* idempotency keys and execution identifiers
  Inputs,                \* inputs that meet the comment schema
  BadInput,              \* an input that does not
  None,                  \* a member the request does not carry
  Requests,              \* the requests that reach the server
  MaxCredentials,        \* bound on the credentials ever generated
  MaxEffects,            \* bound on the comments of one server life
  MaxDenied              \* bound on the denial counter of one server life

READ_ACTION    == "task.read"
COMMENT_ACTION == "comment.create"
Actions        == {READ_ACTION, COMMENT_ACTION}
ActionNames    == Actions \cup {"unpublished"}

GrantIds    == 1 .. MaxCredentials
Credentials == 1 .. MaxCredentials

(****************************************************************************)
(* What a ServerRequest can carry, by operation.  `control` says whether    *)
(* the control credential matches; `protocol` whether the protocol member   *)
(* is the one the server speaks.                                            *)
(****************************************************************************)
IssueRequests ==
  [operation : {"issue_grant"}, control : BOOLEAN, runtime_id : Runtimes \cup {None},
   agent_id : Agents \cup {None}, actions : SUBSET ActionNames]

RevokeRequests ==
  [operation : {"revoke"}, control : BOOLEAN, grant_id : GrantIds \cup {None}]

InvokeRequests ==
  [operation : {"invoke"}, protocol : BOOLEAN, request_id : BOOLEAN,
   execution_id : Executions \cup {None}, runtime_id : Runtimes \cup {None},
   grant_id : GrantIds \cup {None}, agent_id : Agents \cup {None},
   credential : Credentials \cup {None}, action_id : ActionNames \cup {None},
   idempotency_key : Keys \cup {None}, input : Inputs \cup {BadInput}]

OtherRequests ==
  [operation : {"manifest", "state", "shutdown", "unknown"}, control : BOOLEAN]

ServerRequests ==
  IssueRequests \cup RevokeRequests \cup InvokeRequests \cup OtherRequests

ASSUME BoundsAssumption ==
  /\ MaxCredentials \in Nat
  /\ MaxEffects \in Nat
  /\ MaxDenied \in Nat

ASSUME RequestsAssumption == Requests \subseteq ServerRequests

ASSUME SentinelAssumption ==
  /\ BadInput \notin Inputs
  /\ None \notin Runtimes \cup Agents \cup Keys \cup Executions

VARIABLES
  grants,          \* grant id -> Grant, defined on the ids issued so far
  next_grant,
  idempotency,     \* <<grant, action, key>> -> IdempotencyRecord
  executions,      \* <<grant, action, execution>> -> idempotency key
  comments,        \* the effects, in the order they were performed
  receipts,        \* the application receipts
  next_receipt,
  denied_count,
  drawn            \* how many credentials the random source has produced

ledgerVars == <<idempotency, executions, comments, receipts, next_receipt>>
stateVars  == <<grants, next_grant, ledgerVars, denied_count>>
appVars    == <<stateVars, drawn>>

\* BTreeMap::insert: f with k mapped to v.
Put(f, k, v) == [x \in DOMAIN f \cup {k} |-> IF x = k THEN v ELSE f[x]]

----------------------------------------------------------------------------
(****************************************************************************)
(* AppState::new.  Nothing is read back at start: a restarted server has    *)
(* this state again, whatever its state file says.                          *)
(****************************************************************************)
AppInit ==
  /\ grants = <<>>
  /\ next_grant = 0
  /\ idempotency = <<>>
  /\ executions = <<>>
  /\ comments = <<>>
  /\ receipts = <<>>
  /\ next_receipt = 0
  /\ denied_count = 0
  /\ drawn = 0

PublicState ==
  [grant_count |-> Cardinality(DOMAIN grants),
   active_grant_count |-> Cardinality({g \in DOMAIN grants : grants[g].active}),
   denied_count |-> denied_count, comments |-> comments, receipts |-> receipts]

----------------------------------------------------------------------------
(****************************************************************************)
(* The digests and map keys of an invocation.                               *)
(****************************************************************************)
ExecutionHash(q) ==
  [execution_id |-> q.execution_id, grant_id |-> q.grant_id,
   runtime_id |-> q.runtime_id, agent_id |-> q.agent_id, action_id |-> q.action_id,
   idempotency_key |-> q.idempotency_key, input_hash |-> q.input]

\* Mutated forms: a key that only counts together with its execution, and a
\* key shared by all grants.
IdempotencyScopeByExecution(q) ==
  <<q.grant_id, q.action_id, q.idempotency_key, q.execution_id>>
IdempotencyScopeOfAllGrants(q) == <<q.action_id, q.idempotency_key>>

IdempotencyScope(q) == <<q.grant_id, q.action_id, q.idempotency_key>>
ExecutionScope(q)   == <<q.grant_id, q.action_id, q.execution_id>>

\* Mutated form: the execution is not compared.
IsReplayByInputOnly(q) ==
  /\ IdempotencyScope(q) \in DOMAIN idempotency
  /\ idempotency[IdempotencyScope(q)].input_hash = q.input

IsReplay(q) ==
  /\ IdempotencyScope(q) \in DOMAIN idempotency
  /\ idempotency[IdempotencyScope(q)].input_hash = q.input
  /\ idempotency[IdempotencyScope(q)].execution_hash = ExecutionHash(q)

\* Mutated forms: an execution may be reused under another key, and a recorded
\* key is overwritten.
IsConflictByKeyOnly(q) == ~ IsReplay(q) /\ IdempotencyScope(q) \in DOMAIN idempotency
IsConflictByExecutionOnly(q) == ~ IsReplay(q) /\ ExecutionScope(q) \in DOMAIN executions

IsConflict(q) ==
  /\ ~ IsReplay(q)
  /\ \/ IdempotencyScope(q) \in DOMAIN idempotency
     \/ ExecutionScope(q) \in DOMAIN executions

\* Mutated form: the credential alone is enough.
DelegateMatchesByCredential(q) == grants[q.grant_id].credential = q.credential

DelegateMatches(q) ==
  /\ grants[q.grant_id].runtime_id = q.runtime_id
  /\ grants[q.grant_id].agent_id = q.agent_id
  /\ grants[q.grant_id].credential = q.credential

(****************************************************************************)
(* The outcome of the `invoke` arm, in the order of its early returns.      *)
(****************************************************************************)
InvokeDecision(q) ==
  IF      ~ q.protocol                         THEN "protocol_invalid"
  ELSE IF ~ q.request_id                       THEN "request_invalid"
  ELSE IF q.execution_id = None                THEN "execution_invalid"
  ELSE IF None \in {q.runtime_id, q.grant_id, q.agent_id, q.credential, q.action_id}
                                               THEN "missing_member"
  ELSE IF q.grant_id \notin DOMAIN grants      THEN "grant_unknown"
  ELSE IF ~ grants[q.grant_id].active          THEN "grant_revoked"
  ELSE IF ~ DelegateMatches(q)                 THEN "grant_delegate_invalid"
  ELSE IF q.action_id \notin grants[q.grant_id].actions
                                               THEN "action_not_granted"
  ELSE IF q.action_id # COMMENT_ACTION         THEN "tasks_read"
  ELSE IF q.idempotency_key = None             THEN "missing_idempotency_key"
  ELSE IF q.input = BadInput                   THEN "input_schema_invalid"
  ELSE IF IsReplay(q)                          THEN "replayed"
  ELSE IF IsConflict(q)                        THEN "idempotency_conflict"
  ELSE "created"

IssueDecision(q) ==
  IF      ~ q.control                          THEN "control_unauthorized"
  ELSE IF None \in {q.runtime_id, q.agent_id}  THEN "missing_member"
  ELSE IF q.actions = {} \/ ~ q.actions \subseteq Actions
                                               THEN "grant_scope_invalid"
  ELSE "granted"

RevokeDecision(q) ==
  IF      ~ q.control                          THEN "control_unauthorized"
  ELSE IF q.grant_id = None                    THEN "missing_member"
  ELSE IF q.grant_id \notin DOMAIN grants      THEN "revoke_unknown"
  ELSE IF grants[q.grant_id].active            THEN "fence_established"
  ELSE "revoke_replayed"

OtherDecision(q) ==
  IF      q.operation = "manifest"             THEN "manifest"
  ELSE IF q.operation = "unknown"              THEN "operation_unknown"
  ELSE IF ~ q.control                          THEN "control_unauthorized"
  ELSE IF q.operation = "state"                THEN "state"
  ELSE "stopped"

Decision(q) ==
  IF      q.operation = "invoke"      THEN InvokeDecision(q)
  ELSE IF q.operation = "issue_grant" THEN IssueDecision(q)
  ELSE IF q.operation = "revoke"      THEN RevokeDecision(q)
  ELSE OtherDecision(q)

\* The outcomes that add one to denied_count.  A request that lacks a member,
\* and a revocation of a grant the server does not know, are errors as well,
\* but are not counted.
Denials ==
  {"control_unauthorized", "grant_scope_invalid", "protocol_invalid", "grant_unknown",
   "grant_revoked", "grant_delegate_invalid", "action_not_granted",
   "input_schema_invalid", "idempotency_conflict", "operation_unknown"}

UncountedErrors ==
  {"request_invalid", "execution_invalid", "missing_member", "missing_idempotency_key",
   "revoke_unknown"}

\* The outcomes that answer and change nothing.
Reads ==
  {"manifest", "state", "tasks_read", "replayed", "revoke_replayed", "stopped"}

----------------------------------------------------------------------------
(****************************************************************************)
(* The effect of a new comment.create invocation.                           *)
(****************************************************************************)
NewComment(q) == [comment_id |-> Len(comments) + 1, content |-> q.input]

\* Mutated form: the comment is counted before it is pushed.
NewReceiptBehindByOne(q) ==
  [receipt_id |-> next_receipt + 1, execution_hash |-> ExecutionHash(q),
   comment_id |-> Len(comments)]

NewReceipt(q) ==
  [receipt_id |-> next_receipt + 1, execution_hash |-> ExecutionHash(q),
   comment_id |-> Len(comments) + 1]

Result(q) ==
  [action_id |-> COMMENT_ACTION, comment |-> NewComment(q), receipt |-> NewReceipt(q)]

CreateComment(q) ==
  /\ Decision(q) = "created"
  /\ Len(comments) < MaxEffects
  /\ comments' = Append(comments, NewComment(q))
  /\ next_receipt' = next_receipt + 1
  /\ receipts' = Append(receipts, NewReceipt(q))
  /\ idempotency' = Put(idempotency, IdempotencyScope(q),
                        [input_hash |-> q.input, execution_hash |-> ExecutionHash(q),
                         response |-> Result(q)])
  /\ executions' = Put(executions, ExecutionScope(q), q.idempotency_key)
  /\ UNCHANGED <<grants, next_grant, denied_count, drawn>>

\* Mutated forms: a number that revoked grants leave free, a credential made
\* from the grant's number, and one counted from zero.
NewGrantIdOfActive == Cardinality({g \in DOMAIN grants : grants[g].active}) + 1
NewCredentialOfGrant == next_grant + 1
NewCredentialFromZero == drawn

NewGrantId    == next_grant + 1
NewCredential == drawn + 1

IssueGrant(q) ==
  /\ Decision(q) = "granted"
  /\ drawn < MaxCredentials
  /\ drawn' = drawn + 1
  /\ next_grant' = next_grant + 1
  /\ grants' = Put(grants, NewGrantId,
                   [runtime_id |-> q.runtime_id, agent_id |-> q.agent_id,
                    credential |-> NewCredential, actions |-> q.actions, active |-> TRUE])
  /\ UNCHANGED <<ledgerVars, denied_count>>

\* Mutated form: the answer without the fence.
RevokeInAnswerOnly(q) ==
  /\ Decision(q) = "fence_established"
  /\ UNCHANGED appVars

Revoke(q) ==
  /\ Decision(q) = "fence_established"
  /\ grants' = [grants EXCEPT ![q.grant_id].active = FALSE]
  /\ UNCHANGED <<next_grant, ledgerVars, denied_count, drawn>>

\* generate_grant_credential fails: an error that is not counted as a denial.
CredentialGenerationFailed(q) ==
  /\ Decision(q) = "granted"
  /\ UNCHANGED appVars

Deny(q) ==
  /\ Decision(q) \in Denials
  /\ denied_count < MaxDenied
  /\ denied_count' = denied_count + 1
  /\ UNCHANGED <<grants, next_grant, ledgerVars, drawn>>

Answer(q) ==
  /\ Decision(q) \in Reads \cup UncountedErrors
  /\ UNCHANGED appVars

Handle(q) ==
  \/ CreateComment(q)
  \/ IssueGrant(q)
  \/ CredentialGenerationFailed(q)
  \/ Revoke(q)
  \/ Deny(q)
  \/ Answer(q)

\* Mutated form: a replay is answered with a result made anew.
RecordedRebuilt(q) == Result(q)

Recorded(q) == idempotency[IdempotencyScope(q)].response

(****************************************************************************)
(* The answer `handle` returns for q, in terms of the state it found.       *)
(****************************************************************************)
Response(q) ==
  LET d == Decision(q) IN
  IF      d \in Denials \cup UncountedErrors THEN [ok |-> FALSE, error |-> d]
  ELSE IF d = "created"  THEN [ok |-> TRUE, result |-> Result(q)]
  ELSE IF d = "replayed" THEN [ok |-> TRUE, result |-> Recorded(q)]
  ELSE IF d = "granted"  THEN [ok |-> TRUE, result |-> [grant_id |-> NewGrantId,
                                                        credential |-> NewCredential]]
  ELSE [ok |-> TRUE, result |-> d]

(****************************************************************************)
(* The process ends and an operator starts it again: AppState::new.  The    *)
(* random source does not repeat itself.                                    *)
(****************************************************************************)
Restart ==
  /\ grants' = <<>>
  /\ next_grant' = 0
  /\ idempotency' = <<>>
  /\ executions' = <<>>
  /\ comments' = <<>>
  /\ receipts' = <<>>
  /\ next_receipt' = 0
  /\ denied_count' = 0
  /\ UNCHANGED drawn

AppNext ==
  \/ \E q \in Requests : Handle(q)
  \/ Restart

AppSpec == AppInit /\ [][AppNext]_appVars

----------------------------------------------------------------------------
(****************************************************************************)
(* Types.                                                                   *)
(****************************************************************************)
Grant ==
  [runtime_id : Runtimes, agent_id : Agents, credential : Credentials,
   actions : SUBSET Actions, active : BOOLEAN]

ExecutionHashes ==
  [execution_id : Executions, grant_id : GrantIds, runtime_id : Runtimes,
   agent_id : Agents, action_id : {COMMENT_ACTION}, idempotency_key : Keys,
   input_hash : Inputs]

Comment == [comment_id : Nat, content : Inputs]
Receipt == [receipt_id : Nat, execution_hash : ExecutionHashes, comment_id : Nat]

IdempotencyRecord ==
  [input_hash : Inputs, execution_hash : ExecutionHashes,
   response : [action_id : {COMMENT_ACTION}, comment : Comment, receipt : Receipt]]

\* The state of the server keeps the shape its Rust types give it, and issued
\* grants are numbered from one without a gap.
AppTypeOK ==
  /\ drawn \in 0 .. MaxCredentials
  /\ next_grant \in 0 .. drawn
  /\ grants \in [1 .. next_grant -> Grant]
  /\ idempotency \in [DOMAIN idempotency -> IdempotencyRecord]
  /\ DOMAIN idempotency \subseteq GrantIds \X Actions \X Keys
  /\ executions \in [DOMAIN executions -> Keys]
  /\ DOMAIN executions \subseteq GrantIds \X Actions \X Executions
  /\ comments \in Seq(Comment)
  /\ receipts \in Seq(Receipt)
  /\ next_receipt \in Nat
  /\ denied_count \in 0 .. MaxDenied

----------------------------------------------------------------------------
(****************************************************************************)
(* Safety.                                                                  *)
(****************************************************************************)
Settled(i) == receipts[i].execution_hash

\* Two performed effects never share an idempotency key, and never share an
\* execution identifier, under one grant and action, whatever mixture of
\* retries, changed inputs and reused identifiers the runtimes send.
EffectsHappenOnce ==
  \A i, j \in DOMAIN receipts :
    i # j => /\ IdempotencyScope(Settled(i)) # IdempotencyScope(Settled(j))
             /\ ExecutionScope(Settled(i)) # ExecutionScope(Settled(j))

\* The comment list, the receipt list, the idempotency table and the execution
\* table, which `handle` updates in five separate statements, tell one story:
\* receipt i is for comment i, and every key and execution in the tables leads
\* to exactly the comment and receipt it was recorded for.
LedgerAgrees ==
  /\ Len(comments) = Len(receipts)
  /\ next_receipt = Len(receipts)
  /\ \A i \in DOMAIN receipts :
       /\ receipts[i].receipt_id = i
       /\ receipts[i].comment_id = i
       /\ comments[i] = [comment_id |-> i, content |-> Settled(i).input_hash]
       /\ IdempotencyScope(Settled(i)) \in DOMAIN idempotency
       /\ ExecutionScope(Settled(i)) \in DOMAIN executions
  /\ \A s \in DOMAIN idempotency : \E i \in DOMAIN receipts :
       /\ s = IdempotencyScope(Settled(i))
       /\ idempotency[s] =
            [input_hash |-> Settled(i).input_hash, execution_hash |-> Settled(i),
             response |-> [action_id |-> COMMENT_ACTION, comment |-> comments[i],
                           receipt |-> receipts[i]]]
  /\ \A s \in DOMAIN executions : \E i \in DOMAIN receipts :
       /\ s = ExecutionScope(Settled(i))
       /\ executions[s] = Settled(i).idempotency_key

\* Every effect was performed for the runtime and agent its grant was issued
\* to, with an action that grant names.
EffectsAreDelegated ==
  \A i \in DOMAIN receipts :
    LET h == Settled(i) IN
    /\ h.grant_id \in DOMAIN grants
    /\ grants[h.grant_id].runtime_id = h.runtime_id
    /\ grants[h.grant_id].agent_id = h.agent_id
    /\ h.action_id \in grants[h.grant_id].actions

\* A replay is answered with the comment and receipt of the invocation it
\* repeats, which still stand in the ledger, and with no one else's.
ReplaysAnswerTheOriginal ==
  \A q \in Requests :
    Decision(q) = "replayed" =>
      LET r == Response(q).result IN
      \E i \in DOMAIN receipts :
        /\ r.receipt = receipts[i]
        /\ r.comment = comments[i]
        /\ Settled(i) = ExecutionHash(q)

\* The ledger is sound: no key or execution settles two effects, the lists and
\* tables that `handle` updates one by one tell the same story, every effect
\* was delegated, and a replay is answered with the effect it repeats.
LedgerIsSound ==
  /\ EffectsHappenOnce
  /\ LedgerAgrees
  /\ EffectsAreDelegated
  /\ ReplaysAnswerTheOriginal

\* Within one life of the server nothing already settled is changed or
\* forgotten: the lists only grow at the end and a recorded answer stays.
LedgerIsAppendOnly ==
  [][\/ Restart
     \/ /\ Len(receipts') >= Len(receipts)
        /\ \A i \in DOMAIN receipts : receipts'[i] = receipts[i] /\ comments'[i] = comments[i]
        /\ \A s \in DOMAIN idempotency :
             s \in DOMAIN idempotency' /\ idempotency'[s] = idempotency[s]]_appVars

\* The revocation fence: once a grant is inactive it stays so, and no effect is
\* ever added under it, not even for a request its runtime sent earlier.
RevocationFence ==
  [][\/ Restart
     \/ \A g \in DOMAIN grants : ~ grants[g].active =>
          /\ g \in DOMAIN grants' /\ ~ grants'[g].active
          /\ \A i \in DOMAIN receipts' \ DOMAIN receipts :
               receipts'[i].execution_hash.grant_id # g]_appVars

----------------------------------------------------------------------------
(****************************************************************************)
(* What the server promises, without its tables: see EffectLedger.          *)
(****************************************************************************)
Ledger == INSTANCE EffectLedger WITH
  Entries     <- ExecutionHashes,
  Delegations <- [runtime_id : Runtimes, agent_id : Agents, actions : SUBSET Actions],
  settled     <- {Settled(i) : i \in DOMAIN receipts},
  authority   <- [g \in DOMAIN grants |->
                  [runtime_id |-> grants[g].runtime_id, agent_id |-> grants[g].agent_id,
                   actions |-> grants[g].actions]],
  fenced      <- {g \in DOMAIN grants : ~ grants[g].active}

\* The server implements the abstract ledger.
ImplementsLedger == Ledger!Spec
=============================================================================
