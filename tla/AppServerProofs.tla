--------------------------- MODULE AppServerProofs ---------------------------
(****************************************************************************)
(* Proofs about AppServer, for every value of its constants.                *)
(*                                                                          *)
(* The inductive invariant is AppIInv: the types, the agreement of the five *)
(* ledgers and the delegation of every effect.  What decides a request is   *)
(* used only through the lemmas on Decision, which say what a request that  *)
(* reaches a state-changing outcome must have passed.                       *)
(*                                                                          *)
(* The lemmas are about ServerNext, the steps of the server under any       *)
(* request of its shape; AppNext is the same for a given set of requests,   *)
(* and the slice brings its own.                                            *)
(****************************************************************************)
EXTENDS AppServer, TLAPS

AppIInv == AppTypeOK /\ LedgerAgrees /\ EffectsHappenOnce /\ EffectsAreDelegated

ServerNext ==
  \/ \E q \in ServerRequests : Handle(q)
  \/ Restart

\* The requests of the specification are requests of the server.
LEMMA AppNextIsServerNext == [AppNext]_appVars => [ServerNext]_appVars
BY RequestsAssumption DEF AppNext, ServerNext

----------------------------------------------------------------------------
(****************************************************************************)
(* Put, Append and Decision.                                                *)
(****************************************************************************)

\* Put adds one key, gives it the value, and leaves every other key alone.
LEMMA PutFacts ==
  ASSUME NEW f, NEW k, NEW v
  PROVE  /\ DOMAIN Put(f, k, v) = DOMAIN f \cup {k}
         /\ Put(f, k, v)[k] = v
         /\ \A x \in DOMAIN f : x # k => Put(f, k, v)[x] = f[x]
BY DEF Put

\* Put keeps a function's values in a set that has the new value.
LEMMA PutType ==
  ASSUME NEW S, NEW f, f \in [DOMAIN f -> S], NEW k, NEW v \in S
  PROVE  Put(f, k, v) \in [DOMAIN Put(f, k, v) -> S]
BY DEF Put

\* Append adds one element behind the ones that were there.
LEMMA AppendFacts ==
  ASSUME NEW S, NEW s \in Seq(S), NEW e \in S
  PROVE  /\ Append(s, e) \in Seq(S)
         /\ Len(s) \in Nat
         /\ DOMAIN s = 1 .. Len(s)
         /\ Len(Append(s, e)) = Len(s) + 1
         /\ DOMAIN Append(s, e) = DOMAIN s \cup {Len(s) + 1}
         /\ Append(s, e)[Len(s) + 1] = e
         /\ \A i \in DOMAIN s : Append(s, e)[i] = s[i]
<1>1. Append(s, e) \in Seq(S) /\ Len(s) \in Nat /\ DOMAIN s = 1 .. Len(s)
  OBVIOUS
<1>2. Len(Append(s, e)) = Len(s) + 1
  OBVIOUS
<1>3. DOMAIN Append(s, e) = 1 .. (Len(s) + 1)
  BY <1>1, <1>2
<1>4. DOMAIN Append(s, e) = DOMAIN s \cup {Len(s) + 1}
  BY <1>1, <1>3
<1>5. Append(s, e)[Len(s) + 1] = e /\ \A i \in 1 .. Len(s) : Append(s, e)[i] = s[i]
  OBVIOUS
<1>. QED BY <1>1, <1>2, <1>4, <1>5

\* A request that creates a comment or is answered from the ledger carries
\* every member, under an active grant issued to its runtime and agent.
LEMMA InvokeAdmitted ==
  ASSUME NEW q \in ServerRequests, Decision(q) \in {"created", "replayed"}, AppTypeOK
  PROVE  /\ q.operation = "invoke"
         /\ q.grant_id \in DOMAIN grants
         /\ grants[q.grant_id].active
         /\ DelegateMatches(q)
         /\ q.action_id \in grants[q.grant_id].actions
         /\ q.action_id = COMMENT_ACTION
         /\ q.input \in Inputs
         /\ ExecutionHash(q) \in ExecutionHashes
         /\ IdempotencyScope(q) \in GrantIds \X Actions \X Keys
         /\ ExecutionScope(q) \in GrantIds \X Actions \X Executions
         /\ Decision(q) = "replayed" => IsReplay(q)
         /\ Decision(q) = "created" =>
              /\ IdempotencyScope(q) \notin DOMAIN idempotency
              /\ ExecutionScope(q) \notin DOMAIN executions
<1>1. q.operation = "invoke" /\ Decision(q) = InvokeDecision(q)
  <2>1. CASE q.operation = "invoke"
    BY <2>1 DEF Decision
  <2>2. CASE q.operation = "issue_grant"
    BY <2>2 DEF Decision, IssueDecision
  <2>3. CASE q.operation = "revoke"
    BY <2>3 DEF Decision, RevokeDecision
  <2>4. CASE q.operation \notin {"invoke", "issue_grant", "revoke"}
    BY <2>4 DEF Decision, OtherDecision
  <2>. QED BY <2>1, <2>2, <2>3, <2>4
<1>2. q \in InvokeRequests
  BY <1>1 DEF ServerRequests, IssueRequests, RevokeRequests, OtherRequests, InvokeRequests
<1>3. /\ q.execution_id # None
      /\ None \notin {q.runtime_id, q.grant_id, q.agent_id, q.credential, q.action_id}
      /\ q.grant_id \in DOMAIN grants
      /\ grants[q.grant_id].active
      /\ DelegateMatches(q)
      /\ q.action_id \in grants[q.grant_id].actions
      /\ q.action_id = COMMENT_ACTION
      /\ q.idempotency_key # None
      /\ q.input # BadInput
      /\ Decision(q) = "replayed" => IsReplay(q)
      /\ Decision(q) = "created" => ~ IsReplay(q) /\ ~ IsConflict(q)
  BY <1>1 DEF InvokeDecision
<1>4. /\ q.execution_id \in Executions
      /\ q.runtime_id \in Runtimes
      /\ q.agent_id \in Agents
      /\ q.grant_id \in GrantIds
      /\ q.idempotency_key \in Keys
      /\ q.input \in Inputs
  BY <1>2, <1>3 DEF InvokeRequests
<1>5. COMMENT_ACTION \in Actions
  BY DEF Actions
<1>. QED
  BY <1>1, <1>3, <1>4, <1>5 DEF ExecutionHash, ExecutionHashes, IdempotencyScope, ExecutionScope,
                          IsConflict

\* A grant is issued for a runtime, an agent and published actions.
LEMMA IssueAdmitted ==
  ASSUME NEW q \in ServerRequests, Decision(q) = "granted"
  PROVE  q.runtime_id \in Runtimes /\ q.agent_id \in Agents /\ q.actions \subseteq Actions
<1>1. q.operation = "issue_grant" /\ Decision(q) = IssueDecision(q)
  <2>1. CASE q.operation = "invoke"
    BY <2>1 DEF Decision, InvokeDecision
  <2>2. CASE q.operation = "issue_grant"
    BY <2>2 DEF Decision
  <2>3. CASE q.operation = "revoke"
    BY <2>3 DEF Decision, RevokeDecision
  <2>4. CASE q.operation \notin {"invoke", "issue_grant", "revoke"}
    BY <2>4 DEF Decision, OtherDecision
  <2>. QED BY <2>1, <2>2, <2>3, <2>4
<1>2. q \in IssueRequests
  BY <1>1 DEF ServerRequests, IssueRequests, RevokeRequests, OtherRequests, InvokeRequests
<1>3. None \notin {q.runtime_id, q.agent_id} /\ q.actions \subseteq Actions
  BY <1>1 DEF IssueDecision
<1>. QED BY <1>2, <1>3 DEF IssueRequests

\* A fence is established on a grant that is there and active.
LEMMA RevokeAdmitted ==
  ASSUME NEW q \in ServerRequests, Decision(q) = "fence_established"
  PROVE  q.grant_id \in DOMAIN grants /\ grants[q.grant_id].active
<1>1. Decision(q) = RevokeDecision(q)
  <2>1. CASE q.operation = "invoke"
    BY <2>1 DEF Decision, InvokeDecision
  <2>2. CASE q.operation = "issue_grant"
    BY <2>2 DEF Decision, IssueDecision
  <2>3. CASE q.operation = "revoke"
    BY <2>3 DEF Decision
  <2>4. CASE q.operation \notin {"invoke", "issue_grant", "revoke"}
    BY <2>4 DEF Decision, OtherDecision
  <2>. QED BY <2>1, <2>2, <2>3, <2>4
<1>. QED BY <1>1 DEF RevokeDecision

----------------------------------------------------------------------------
(****************************************************************************)
(* Types.                                                                   *)
(****************************************************************************)

\* A new server has well-typed state.
LEMMA AppTypeInit == AppInit => AppTypeOK
BY BoundsAssumption DEF AppInit, AppTypeOK

\* The result of a created comment has the type of a recorded response.
LEMMA CreatedTypes ==
  ASSUME NEW q \in ServerRequests, Decision(q) = "created", AppTypeOK
  PROVE  /\ NewComment(q) \in Comment
         /\ NewReceipt(q) \in Receipt
         /\ [input_hash |-> q.input, execution_hash |-> ExecutionHash(q),
             response |-> Result(q)] \in IdempotencyRecord
<1>1. q.input \in Inputs /\ ExecutionHash(q) \in ExecutionHashes
  BY InvokeAdmitted
<1>2. Len(comments) \in Nat /\ next_receipt \in Nat
  BY DEF AppTypeOK
<1>3. NewComment(q) \in Comment /\ NewReceipt(q) \in Receipt
  BY <1>1, <1>2 DEF NewComment, NewReceipt, Comment, Receipt
<1>. QED BY <1>1, <1>3 DEF Result, IdempotencyRecord

\* Every step keeps the types.
LEMMA AppTypeNext == AppTypeOK /\ [ServerNext]_appVars => AppTypeOK'
<1>. SUFFICES ASSUME AppTypeOK, [ServerNext]_appVars PROVE AppTypeOK'
  OBVIOUS
<1>. USE BoundsAssumption
<1>1. ASSUME NEW q \in ServerRequests, CreateComment(q) PROVE AppTypeOK'
  <2>. USE <1>1
  <2>1. /\ Decision(q) = "created"
        /\ UNCHANGED <<grants, next_grant, denied_count, drawn>>
        /\ comments' = Append(comments, NewComment(q))
        /\ receipts' = Append(receipts, NewReceipt(q))
        /\ next_receipt' = next_receipt + 1
    BY DEF CreateComment
  <2>2. comments' \in Seq(Comment) /\ receipts' \in Seq(Receipt) /\ next_receipt' \in Nat
    <3>1. NewComment(q) \in Comment /\ NewReceipt(q) \in Receipt
      BY <2>1, CreatedTypes
    <3>2. comments \in Seq(Comment) /\ receipts \in Seq(Receipt) /\ next_receipt \in Nat
      BY DEF AppTypeOK
    <3>. QED BY <2>1, <3>1, <3>2
  <2>3. /\ idempotency' \in [DOMAIN idempotency' -> IdempotencyRecord]
        /\ DOMAIN idempotency' \subseteq GrantIds \X Actions \X Keys
    <3>. DEFINE record == [input_hash |-> q.input, execution_hash |-> ExecutionHash(q),
                           response |-> Result(q)]
    <3>1. idempotency' = Put(idempotency, IdempotencyScope(q), record)
      BY DEF CreateComment
    <3>2. record \in IdempotencyRecord
      BY <2>1, CreatedTypes
    <3>3. IdempotencyScope(q) \in GrantIds \X Actions \X Keys
      BY <2>1, InvokeAdmitted
    <3>. HIDE DEF record
    <3>4. idempotency \in [DOMAIN idempotency -> IdempotencyRecord]
      BY DEF AppTypeOK
    <3>5. Put(idempotency, IdempotencyScope(q), record)
            \in [DOMAIN Put(idempotency, IdempotencyScope(q), record) -> IdempotencyRecord]
      BY <3>2, <3>4, PutType
    <3>6. DOMAIN Put(idempotency, IdempotencyScope(q), record)
            = DOMAIN idempotency \cup {IdempotencyScope(q)}
      BY PutFacts
    <3>. QED BY <3>1, <3>3, <3>5, <3>6 DEF AppTypeOK
  <2>4. /\ executions' \in [DOMAIN executions' -> Keys]
        /\ DOMAIN executions' \subseteq GrantIds \X Actions \X Executions
    <3>1. executions' = Put(executions, ExecutionScope(q), q.idempotency_key)
      BY DEF CreateComment
    <3>2. /\ ExecutionScope(q) \in GrantIds \X Actions \X Executions
          /\ ExecutionHash(q) \in ExecutionHashes
      BY <2>1, InvokeAdmitted
    <3>3. q.idempotency_key \in Keys
      BY <3>2 DEF ExecutionHash, ExecutionHashes
    <3>4. executions \in [DOMAIN executions -> Keys]
      BY DEF AppTypeOK
    <3>5. Put(executions, ExecutionScope(q), q.idempotency_key)
            \in [DOMAIN Put(executions, ExecutionScope(q), q.idempotency_key) -> Keys]
      BY <3>3, <3>4, PutType
    <3>6. DOMAIN Put(executions, ExecutionScope(q), q.idempotency_key)
            = DOMAIN executions \cup {ExecutionScope(q)}
      BY PutFacts
    <3>. QED BY <3>1, <3>2, <3>5, <3>6 DEF AppTypeOK
  <2>. QED BY <2>1, <2>2, <2>3, <2>4 DEF AppTypeOK
<1>2. ASSUME NEW q \in ServerRequests, IssueGrant(q) PROVE AppTypeOK'
  <2>. USE <1>2
  <2>1. /\ Decision(q) = "granted"
        /\ UNCHANGED <<ledgerVars, denied_count>>
        /\ drawn < MaxCredentials
        /\ drawn' = drawn + 1
        /\ next_grant' = next_grant + 1
    BY DEF IssueGrant
  <2>2. drawn' \in 0 .. MaxCredentials /\ next_grant' \in 0 .. drawn'
    BY <2>1 DEF AppTypeOK
  <2>3. grants' \in [1 .. next_grant' -> Grant]
    <3>. DEFINE grant == [runtime_id |-> q.runtime_id, agent_id |-> q.agent_id,
                          credential |-> NewCredential, actions |-> q.actions,
                          active |-> TRUE]
    <3>1. NewCredential \in Credentials
      BY <2>1 DEF NewCredential, Credentials, AppTypeOK
    <3>2. grant \in Grant
      BY <2>1, <3>1, IssueAdmitted DEF Grant
    <3>3. grants' = Put(grants, NewGrantId, grant)
      BY DEF IssueGrant
    <3>. HIDE DEF grant
    <3>4. grants \in [1 .. next_grant -> Grant] /\ next_grant \in Nat
      BY DEF AppTypeOK
    <3>5. grants' \in [DOMAIN grants' -> Grant]
      BY <3>2, <3>3, <3>4, PutType
    <3>6. DOMAIN grants' = (1 .. next_grant) \cup {next_grant + 1}
      BY <3>3, <3>4, PutFacts DEF NewGrantId
    <3>. QED BY <2>1, <3>4, <3>5, <3>6
  <2>. QED BY <2>1, <2>2, <2>3 DEF AppTypeOK, ledgerVars
<1>3. ASSUME NEW q \in ServerRequests, Revoke(q) PROVE AppTypeOK'
  <2>1. q.grant_id \in DOMAIN grants
    BY <1>3, RevokeAdmitted DEF Revoke
  <2>2. grants' \in [1 .. next_grant -> Grant]
    BY <1>3, <2>1 DEF Revoke, AppTypeOK, Grant
  <2>. QED BY <1>3, <2>2 DEF Revoke, AppTypeOK, ledgerVars
<1>4. ASSUME NEW q \in ServerRequests, Deny(q) PROVE AppTypeOK'
  BY <1>4 DEF Deny, AppTypeOK, ledgerVars
<1>5. CASE UNCHANGED appVars
  BY <1>5 DEF appVars, stateVars, ledgerVars, AppTypeOK
<1>6. CASE Restart
  BY <1>6 DEF Restart, AppTypeOK
<1>7. ASSUME NEW q \in ServerRequests, Handle(q) PROVE AppTypeOK'
  BY <1>1, <1>2, <1>3, <1>4, <1>5, <1>7 DEF Handle, CredentialGenerationFailed, Answer
<1>. QED BY <1>5, <1>6, <1>7 DEF ServerNext

\* The state of the server keeps its types: whatever requests arrive and
\* however often it is restarted, grants stay numbered from one without a gap
\* and every table entry is a well-formed record.
THEOREM AppTypeCorrect == AppSpec => []AppTypeOK
BY AppTypeInit, AppTypeNext, AppNextIsServerNext, PTL DEF AppSpec

----------------------------------------------------------------------------
(****************************************************************************)
(* Safety.                                                                  *)
(****************************************************************************)

\* What a created comment does to the lists, and which scopes it settles.
LEMMA CreatedState ==
  ASSUME NEW q \in ServerRequests, CreateComment(q), AppTypeOK, LedgerAgrees
  PROVE  LET n == Len(receipts) + 1 IN
         /\ n \in Nat
         /\ DOMAIN receipts = 1 .. Len(receipts)
         /\ n \notin DOMAIN receipts
         /\ DOMAIN receipts' = DOMAIN receipts \cup {n}
         /\ Len(receipts') = n /\ Len(comments') = n /\ next_receipt' = n
         /\ receipts'[n] = [receipt_id |-> n, execution_hash |-> ExecutionHash(q),
                            comment_id |-> n]
         /\ comments'[n] = [comment_id |-> n, content |-> q.input]
         /\ \A i \in DOMAIN receipts : receipts'[i] = receipts[i] /\ comments'[i] = comments[i]
<1>1. Decision(q) = "created"
  BY DEF CreateComment
<1>2. comments' = Append(comments, NewComment(q)) /\ receipts' = Append(receipts, NewReceipt(q))
  BY DEF CreateComment
<1>3. comments \in Seq(Comment) /\ receipts \in Seq(Receipt)
  BY DEF AppTypeOK
<1>4. NewComment(q) \in Comment /\ NewReceipt(q) \in Receipt
  BY <1>1, CreatedTypes
<1>5. Len(comments) = Len(receipts) /\ next_receipt = Len(receipts)
  BY DEF LedgerAgrees
<1>6. /\ Len(receipts) \in Nat
      /\ DOMAIN receipts = 1 .. Len(receipts)
      /\ Len(receipts') = Len(receipts) + 1
      /\ DOMAIN receipts' = DOMAIN receipts \cup {Len(receipts) + 1}
      /\ receipts'[Len(receipts) + 1] = NewReceipt(q)
      /\ \A i \in DOMAIN receipts : receipts'[i] = receipts[i]
  BY <1>2, <1>3, <1>4, AppendFacts
<1>7. /\ Len(comments') = Len(receipts) + 1
      /\ DOMAIN comments = DOMAIN receipts
      /\ comments'[Len(receipts) + 1] = NewComment(q)
      /\ \A i \in DOMAIN comments : comments'[i] = comments[i]
  BY <1>2, <1>3, <1>4, <1>5, <1>6, AppendFacts
<1>8. next_receipt' = Len(receipts) + 1
  BY <1>5 DEF CreateComment
<1>. QED BY <1>5, <1>6, <1>7, <1>8 DEF NewReceipt, NewComment

\* The scopes of an invocation are those of the execution it records.
LEMMA HashScopes ==
  ASSUME NEW q
  PROVE  /\ IdempotencyScope(ExecutionHash(q)) = IdempotencyScope(q)
         /\ ExecutionScope(ExecutionHash(q)) = ExecutionScope(q)
         /\ ExecutionHash(q).input_hash = q.input
         /\ ExecutionHash(q).idempotency_key = q.idempotency_key
BY DEF IdempotencyScope, ExecutionScope, ExecutionHash

\* A created comment enters the five ledgers together.
LEMMA CreatedAgrees ==
  ASSUME NEW q \in ServerRequests, CreateComment(q), AppTypeOK, LedgerAgrees
  PROVE  LedgerAgrees'
<1>. DEFINE record == [input_hash |-> q.input, execution_hash |-> ExecutionHash(q),
                       response |-> Result(q)]
<1>. PICK n : n = Len(receipts) + 1
  OBVIOUS
<1>1. /\ DOMAIN receipts' = DOMAIN receipts \cup {n}
      /\ Len(receipts') = n /\ Len(comments') = n /\ next_receipt' = n
      /\ receipts'[n] = [receipt_id |-> n, execution_hash |-> ExecutionHash(q),
                         comment_id |-> n]
      /\ comments'[n] = [comment_id |-> n, content |-> q.input]
      /\ \A i \in DOMAIN receipts : receipts'[i] = receipts[i] /\ comments'[i] = comments[i]
  BY CreatedState
<1>2. /\ Settled(n)' = ExecutionHash(q)
      /\ \A i \in DOMAIN receipts : Settled(i)' = Settled(i)
  BY <1>1 DEF Settled
<1>3. /\ idempotency' = Put(idempotency, IdempotencyScope(q), record)
      /\ executions' = Put(executions, ExecutionScope(q), q.idempotency_key)
  BY DEF CreateComment
<1>4. record.response = [action_id |-> COMMENT_ACTION, comment |-> comments'[n],
                         receipt |-> receipts'[n]]
  <2>1. comments' = Append(comments, NewComment(q)) /\ Len(comments) = Len(receipts)
        /\ next_receipt = Len(receipts)
    BY DEF CreateComment, LedgerAgrees
  <2>. QED BY <1>1, <2>1 DEF Result, NewComment, NewReceipt
<1>. HIDE DEF record
<1>5. /\ DOMAIN idempotency' = DOMAIN idempotency \cup {IdempotencyScope(q)}
      /\ idempotency'[IdempotencyScope(q)] = record
      /\ \A s \in DOMAIN idempotency : s # IdempotencyScope(q) => idempotency'[s] = idempotency[s]
  BY <1>3 DEF Put
<1>6. /\ DOMAIN executions' = DOMAIN executions \cup {ExecutionScope(q)}
      /\ executions'[ExecutionScope(q)] = q.idempotency_key
      /\ \A s \in DOMAIN executions : s # ExecutionScope(q) => executions'[s] = executions[s]
  BY <1>3 DEF Put
<1>7. ASSUME NEW i \in DOMAIN receipts'
      PROVE  /\ receipts'[i].receipt_id = i
             /\ receipts'[i].comment_id = i
             /\ comments'[i] = [comment_id |-> i, content |-> Settled(i)'.input_hash]
             /\ IdempotencyScope(Settled(i)') \in DOMAIN idempotency'
             /\ ExecutionScope(Settled(i)') \in DOMAIN executions'
  <2>1. CASE i = n
    <3>1. Settled(i)' = ExecutionHash(q)
      BY <1>2, <2>1
    <3>. QED BY <1>1, <1>5, <1>6, <2>1, <3>1, HashScopes
  <2>2. CASE i \in DOMAIN receipts
    <3>1. Settled(i)' = Settled(i) /\ receipts'[i] = receipts[i] /\ comments'[i] = comments[i]
      BY <1>1, <1>2, <2>2
    <3>2. /\ receipts[i].receipt_id = i
          /\ receipts[i].comment_id = i
          /\ comments[i] = [comment_id |-> i, content |-> Settled(i).input_hash]
          /\ IdempotencyScope(Settled(i)) \in DOMAIN idempotency
          /\ ExecutionScope(Settled(i)) \in DOMAIN executions
      BY <2>2 DEF LedgerAgrees
    <3>. QED BY <1>5, <1>6, <3>1, <3>2
  <2>. QED BY <1>1, <2>1, <2>2
<1>8. ASSUME NEW s \in DOMAIN idempotency'
      PROVE  \E i \in DOMAIN receipts' :
               /\ s = IdempotencyScope(Settled(i)')
               /\ idempotency'[s] =
                    [input_hash |-> Settled(i)'.input_hash, execution_hash |-> Settled(i)',
                     response |-> [action_id |-> COMMENT_ACTION, comment |-> comments'[i],
                                   receipt |-> receipts'[i]]]
  <2>1. CASE s = IdempotencyScope(q)
    <3>1. n \in DOMAIN receipts' /\ Settled(n)' = ExecutionHash(q)
      BY <1>1, <1>2
    <3>2. idempotency'[s] = record
      BY <1>5, <2>1
    <3>3. s = IdempotencyScope(ExecutionHash(q)) /\ q.input = ExecutionHash(q).input_hash
      BY <2>1, HashScopes
    <3>. QED BY <1>4, <3>1, <3>2, <3>3 DEF record
  <2>2. CASE s # IdempotencyScope(q)
    <3>1. s \in DOMAIN idempotency /\ idempotency'[s] = idempotency[s]
      BY <1>5, <2>2
    <3>2. PICK i \in DOMAIN receipts :
            /\ s = IdempotencyScope(Settled(i))
            /\ idempotency[s] =
                 [input_hash |-> Settled(i).input_hash, execution_hash |-> Settled(i),
                  response |-> [action_id |-> COMMENT_ACTION, comment |-> comments[i],
                                receipt |-> receipts[i]]]
      BY <3>1 DEF LedgerAgrees
    <3>3. /\ i \in DOMAIN receipts' /\ Settled(i)' = Settled(i)
          /\ receipts'[i] = receipts[i] /\ comments'[i] = comments[i]
      BY <1>1, <1>2
    <3>. QED BY <3>1, <3>2, <3>3
  <2>. QED BY <2>1, <2>2
<1>9. ASSUME NEW s \in DOMAIN executions'
      PROVE  \E i \in DOMAIN receipts' :
               /\ s = ExecutionScope(Settled(i)')
               /\ executions'[s] = Settled(i)'.idempotency_key
  <2>1. CASE s = ExecutionScope(q)
    <3>1. n \in DOMAIN receipts' /\ Settled(n)' = ExecutionHash(q)
      BY <1>1, <1>2
    <3>. QED BY <1>6, <2>1, <3>1, HashScopes
  <2>2. CASE s # ExecutionScope(q)
    <3>1. s \in DOMAIN executions /\ executions'[s] = executions[s]
      BY <1>6, <2>2
    <3>2. PICK i \in DOMAIN receipts :
            s = ExecutionScope(Settled(i)) /\ executions[s] = Settled(i).idempotency_key
      BY <3>1 DEF LedgerAgrees
    <3>3. i \in DOMAIN receipts' /\ Settled(i)' = Settled(i)
      BY <1>1, <1>2
    <3>. QED BY <3>1, <3>2, <3>3
  <2>. QED BY <2>1, <2>2
<1>10. /\ \A i \in DOMAIN receipts' : IdempotencyScope(Settled(i)') = IdempotencyScope(Settled(i))'
       /\ \A i \in DOMAIN receipts' : ExecutionScope(Settled(i)') = ExecutionScope(Settled(i))'
  BY DEF IdempotencyScope, ExecutionScope
<1>. QED BY <1>1, <1>7, <1>8, <1>9, <1>10 DEF LedgerAgrees

\* Steps that create no comment leave the five ledgers as they are or, on a
\* restart, empty them together.
LEMMA OtherSteps ==
  ASSUME [ServerNext]_appVars, AppTypeOK
  PROVE  \/ \E q \in ServerRequests : CreateComment(q)
         \/ UNCHANGED ledgerVars /\ ~ Restart /\ DOMAIN grants \subseteq DOMAIN grants'
            /\ \A g \in DOMAIN grants :
                 /\ grants'[g].runtime_id = grants[g].runtime_id
                 /\ grants'[g].agent_id = grants[g].agent_id
                 /\ grants'[g].actions = grants[g].actions
                 /\ ~ grants[g].active => ~ grants'[g].active
         \/ Restart
<1>1. ASSUME NEW q \in ServerRequests, IssueGrant(q)
      PROVE  UNCHANGED ledgerVars /\ DOMAIN grants \subseteq DOMAIN grants'
             /\ \A g \in DOMAIN grants : grants'[g] = grants[g]
  <2>1. NewGrantId \notin DOMAIN grants
    BY BoundsAssumption DEF NewGrantId, AppTypeOK
  <2>. QED BY <1>1, <2>1 DEF IssueGrant, Put
<1>2. ASSUME NEW q \in ServerRequests, Revoke(q)
      PROVE  UNCHANGED ledgerVars /\ DOMAIN grants \subseteq DOMAIN grants'
             /\ \A g \in DOMAIN grants :
                  /\ grants'[g].runtime_id = grants[g].runtime_id
                  /\ grants'[g].agent_id = grants[g].agent_id
                  /\ grants'[g].actions = grants[g].actions
                  /\ ~ grants[g].active => ~ grants'[g].active
  <2>1. \A g \in DOMAIN grants : grants[g] \in Grant
    BY DEF AppTypeOK
  <2>2. UNCHANGED ledgerVars /\ grants' = [grants EXCEPT ![q.grant_id].active = FALSE]
    BY <1>2 DEF Revoke
  <2>. QED BY <2>1, <2>2 DEF Grant
<1>3. ASSUME NEW q \in ServerRequests, Deny(q) PROVE UNCHANGED <<ledgerVars, grants>>
  BY <1>3 DEF Deny
<1>4. ASSUME UNCHANGED appVars PROVE UNCHANGED <<ledgerVars, grants>>
  BY <1>4 DEF appVars, stateVars
<1>5. ASSUME NEW q \in ServerRequests, Handle(q)
      PROVE  \/ \E p \in ServerRequests : CreateComment(p)
             \/ UNCHANGED ledgerVars /\ DOMAIN grants \subseteq DOMAIN grants'
                /\ \A g \in DOMAIN grants :
                     /\ grants'[g].runtime_id = grants[g].runtime_id
                     /\ grants'[g].agent_id = grants[g].agent_id
                     /\ grants'[g].actions = grants[g].actions
                     /\ ~ grants[g].active => ~ grants'[g].active
  <2>2. CASE CreateComment(q)
    BY <2>2
  <2>3. CASE IssueGrant(q)
    BY <1>1, <2>3
  <2>4. CASE Revoke(q)
    BY <1>2, <2>4
  <2>5. CASE Deny(q)
    BY <1>3, <2>5
  <2>6. CASE CredentialGenerationFailed(q) \/ Answer(q)
    BY <1>4, <2>6 DEF CredentialGenerationFailed, Answer
  <2>. QED BY <1>5, <2>2, <2>3, <2>4, <2>5, <2>6 DEF Handle
<1>. QED BY <1>4, <1>5 DEF ServerNext

\* A new server has an empty, agreeing ledger.
LEMMA InvInit == AppInit => AppIInv
<1>. SUFFICES ASSUME AppInit PROVE AppIInv
  OBVIOUS
<1>1. /\ comments = <<>> /\ receipts = <<>> /\ next_receipt = 0
      /\ idempotency = <<>> /\ executions = <<>>
  BY DEF AppInit
<1>2. DOMAIN receipts = {} /\ DOMAIN idempotency = {} /\ DOMAIN executions = {}
      /\ Len(receipts) = 0 /\ Len(comments) = 0
  BY <1>1
<1>3. LedgerAgrees
  BY <1>1, <1>2 DEF LedgerAgrees
<1>. QED BY <1>2, <1>3, AppTypeInit DEF AppIInv, EffectsHappenOnce, EffectsAreDelegated

\* A created comment shares no scope with an earlier one, and stands under the
\* grant it was admitted by.
LEMMA CreatedOnce ==
  ASSUME NEW q \in ServerRequests, CreateComment(q), AppIInv
  PROVE  EffectsHappenOnce' /\ EffectsAreDelegated'
<1>. USE DEF AppIInv
<1>. PICK n : n = Len(receipts) + 1
  OBVIOUS
<1>1. /\ DOMAIN receipts' = DOMAIN receipts \cup {n}
      /\ receipts'[n] = [receipt_id |-> n, execution_hash |-> ExecutionHash(q),
                         comment_id |-> n]
      /\ \A i \in DOMAIN receipts : receipts'[i] = receipts[i]
  BY CreatedState
<1>2. /\ Settled(n)' = ExecutionHash(q)
      /\ \A i \in DOMAIN receipts : Settled(i)' = Settled(i)
  BY <1>1 DEF Settled
<1>3. Decision(q) = "created" /\ UNCHANGED grants
  BY DEF CreateComment
<1>4. /\ IdempotencyScope(q) \notin DOMAIN idempotency
      /\ ExecutionScope(q) \notin DOMAIN executions
      /\ q.grant_id \in DOMAIN grants
      /\ DelegateMatches(q)
      /\ q.action_id \in grants[q.grant_id].actions
  BY <1>3, InvokeAdmitted
<1>5. \A i \in DOMAIN receipts : /\ IdempotencyScope(Settled(i)) \in DOMAIN idempotency
                                 /\ ExecutionScope(Settled(i)) \in DOMAIN executions
  BY DEF LedgerAgrees
<1>6. /\ IdempotencyScope(ExecutionHash(q)) = IdempotencyScope(q)
      /\ ExecutionScope(ExecutionHash(q)) = ExecutionScope(q)
  BY HashScopes
<1>7. ASSUME NEW i \in DOMAIN receipts', NEW j \in DOMAIN receipts', i # j
      PROVE  /\ IdempotencyScope(Settled(i)') # IdempotencyScope(Settled(j)')
             /\ ExecutionScope(Settled(i)') # ExecutionScope(Settled(j)')
  <2>1. CASE i = n
    <3>1. j \in DOMAIN receipts
      BY <1>1, <1>7, <2>1
    <3>2. Settled(j)' = Settled(j) /\ Settled(i)' = ExecutionHash(q)
      BY <1>2, <2>1, <3>1
    <3>. QED BY <1>4, <1>5, <1>6, <3>1, <3>2
  <2>2. CASE j = n
    <3>1. i \in DOMAIN receipts
      BY <1>1, <1>7, <2>2
    <3>2. Settled(i)' = Settled(i) /\ Settled(j)' = ExecutionHash(q)
      BY <1>2, <2>2, <3>1
    <3>. QED BY <1>4, <1>5, <1>6, <3>1, <3>2
  <2>3. CASE i # n /\ j # n
    <3>1. i \in DOMAIN receipts /\ j \in DOMAIN receipts
      BY <1>1, <2>3
    <3>2. Settled(i)' = Settled(i) /\ Settled(j)' = Settled(j)
      BY <1>2, <3>1
    <3>. QED BY <1>7, <3>1, <3>2 DEF EffectsHappenOnce
  <2>. QED BY <2>1, <2>2, <2>3
<1>8. EffectsHappenOnce'
  BY <1>7 DEF EffectsHappenOnce, IdempotencyScope, ExecutionScope
<1>9. ASSUME NEW i \in DOMAIN receipts'
      PROVE  /\ Settled(i)'.grant_id \in DOMAIN grants
             /\ grants[Settled(i)'.grant_id].runtime_id = Settled(i)'.runtime_id
             /\ grants[Settled(i)'.grant_id].agent_id = Settled(i)'.agent_id
             /\ Settled(i)'.action_id \in grants[Settled(i)'.grant_id].actions
  <2>1. CASE i = n
    <3>1. Settled(i)' = ExecutionHash(q)
      BY <1>2, <2>1
    <3>. QED BY <1>4, <3>1 DEF DelegateMatches, ExecutionHash
  <2>2. CASE i \in DOMAIN receipts
    <3>1. Settled(i)' = Settled(i)
      BY <1>2, <2>2
    <3>. QED BY <2>2, <3>1 DEF EffectsAreDelegated
  <2>. QED BY <1>1, <2>1, <2>2
<1>10. EffectsAreDelegated'
  BY <1>3, <1>9 DEF EffectsAreDelegated
<1>. QED BY <1>8, <1>10

\* Every step keeps the invariant.
LEMMA InvNext == AppIInv /\ [ServerNext]_appVars => AppIInv'
<1>. SUFFICES ASSUME AppIInv, [ServerNext]_appVars PROVE AppIInv'
  OBVIOUS
<1>1. AppTypeOK /\ AppTypeOK'
  BY AppTypeNext DEF AppIInv
<1>2. CASE \E q \in ServerRequests : CreateComment(q)
  BY <1>1, <1>2, CreatedAgrees, CreatedOnce DEF AppIInv
<1>3. ASSUME UNCHANGED ledgerVars, DOMAIN grants \subseteq DOMAIN grants',
             \A g \in DOMAIN grants : /\ grants'[g].runtime_id = grants[g].runtime_id
                                      /\ grants'[g].agent_id = grants[g].agent_id
                                      /\ grants'[g].actions = grants[g].actions
      PROVE  AppIInv'
  <2>1. /\ UNCHANGED <<comments, receipts, next_receipt, idempotency, executions>>
        /\ \A i : Settled(i)' = Settled(i)
    BY <1>3 DEF ledgerVars, Settled
  <2>2. LedgerAgrees' /\ EffectsHappenOnce'
    BY <2>1 DEF AppIInv, LedgerAgrees, EffectsHappenOnce, IdempotencyScope, ExecutionScope
  <2>3. EffectsAreDelegated'
    BY <1>3, <2>1 DEF AppIInv, EffectsAreDelegated
  <2>. QED BY <1>1, <2>2, <2>3 DEF AppIInv
<1>4. CASE Restart
  <2>1. /\ comments' = <<>> /\ receipts' = <<>> /\ next_receipt' = 0
        /\ idempotency' = <<>> /\ executions' = <<>>
    BY <1>4 DEF Restart
  <2>2. DOMAIN receipts' = {} /\ DOMAIN idempotency' = {} /\ DOMAIN executions' = {}
        /\ Len(receipts') = 0 /\ Len(comments') = 0
    BY <2>1
  <2>3. LedgerAgrees'
    BY <2>1, <2>2 DEF LedgerAgrees
  <2>. QED BY <1>1, <2>2, <2>3 DEF AppIInv, EffectsHappenOnce, EffectsAreDelegated
<1>. QED BY <1>1, <1>2, <1>3, <1>4, OtherSteps

\* The inductive invariant holds in every reachable state.
THEOREM AppInvariant == AppSpec => []AppIInv
BY InvInit, InvNext, AppNextIsServerNext, PTL DEF AppSpec

\* No two performed effects share an idempotency key or an execution identifier
\* under one grant and action, for any number of grants, requests and restarts.
THEOREM EffectsOnce == AppSpec => []EffectsHappenOnce
<1>1. AppIInv => EffectsHappenOnce
  BY DEF AppIInv
<1>. QED BY <1>1, AppInvariant, PTL

\* The comment list, the receipt list and both tables always tell one story.
THEOREM LedgersAgree == AppSpec => []LedgerAgrees
<1>1. AppIInv => LedgerAgrees
  BY DEF AppIInv
<1>. QED BY <1>1, AppInvariant, PTL

\* Every effect stands under a grant issued to the delegate it is recorded for.
THEOREM EffectsDelegated == AppSpec => []EffectsAreDelegated
<1>1. AppIInv => EffectsAreDelegated
  BY DEF AppIInv
<1>. QED BY <1>1, AppInvariant, PTL

\* The table entry a replay finds is the effect it repeats.
LEMMA ReplayIsRecorded ==
  ASSUME AppIInv, NEW q \in ServerRequests, Decision(q) = "replayed"
  PROVE  \E i \in DOMAIN receipts :
           /\ Response(q) = [ok |-> TRUE,
                             result |-> [action_id |-> COMMENT_ACTION, comment |-> comments[i],
                                         receipt |-> receipts[i]]]
           /\ Settled(i) = ExecutionHash(q)
<1>1. IsReplay(q)
  BY InvokeAdmitted DEF AppIInv
<1>2. /\ IdempotencyScope(q) \in DOMAIN idempotency
      /\ idempotency[IdempotencyScope(q)].execution_hash = ExecutionHash(q)
  BY <1>1 DEF IsReplay
<1>3. PICK i \in DOMAIN receipts :
        idempotency[IdempotencyScope(q)] =
          [input_hash |-> Settled(i).input_hash, execution_hash |-> Settled(i),
           response |-> [action_id |-> COMMENT_ACTION, comment |-> comments[i],
                         receipt |-> receipts[i]]]
  BY <1>2 DEF AppIInv, LedgerAgrees
<1>4. Response(q) = [ok |-> TRUE, result |-> Recorded(q)]
  BY DEF Response, Denials, UncountedErrors
<1>5. Settled(i) = ExecutionHash(q)
  BY <1>2, <1>3
<1>6. Recorded(q) = [action_id |-> COMMENT_ACTION, comment |-> comments[i],
                     receipt |-> receipts[i]]
  BY <1>3 DEF Recorded
<1>. QED BY <1>4, <1>5, <1>6

\* A replayed invocation is always answered with its own comment and receipt.
THEOREM ReplaysFaithful == AppSpec => []ReplaysAnswerTheOriginal
<1>1. AppIInv => ReplaysAnswerTheOriginal
  <2>. SUFFICES ASSUME AppIInv, NEW q \in Requests, Decision(q) = "replayed"
       PROVE  \E i \in DOMAIN receipts :
                /\ Response(q).result.receipt = receipts[i]
                /\ Response(q).result.comment = comments[i]
                /\ Settled(i) = ExecutionHash(q)
    BY DEF ReplaysAnswerTheOriginal
  <2>. QED BY ReplayIsRecorded, RequestsAssumption
<1>. QED BY <1>1, AppInvariant, PTL

\* The four together: the ledger is sound for any constants, requests and
\* restarts.
THEOREM LedgerSound == AppSpec => []LedgerIsSound
BY EffectsOnce, LedgersAgree, EffectsDelegated, ReplaysFaithful, PTL DEF LedgerIsSound

----------------------------------------------------------------------------
(****************************************************************************)
(* What a step may never do.                                                *)
(****************************************************************************)

\* While the server lives, its lists only grow at the end and no recorded
\* answer changes.
THEOREM LedgerAppendOnly == AppSpec => LedgerIsAppendOnly
<1>. DEFINE Grows ==
       /\ Len(receipts') >= Len(receipts)
       /\ \A i \in DOMAIN receipts : receipts'[i] = receipts[i] /\ comments'[i] = comments[i]
       /\ \A s \in DOMAIN idempotency :
            s \in DOMAIN idempotency' /\ idempotency'[s] = idempotency[s]
<1>1. ASSUME AppIInv, [ServerNext]_appVars PROVE Restart \/ Grows
  <2>1. AppTypeOK /\ LedgerAgrees /\ Len(receipts) \in Nat
    BY <1>1 DEF AppIInv, AppTypeOK
  <2>2. CASE UNCHANGED ledgerVars
    BY <2>1, <2>2 DEF ledgerVars
  <2>3. ASSUME NEW q \in ServerRequests, CreateComment(q) PROVE Grows
    <3>1. /\ Len(receipts') = Len(receipts) + 1
          /\ \A i \in DOMAIN receipts :
               receipts'[i] = receipts[i] /\ comments'[i] = comments[i]
      BY <2>1, <2>3, CreatedState
    <3>2. IdempotencyScope(q) \notin DOMAIN idempotency
      BY <2>1, <2>3, InvokeAdmitted DEF CreateComment
    <3>3. \A s \in DOMAIN idempotency :
            s \in DOMAIN idempotency' /\ idempotency'[s] = idempotency[s]
      BY <2>3, <3>2 DEF CreateComment, Put
    <3>. QED BY <2>1, <3>1, <3>3
  <2>. QED BY <1>1, <2>1, <2>2, <2>3, OtherSteps
<1>2. AppIInv /\ [ServerNext]_appVars => [Restart \/ Grows]_appVars
  BY <1>1
<1>. QED BY <1>2, AppInvariant, AppNextIsServerNext, PTL DEF AppSpec, LedgerIsAppendOnly

\* Once a grant is revoked no effect is ever added under it, in whatever order
\* requests and revocations arrive.
THEOREM FenceHolds == AppSpec => RevocationFence
<1>. DEFINE Fenced ==
       \A g \in DOMAIN grants : ~ grants[g].active =>
         /\ g \in DOMAIN grants' /\ ~ grants'[g].active
         /\ \A i \in DOMAIN receipts' \ DOMAIN receipts :
              receipts'[i].execution_hash.grant_id # g
<1>1. ASSUME AppIInv, [ServerNext]_appVars PROVE Restart \/ Fenced
  <2>1. AppTypeOK /\ LedgerAgrees
    BY <1>1 DEF AppIInv
  <2>2. ASSUME UNCHANGED ledgerVars, DOMAIN grants \subseteq DOMAIN grants',
               \A g \in DOMAIN grants : ~ grants[g].active => ~ grants'[g].active
        PROVE  Fenced
    BY <2>2 DEF ledgerVars
  <2>3. ASSUME NEW q \in ServerRequests, CreateComment(q) PROVE Fenced
    <3>. PICK n : n = Len(receipts) + 1
      OBVIOUS
    <3>1. /\ DOMAIN receipts' = DOMAIN receipts \cup {n}
          /\ receipts'[n] = [receipt_id |-> n, execution_hash |-> ExecutionHash(q),
                             comment_id |-> n]
      BY <2>1, <2>3, CreatedState
    <3>2. UNCHANGED grants /\ grants[q.grant_id].active
      BY <2>1, <2>3, InvokeAdmitted DEF CreateComment
    <3>3. receipts'[n].execution_hash.grant_id = q.grant_id
      BY <3>1 DEF ExecutionHash
    <3>. QED BY <3>1, <3>2, <3>3
  <2>. QED BY <1>1, <2>1, <2>2, <2>3, OtherSteps
<1>2. AppIInv /\ [ServerNext]_appVars => [Restart \/ Fenced]_appVars
  BY <1>1
<1>. QED BY <1>2, AppInvariant, AppNextIsServerNext, PTL DEF AppSpec, RevocationFence

----------------------------------------------------------------------------
(****************************************************************************)
(* Refinement.                                                              *)
(****************************************************************************)

\* A new server is an empty abstract ledger.
LEMMA LedgerInit == AppInit => Ledger!Init
BY DEF AppInit, Ledger!Init

\* A created comment settles its execution in the abstract ledger.
LEMMA CreatedSettles ==
  ASSUME NEW q \in ServerRequests, CreateComment(q), AppIInv
  PROVE  Ledger!Settle(ExecutionHash(q)) /\ ExecutionHash(q) \in ExecutionHashes
<1>. USE DEF AppIInv
<1>. PICK n : n = Len(receipts) + 1
  OBVIOUS
<1>1. /\ DOMAIN receipts' = DOMAIN receipts \cup {n}
      /\ receipts'[n] = [receipt_id |-> n, execution_hash |-> ExecutionHash(q),
                         comment_id |-> n]
      /\ \A i \in DOMAIN receipts : receipts'[i] = receipts[i]
  BY CreatedState
<1>2. Decision(q) = "created" /\ UNCHANGED grants
  BY DEF CreateComment
<1>3. /\ IdempotencyScope(q) \notin DOMAIN idempotency
      /\ ExecutionScope(q) \notin DOMAIN executions
      /\ q.grant_id \in DOMAIN grants
      /\ grants[q.grant_id].active
      /\ DelegateMatches(q)
      /\ q.action_id \in grants[q.grant_id].actions
      /\ ExecutionHash(q) \in ExecutionHashes
  BY <1>2, InvokeAdmitted
<1>4. {receipts'[i].execution_hash : i \in DOMAIN receipts'}
        = {receipts[i].execution_hash : i \in DOMAIN receipts} \cup {ExecutionHash(q)}
  BY <1>1
<1>5. ASSUME NEW i \in DOMAIN receipts
      PROVE  ~ Ledger!Clash(ExecutionHash(q), receipts[i].execution_hash)
  <2>1. /\ IdempotencyScope(Settled(i)) # IdempotencyScope(q)
        /\ ExecutionScope(Settled(i)) # ExecutionScope(q)
    BY <1>3 DEF LedgerAgrees
  <2>. QED
    BY <2>1 DEF Ledger!Clash, Settled, IdempotencyScope, ExecutionScope, ExecutionHash
<1>6. Ledger!Delegated(ExecutionHash(q))
  BY <1>3 DEF Ledger!Delegated, DelegateMatches, ExecutionHash
<1>7. q.grant_id = ExecutionHash(q).grant_id
  BY DEF ExecutionHash
<1>. QED BY <1>2, <1>3, <1>4, <1>5, <1>6, <1>7 DEF Ledger!Settle, Settled

\* A granted request issues its delegation in the abstract ledger.
LEMMA GrantIssues ==
  ASSUME NEW q \in ServerRequests, IssueGrant(q), AppIInv
  PROVE  \E g \in GrantIds, d \in [runtime_id : Runtimes, agent_id : Agents,
                                   actions : SUBSET Actions] : Ledger!Issue(g, d)
<1>. DEFINE g == NewGrantId
            d == [runtime_id |-> q.runtime_id, agent_id |-> q.agent_id, actions |-> q.actions]
<1>1. /\ Decision(q) = "granted"
      /\ UNCHANGED <<receipts, idempotency, executions>>
      /\ drawn < MaxCredentials
      /\ grants' = Put(grants, NewGrantId,
                       [runtime_id |-> q.runtime_id, agent_id |-> q.agent_id,
                        credential |-> NewCredential, actions |-> q.actions,
                        active |-> TRUE])
  BY DEF IssueGrant, ledgerVars
<1>2. d \in [runtime_id : Runtimes, agent_id : Agents, actions : SUBSET Actions]
  BY <1>1, IssueAdmitted
<1>3. g \in GrantIds /\ g \notin DOMAIN grants
  BY <1>1, BoundsAssumption DEF NewGrantId, GrantIds, AppIInv, AppTypeOK
<1>4. /\ DOMAIN grants' = DOMAIN grants \cup {g}
      /\ grants'[g].runtime_id = q.runtime_id
      /\ grants'[g].agent_id = q.agent_id
      /\ grants'[g].actions = q.actions
      /\ grants'[g].active
      /\ \A x \in DOMAIN grants : grants'[x] = grants[x]
  BY <1>1, <1>3 DEF Put
<1>. HIDE DEF g
<1>5. \A x \in DOMAIN grants' :
        [runtime_id |-> grants'[x].runtime_id, agent_id |-> grants'[x].agent_id,
         actions |-> grants'[x].actions]
          = IF x = g THEN d
            ELSE [runtime_id |-> grants[x].runtime_id, agent_id |-> grants[x].agent_id,
                  actions |-> grants[x].actions]
  BY <1>4
<1>6. {x \in DOMAIN grants' : ~ grants'[x].active} = {x \in DOMAIN grants : ~ grants[x].active}
  BY <1>3, <1>4
<1>7. Ledger!Issue(g, d)
  <2>. DEFINE before == [x \in DOMAIN grants |->
                          [runtime_id |-> grants[x].runtime_id,
                           agent_id |-> grants[x].agent_id, actions |-> grants[x].actions]]
              after == [x \in DOMAIN grants' |->
                          [runtime_id |-> grants'[x].runtime_id,
                           agent_id |-> grants'[x].agent_id, actions |-> grants'[x].actions]]
  <2>. HIDE DEF d
  <2>1. after = [x \in DOMAIN before \cup {g} |-> IF x = g THEN d ELSE before[x]]
    BY <1>3, <1>4, <1>5
  <2>2. {receipts'[i].execution_hash : i \in DOMAIN receipts'}
          = {receipts[i].execution_hash : i \in DOMAIN receipts}
    BY <1>1
  <2>. QED BY <1>3, <1>6, <2>1, <2>2 DEF Ledger!Issue, Settled
<1>. QED BY <1>2, <1>3, <1>7

\* An established fence is a fence of the abstract ledger.
LEMMA RevokeFences ==
  ASSUME NEW q \in ServerRequests, Revoke(q), AppIInv
  PROVE  \E g \in GrantIds : Ledger!Fence(g)
<1>1. q.grant_id \in DOMAIN grants
  BY RevokeAdmitted DEF Revoke
<1>2. q.grant_id \in GrantIds
  BY <1>1, BoundsAssumption DEF AppIInv, AppTypeOK, GrantIds
<1>3. \A g \in DOMAIN grants : grants[g] \in Grant
  BY DEF AppIInv, AppTypeOK
<1>4. grants' = [grants EXCEPT ![q.grant_id].active = FALSE] /\ UNCHANGED receipts
  BY DEF Revoke, ledgerVars
<1>5. /\ DOMAIN grants' = DOMAIN grants
      /\ \A g \in DOMAIN grants : /\ grants'[g].runtime_id = grants[g].runtime_id
                                  /\ grants'[g].agent_id = grants[g].agent_id
                                  /\ grants'[g].actions = grants[g].actions
      /\ ~ grants'[q.grant_id].active
      /\ \A g \in DOMAIN grants \ {q.grant_id} : grants'[g] = grants[g]
  BY <1>1, <1>3, <1>4 DEF Grant
<1>6. {g \in DOMAIN grants' : ~ grants'[g].active}
        = {g \in DOMAIN grants : ~ grants[g].active} \cup {q.grant_id}
  BY <1>1, <1>5
<1>7. Ledger!Fence(q.grant_id)
  BY <1>1, <1>4, <1>5, <1>6 DEF Ledger!Fence, Settled
<1>. QED BY <1>2, <1>7

\* Every step of the server is a step of the abstract ledger or leaves it.
LEMMA LedgerNext ==
  ASSUME AppIInv, [ServerNext]_appVars
  PROVE  Ledger!Next \/ UNCHANGED Ledger!ledger
<1>1. ASSUME UNCHANGED <<receipts, grants>> PROVE UNCHANGED Ledger!ledger
  BY <1>1 DEF Ledger!ledger, Settled
<1>2. CASE UNCHANGED appVars
  BY <1>1, <1>2 DEF appVars, stateVars, ledgerVars
<1>3. CASE Restart
  <2>1. receipts' = <<>> /\ grants' = <<>>
    BY <1>3 DEF Restart
  <2>2. Ledger!Forget
    BY <2>1 DEF Ledger!Forget
  <2>. QED BY <2>2 DEF Ledger!Next
<1>4. ASSUME NEW q \in ServerRequests, Handle(q) PROVE Ledger!Next \/ UNCHANGED Ledger!ledger
  <2>2. CASE CreateComment(q)
    BY <2>2, CreatedSettles DEF Ledger!Next
  <2>3. CASE IssueGrant(q)
    BY <2>3, GrantIssues DEF Ledger!Next
  <2>4. CASE Revoke(q)
    BY <2>4, RevokeFences DEF Ledger!Next
  <2>5. CASE CredentialGenerationFailed(q) \/ Deny(q) \/ Answer(q)
    <3>1. UNCHANGED <<receipts, grants>>
      BY <2>5 DEF CredentialGenerationFailed, Deny, Answer, appVars, stateVars, ledgerVars
    <3>. QED BY <1>1, <3>1
  <2>. QED BY <1>4, <2>2, <2>3, <2>4, <2>5 DEF Handle
<1>. QED BY <1>2, <1>3, <1>4 DEF ServerNext

\* The server implements the abstract effect ledger: exactly-once effects under
\* issued, unfenced delegations, for every value of the constants.
THEOREM ServerImplementsLedger == AppSpec => ImplementsLedger
<1>1. AppIInv /\ [ServerNext]_appVars => [Ledger!Next]_(Ledger!ledger)
  BY LedgerNext
<1>. QED BY <1>1, LedgerInit, AppInvariant, AppNextIsServerNext, PTL DEF AppSpec, ImplementsLedger, Ledger!Spec
=============================================================================
