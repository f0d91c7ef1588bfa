---------------------------- MODULE VerticalSlice ----------------------------
(****************************************************************************)
(* The two-lane vertical slice as processes: agents, the runtime that       *)
(* mediates for each agent, the application server, its control client, and *)
(* the connections between them.  Every exchange is one connection, one     *)
(* request line and at most one answer line; each waiting side has its own  *)
(* timeout, and none of them tells the other side it gave up.               *)
(*                                                                          *)
(* The runtimes and the application serve one connection at a time and take *)
(* the next from their listen queue.  A request whose client has gone stays *)
(* in the queue and is served like any other.                               *)
(****************************************************************************)
EXTENDS AppServer

CONSTANTS
  AgentOf,         \* the agent the private configuration binds a runtime to
  Attempts,        \* the requests an agent may make of its runtime
  Operator,        \* the control client
  MaxExchanges,    \* bound on the exchanges of one agent
  MaxStray,        \* bound on the stray connections in the server's queue
  MaxBacklog       \* bound on the server's queue before new control requests

Exchanges == Agents \X (1 .. MaxExchanges)

AttemptType ==
  [execution_id : Executions, idempotency_key : Keys, input : Inputs \cup {BadInput},
   defect : {"none", "credential", "session_proof", "agent_id", "shape"}]

\* What the control client may be waiting for.
Asks == [request : ServerRequests, subject : Runtimes \cup Credentials \cup {None}]

\* A runtime mediates for one agent, and every agent of the slice has its runtime.
ASSUME SliceAssumption ==
  /\ AgentOf \in [Runtimes -> Agents]
  /\ \A r, s \in Runtimes : AgentOf[r] = AgentOf[s] => r = s
  /\ \A a \in Agents : \E r \in Runtimes : AgentOf[r] = a
  /\ Attempts \subseteq AttemptType
  /\ Operator \notin Runtimes \cup {None}
  /\ None \notin Exchanges /\ None \notin Asks
  /\ MaxExchanges \in Nat
  /\ MaxStray \in Nat
  /\ MaxBacklog \in Nat

VARIABLES
  config,      \* runtime -> the grant in its private configuration, or None
  inbox,       \* runtime -> the exchanges in its listen queue
  serving,     \* runtime -> the exchange it has forwarded, or None
  answer,      \* runtime -> the application's answer it has not read yet, or None
  asked,       \* exchange -> what the agent asked, or None
  outcome,     \* exchange -> "unsent", "waiting", "lost" or the runtime's answer
  backlog,     \* the application's listen queue
  app_pc,      \* "accepting", "saving", "stopping" (saving for the last time), "down"
  state_file,  \* the public state last published, or None
  asking,      \* the control request in progress, or None
  verdict      \* the application's answer to it, or None

\* History: the credential each exchange was forwarded with, the value of
\* drawn when this life of the server began, every effect of every life, and
\* the credentials whose revocation the operator has seen confirmed.
VARIABLES used, born, performed, fence_seen

runtimeVars  == <<config, inbox, serving, answer>>
agentVars    == <<asked, outcome>>
serverVars   == <<backlog, app_pc, state_file>>
operatorVars == <<asking, verdict, fence_seen>>
historyVars  == <<used, born, performed>>
vars == <<appVars, runtimeVars, agentVars, serverVars, operatorVars, historyVars>>

RuntimeOf(a) == CHOOSE r \in Runtimes : AgentOf[r] = a
IsAnswer(o)  == o.status \in {"completed", "rejected", "error"}

Init ==
  /\ AppInit
  /\ config = [r \in Runtimes |-> None]
  /\ inbox = [r \in Runtimes |-> <<>>]
  /\ serving = [r \in Runtimes |-> None]
  /\ answer = [r \in Runtimes |-> None]
  /\ asked = [e \in Exchanges |-> None]
  /\ outcome = [e \in Exchanges |-> [status |-> "unsent"]]
  /\ backlog = <<>>
  /\ app_pc = "saving"
  /\ state_file = None
  /\ asking = None
  /\ verdict = None
  /\ used = [e \in Exchanges |-> 0]
  /\ born = 0
  /\ performed = {}
  /\ fence_seen = {}

----------------------------------------------------------------------------
(****************************************************************************)
(* Agents.                                                                  *)
(****************************************************************************)
AgentSend(e, w) ==
  LET r == RuntimeOf(e[1]) IN
  /\ outcome[e].status = "unsent"
  /\ \A n \in 1 .. e[2] - 1 : outcome[<<e[1], n>>].status \notin {"unsent", "waiting"}
  /\ config[r] # None
  /\ asked' = [asked EXCEPT ![e] = w]
  /\ outcome' = [outcome EXCEPT ![e] = [status |-> "waiting"]]
  /\ inbox' = [inbox EXCEPT ![r] = Append(@, e)]
  /\ UNCHANGED <<appVars, config, serving, answer, serverVars, operatorVars, historyVars>>

\* The timeout of _exchange, or the runtime closing the connection: the agent
\* exits without an answer and closes its end.
AgentGiveUp(e) ==
  /\ outcome[e].status = "waiting"
  /\ outcome' = [outcome EXCEPT ![e] = [status |-> "lost"]]
  /\ UNCHANGED <<appVars, runtimeVars, asked, serverVars, operatorVars, historyVars>>

----------------------------------------------------------------------------
(****************************************************************************)
(* Runtimes.                                                                *)
(****************************************************************************)
Completed(response) == [status |-> "completed", forwarded |-> TRUE, result |-> response]
\* Mutated form: every error is reported as a rejection.
WireErrorAsRejection(forwarded) == [status |-> "rejected", forwarded |-> FALSE]

WireError(forwarded) ==
  [status |-> IF forwarded THEN "error" ELSE "rejected", forwarded |-> forwarded]

\* sendall of the answer: it reaches the agent only while the agent waits.
Reply(e, reply) ==
  outcome' = [outcome EXCEPT ![e] = IF @.status = "waiting" THEN reply ELSE @]

\* Mutated form: a runtime takes the late answer for that to its next request.
AbandonedIsKept(client) ==
  [i \in DOMAIN backlog |->
     IF client = Operator /\ backlog[i].client = client
     THEN [backlog[i] EXCEPT !.client = None] ELSE backlog[i]]

\* The client of a queued connection is gone; the connection stays queued.
Abandoned(client) ==
  [i \in DOMAIN backlog |->
     IF backlog[i].client = client THEN [backlog[i] EXCEPT !.client = None] ELSE backlog[i]]

CanAccept(r) == serving[r] = None /\ inbox[r] # <<>>

\* _agent_request refuses the line before anything is sent to the application.
RuntimeReject(r) ==
  LET e == Head(inbox[r]) IN
  /\ CanAccept(r)
  /\ asked[e].defect # "none"
  /\ Reply(e, WireError(FALSE))
  /\ inbox' = [inbox EXCEPT ![r] = Tail(@)]
  /\ UNCHANGED <<appVars, config, serving, answer, asked, serverVars, operatorVars,
                 historyVars>>

Outbound(r, e) ==
  [operation |-> "invoke", protocol |-> TRUE, request_id |-> TRUE,
   execution_id |-> asked[e].execution_id, runtime_id |-> r,
   grant_id |-> config[r].grant_id, agent_id |-> AgentOf[r],
   credential |-> config[r].credential, action_id |-> COMMENT_ACTION,
   idempotency_key |-> asked[e].idempotency_key, input |-> asked[e].input]

RuntimeForward(r) ==
  LET e == Head(inbox[r]) IN
  /\ CanAccept(r)
  /\ asked[e].defect = "none"
  /\ app_pc # "down"
  /\ backlog' = Append(backlog, [client |-> r, via |-> e, request |-> Outbound(r, e)])
  /\ serving' = [serving EXCEPT ![r] = e]
  /\ inbox' = [inbox EXCEPT ![r] = Tail(@)]
  /\ used' = [used EXCEPT ![e] = config[r].credential]
  /\ UNCHANGED <<appVars, config, answer, agentVars, app_pc, state_file, operatorVars,
                 born, performed>>

\* The connection to the application is refused.
RuntimeRefused(r) ==
  LET e == Head(inbox[r]) IN
  /\ CanAccept(r)
  /\ asked[e].defect = "none"
  /\ app_pc = "down"
  /\ Reply(e, WireError(TRUE))
  /\ inbox' = [inbox EXCEPT ![r] = Tail(@)]
  /\ UNCHANGED <<appVars, config, serving, answer, asked, serverVars, operatorVars,
                 historyVars>>

RuntimeRelay(r) ==
  /\ serving[r] # None
  /\ answer[r] # None
  /\ Reply(serving[r], Completed(answer[r]))
  /\ serving' = [serving EXCEPT ![r] = None]
  /\ answer' = [answer EXCEPT ![r] = None]
  /\ UNCHANGED <<appVars, config, inbox, asked, serverVars, operatorVars, historyVars>>

\* Mutated form: no timeout.
RuntimeNeverFails(r) == FALSE /\ UNCHANGED vars

\* The timeout of _send_to_app, a reset connection, or one closed without a
\* line.  The request may still be in the application's queue.
RuntimeFail(r) ==
  /\ serving[r] # None
  /\ answer[r] = None
  /\ Reply(serving[r], WireError(TRUE))
  /\ serving' = [serving EXCEPT ![r] = None]
  /\ backlog' = Abandoned(r)
  /\ UNCHANGED <<appVars, config, inbox, answer, asked, app_pc, state_file, operatorVars,
                 historyVars>>

----------------------------------------------------------------------------
(****************************************************************************)
(* The application process.                                                 *)
(****************************************************************************)
\* The answer line reaches whoever still holds the connection.
Deliver(client, response) ==
  /\ answer' = [r \in Runtimes |-> IF r = client THEN response ELSE answer[r]]
  /\ verdict' = IF client = Operator THEN response ELSE verdict

\* The answer `handle` gives q: its Response, unless no credential was drawn.
Responses(q) ==
  {IF Decision(q) = "granted" /\ drawn' = drawn
   THEN [ok |-> FALSE, error |-> "credential_generation_failed"] ELSE Response(q)}

\* A write to a client that has gone may fail, and then `serve_connection`
\* returns the error and the stop request with it is dropped.
MayStop(q, client) ==
  IF Decision(q) # "stopped" THEN {FALSE}
  ELSE IF client = None THEN {TRUE, FALSE} ELSE {TRUE}

Served(m) ==
  IF Len(receipts') > Len(receipts)
  THEN {[via |-> m.via, credential |-> m.request.credential,
         receipt |-> receipts'[Len(receipts')]]}
  ELSE {}

AppServe ==
  LET m == Head(backlog) IN
  /\ app_pc = "accepting"
  /\ backlog # <<>>
  /\ m.request # None
  /\ Handle(m.request)
  /\ \E response \in Responses(m.request) : Deliver(m.client, response)
  /\ \E stop \in MayStop(m.request, m.client) :
       app_pc' = IF stop THEN "stopping" ELSE "saving"
  /\ backlog' = Tail(backlog)
  /\ performed' = performed \cup Served(m)
  /\ UNCHANGED <<config, inbox, serving, agentVars, state_file, asking, fence_seen, used,
                 born>>

\* Mutated form: no read timeout.
AppDropNever == FALSE /\ UNCHANGED vars

\* A connection that sends nothing until the read timeout, or a line that is
\* not one bounded JSON request.
AppDrop ==
  /\ app_pc = "accepting"
  /\ backlog # <<>>
  /\ Head(backlog).request = None
  /\ app_pc' = "saving"
  /\ backlog' = Tail(backlog)
  /\ UNCHANGED <<appVars, runtimeVars, agentVars, state_file, operatorVars, historyVars>>

\* save_state after every connection: a temporary file renamed into place.
AppSave ==
  /\ app_pc \in {"saving", "stopping"}
  /\ state_file' = PublicState
  /\ app_pc' = IF app_pc = "saving" THEN "accepting" ELSE "down"
  /\ backlog' = IF app_pc = "saving" THEN backlog ELSE <<>>
  /\ UNCHANGED <<appVars, runtimeVars, agentVars, operatorVars, historyVars>>

\* A failed accept, a failed save_state or the end of the process.
AppCrash ==
  /\ app_pc # "down"
  /\ app_pc' = "down"
  /\ backlog' = <<>>
  /\ UNCHANGED <<appVars, runtimeVars, agentVars, state_file, operatorVars, historyVars>>

\* Mutated form: the initial state is not saved.
AppRestartUnsaved ==
  /\ app_pc = "down"
  /\ Restart
  /\ app_pc' = "accepting"
  /\ born' = drawn
  /\ UNCHANGED <<runtimeVars, agentVars, backlog, state_file, operatorVars, used, performed>>

\* The server is started again on its address and state file.
AppRestart ==
  /\ app_pc = "down"
  /\ Restart
  /\ app_pc' = "saving"
  /\ born' = drawn
  /\ UNCHANGED <<runtimeVars, agentVars, backlog, state_file, operatorVars, used, performed>>

StrayConnects ==
  /\ app_pc # "down"
  /\ Cardinality({i \in DOMAIN backlog : backlog[i].request = None}) < MaxStray
  /\ backlog' = Append(backlog, [client |-> None, via |-> None, request |-> None])
  /\ UNCHANGED <<appVars, runtimeVars, agentVars, app_pc, state_file, operatorVars,
                 historyVars>>

----------------------------------------------------------------------------
(****************************************************************************)
(* The control client.                                                      *)
(****************************************************************************)
OperatorSend(request, subject) ==
  /\ asking = None
  /\ app_pc # "down"
  /\ Len(backlog) < MaxBacklog
  /\ asking' = [request |-> request, subject |-> subject]
  /\ backlog' = Append(backlog, [client |-> Operator, via |-> None, request |-> request])
  /\ UNCHANGED <<appVars, runtimeVars, agentVars, app_pc, state_file, verdict, fence_seen,
                 historyVars>>

OperatorIssue(r) ==
  OperatorSend([operation |-> "issue_grant", control |-> TRUE, runtime_id |-> r,
                agent_id |-> AgentOf[r], actions |-> Actions], r)

OperatorRevoke(r) ==
  /\ config[r] # None
  /\ OperatorSend([operation |-> "revoke", control |-> TRUE,
                   grant_id |-> config[r].grant_id], config[r].credential)

OperatorShutdown ==
  OperatorSend([operation |-> "shutdown", control |-> TRUE], None)

\* An issued grant goes into the private configuration of a newly started
\* runtime, which replaces the one that ran before it.
OperatorProvision ==
  LET r == asking.subject IN
  /\ asking # None
  /\ verdict # None
  /\ asking.request.operation = "issue_grant"
  /\ verdict.ok
  /\ config' = [config EXCEPT ![r] = verdict.result]
  /\ inbox' = [inbox EXCEPT ![r] = <<>>]
  /\ serving' = [serving EXCEPT ![r] = None]
  /\ answer' = [answer EXCEPT ![r] = None]
  /\ backlog' = Abandoned(r)
  /\ asking' = None
  /\ verdict' = None
  /\ UNCHANGED <<appVars, agentVars, app_pc, state_file, fence_seen, historyVars>>

OperatorReceive ==
  /\ asking # None
  /\ verdict # None
  /\ ~ (asking.request.operation = "issue_grant" /\ verdict.ok)
  /\ fence_seen' = IF asking.request.operation = "revoke" /\ verdict.ok
                   THEN fence_seen \cup {asking.subject} ELSE fence_seen
  /\ asking' = None
  /\ verdict' = None
  /\ UNCHANGED <<appVars, runtimeVars, agentVars, serverVars, historyVars>>

OperatorGiveUp ==
  /\ asking # None
  /\ verdict = None
  /\ asking' = None
  /\ backlog' = Abandoned(Operator)
  /\ UNCHANGED <<appVars, runtimeVars, agentVars, app_pc, state_file, verdict, fence_seen,
                 historyVars>>

----------------------------------------------------------------------------
AgentStep   == \E e \in Exchanges : AgentGiveUp(e) \/ \E w \in Attempts : AgentSend(e, w)
RuntimeStep(r) ==
  RuntimeReject(r) \/ RuntimeForward(r) \/ RuntimeRefused(r) \/ RuntimeRelay(r) \/ RuntimeFail(r)
AppStep      == AppServe \/ AppDrop \/ AppSave
OperatorStep ==
  \/ \E r \in Runtimes : OperatorIssue(r) \/ OperatorRevoke(r)
  \/ OperatorShutdown
  \/ OperatorProvision
  \/ OperatorReceive
  \/ OperatorGiveUp

Next ==
  \/ AgentStep
  \/ \E r \in Runtimes : RuntimeStep(r)
  \/ AppStep
  \/ AppCrash
  \/ AppRestart
  \/ StrayConnects
  \/ OperatorStep

Spec == Init /\ [][Next]_vars

\* Every process is scheduled, and every timeout runs out.  Nothing obliges
\* the control client to act, an agent to ask, or the server to be restarted.
Fairness ==
  /\ WF_vars(AppStep)
  /\ \A r \in Runtimes : WF_vars(RuntimeStep(r))
  /\ \A e \in Exchanges : WF_vars(AgentGiveUp(e))

FairSpec == Spec /\ Fairness

----------------------------------------------------------------------------
Succeeded(e) ==
  outcome[e].status = "completed" /\ outcome[e].result.ok

\* What a listen queue of the application holds: a runtime's request, the
\* control client's, or a stray connection; a client that has gone is None.
Connections ==
  [client : Runtimes \cup {Operator, None}, via : Exchanges \cup {None},
   request : ServerRequests \cup {None}]

PrivateGrants == [grant_id : GrantIds, credential : Credentials]
Effects       == [via : Exchanges, credential : Credentials, receipt : Receipt]

\* The types of the processes and of what they hold.
SliceTypeOK ==
  /\ AppTypeOK
  /\ config \in [Runtimes -> PrivateGrants \cup {None}]
  /\ inbox \in [Runtimes -> Seq(Exchanges)]
  /\ serving \in [Runtimes -> Exchanges \cup {None}]
  /\ DOMAIN answer = Runtimes
  /\ asked \in [Exchanges -> Attempts \cup {None}]
  /\ DOMAIN outcome = Exchanges
  /\ backlog \in Seq(Connections)
  /\ app_pc \in {"accepting", "saving", "stopping", "down"}
  /\ asking \in Asks \cup {None}
  /\ used \in [Exchanges -> 0 .. drawn]
  /\ born \in 0 .. drawn
  /\ performed \subseteq Effects
  /\ fence_seen \subseteq Credentials

\* An agent told its action completed holds the comment and receipt of an
\* effect that was really performed, under the credential its own exchange was
\* forwarded with and for exactly what it asked, however many timeouts, retries
\* and restarts lie between.
SuccessMeansPerformed ==
  \A e \in Exchanges : Succeeded(e) =>
    LET result == outcome[e].result.result IN
    /\ \E p \in performed :
         /\ p.credential = used[e]
         /\ p.receipt = result.receipt
    /\ result.receipt.execution_hash.idempotency_key = asked[e].idempotency_key
    /\ result.receipt.execution_hash.execution_id = asked[e].execution_id
    /\ result.receipt.execution_hash.agent_id = e[1]
    /\ result.comment.content = asked[e].input

\* An exchange the runtime answered as not forwarded has had no effect and
\* never will; nor has one the application answered with an error.
RefusedMeansNoEffect ==
  \A p \in performed :
    LET o == outcome[p.via] IN
    IsAnswer(o) => o.forwarded /\ (o.status = "completed" => o.result.ok)

\* Over all lives of the server: one credential never has two effects for one
\* key, nor for one execution, although requests outlive their clients.
OneEffectPerAuthority ==
  \A p, q \in performed :
    p # q /\ p.credential = q.credential =>
      /\ p.receipt.execution_hash.idempotency_key # q.receipt.execution_hash.idempotency_key
      /\ p.receipt.execution_hash.execution_id # q.receipt.execution_hash.execution_id

\* Two exchanges under one credential that both succeed for one key hold the
\* same comment and the same receipt.
RetryGetsTheOriginal ==
  \A e, f \in Exchanges :
    /\ Succeeded(e) /\ Succeeded(f)
    /\ used[e] = used[f]
    /\ asked[e].idempotency_key = asked[f].idempotency_key
    => outcome[e].result = outcome[f].result

\* An agent is told of an idempotency conflict only when its own grant has had
\* an effect for that key or that execution: the same identifiers in the other
\* lane, or in an earlier life of the server, are no obstacle.
ConflictHasItsCause ==
  \A e \in Exchanges :
    /\ outcome[e].status = "completed"
    /\ ~ outcome[e].result.ok
    /\ outcome[e].result.error = "idempotency_conflict"
    => \E p \in performed :
         /\ p.credential = used[e]
         /\ \/ p.receipt.execution_hash.idempotency_key = asked[e].idempotency_key
            \/ p.receipt.execution_hash.execution_id = asked[e].execution_id

\* When the server takes its next connection the state file shows exactly the
\* state it will act on; it is behind only between an answer and the save that
\* follows it, or while the server is down.
FileCurrentWhenAccepting ==
  app_pc = "accepting" => state_file = PublicState

\* A revocation the operator has seen confirmed is final: no effect is added
\* under that credential afterwards, whatever is still queued, and neither the
\* restart of the server nor the reuse of its grant ids revives it.
ConfirmedFenceHolds ==
  [][\A p \in performed' \ performed : p.credential \notin fence_seen]_vars

\* A credential drawn in an earlier life of the server has no effect in a later
\* one, although the later one numbers its grants from one again.
AuthorityDiesWithItsServer ==
  [][\A p \in performed' \ performed : p.credential > born]_vars

\* Every request an agent manages to queue leaves the queue of its runtime, and
\* the runtime is done with it some time: no silent peer, lost answer or dead
\* application stops a lane.
LanesKeepMoving ==
  \A e \in Exchanges :
    LET r == RuntimeOf(e[1]) IN
    (serving[r] = e \/ \E i \in DOMAIN inbox[r] : inbox[r][i] = e)
      ~> (serving[r] # e /\ \A i \in DOMAIN inbox[r] : inbox[r][i] # e)

\* Whatever a runtime has sent leaves the server's queue, by being served or
\* with the process, although stray and abandoned connections queue as well.
QueueKeepsMoving ==
  \A e \in Exchanges :
    (\E i \in DOMAIN backlog : backlog[i].via = e)
      ~> (\A i \in DOMAIN backlog : backlog[i].via # e)
=============================================================================
