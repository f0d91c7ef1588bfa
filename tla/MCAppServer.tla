---------------------------- MODULE MCAppServer ----------------------------
(****************************************************************************)
(* AppServer on small sets.  The requests are every combination of grant,   *)
(* credential, agent, key, execution and input that a delegate of this      *)
(* application could send for comment.create, and one of each kind of       *)
(* request with a defect.                                                   *)
(****************************************************************************)
EXTENDS AppServer

Invocation(g, c, a, x, k, i) ==
  [operation |-> "invoke", protocol |-> TRUE, request_id |-> TRUE, execution_id |-> x,
   runtime_id |-> CHOOSE r \in Runtimes : TRUE, grant_id |-> g, agent_id |-> a,
   credential |-> c, action_id |-> COMMENT_ACTION, idempotency_key |-> k, input |-> i]

Proper ==
  {Invocation(g, c, a, x, k, i) : g \in GrantIds, c \in Credentials, a \in Agents,
                                  x \in Executions, k \in Keys, i \in Inputs}

Sample == CHOOSE q \in Proper : q.grant_id = 1 /\ q.credential = 1

Defective ==
  {[Sample EXCEPT !.protocol = FALSE],
   [Sample EXCEPT !.request_id = FALSE],
   [Sample EXCEPT !.execution_id = None],
   [Sample EXCEPT !.credential = None],
   [Sample EXCEPT !.idempotency_key = None],
   [Sample EXCEPT !.input = BadInput],
   [Sample EXCEPT !.action_id = READ_ACTION],
   [Sample EXCEPT !.action_id = "unpublished"]}

Issues ==
  [operation : {"issue_grant"}, control : {TRUE}, runtime_id : Runtimes,
   agent_id : Agents, actions : {{READ_ACTION}, Actions}]

BadIssues ==
  LET good == CHOOSE q \in Issues : TRUE IN
  {[good EXCEPT !.control = FALSE], [good EXCEPT !.agent_id = None],
   [good EXCEPT !.actions = {}], [good EXCEPT !.actions = ActionNames]}

MCRequests ==
  Proper \cup Defective \cup Issues \cup BadIssues \cup RevokeRequests \cup OtherRequests
=============================================================================
