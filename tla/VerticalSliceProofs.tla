------------------------- MODULE VerticalSliceProofs -------------------------
(****************************************************************************)
(* Proofs about VerticalSlice, for every number of lanes, exchanges,        *)
(* requests, crashes and restarts.                                          *)
(*                                                                          *)
(* The inductive invariant SliceInv adds to the one of the application what *)
(* relates the processes: what is queued, what has been forwarded and under *)
(* which credential, what an answer in flight may say, and what the control *)
(* client may believe.  A step either serves one connection (AppServe),     *)
(* restarts the server, or leaves the application alone; only the first     *)
(* performs an effect.                                                      *)
(****************************************************************************)
EXTENDS VerticalSlice, AppServerProofs

----------------------------------------------------------------------------
(****************************************************************************)
(* The inductive invariant.                                                 *)
(****************************************************************************)

\* In the next operators P is what has been performed, w what exchange e asked
\* and u the credential it was forwarded with.

\* Request q is what the runtime makes of what exchange e asked.
Carries(e, q, u, w) ==
  /\ q \in ServerRequests
  /\ q.operation = "invoke"
  /\ q.action_id = COMMENT_ACTION
  /\ q.credential = u
  /\ q.agent_id = e[1]
  /\ q.execution_id = w.execution_id
  /\ q.idempotency_key = w.idempotency_key
  /\ q.input = w.input

\* Execution h is the one exchange e asked for.
AsAsked(e, h, w) ==
  /\ h.agent_id = e[1]
  /\ h.execution_id = w.execution_id
  /\ h.idempotency_key = w.idempotency_key
  /\ h.input_hash = w.input

\* The answer that reports the effect a receipt is for.
ResultOf(r) ==
  [action_id |-> COMMENT_ACTION,
   comment |-> [comment_id |-> r.comment_id, content |-> r.execution_hash.input_hash],
   receipt |-> r]

\* What may stand in an answer to exchange e.
Earned(e, a, P, u, w) ==
  \E p \in P :
    /\ p.credential = u
    /\ AsAsked(e, p.receipt.execution_hash, w)
    /\ a = [ok |-> TRUE, result |-> ResultOf(p.receipt)]

HasCause(P, u, w) ==
  \E p \in P :
    /\ p.credential = u
    /\ \/ p.receipt.execution_hash.idempotency_key = w.idempotency_key
       \/ p.receipt.execution_hash.execution_id = w.execution_id

NotPerformed(e, P) == \A p \in P : p.via # e

Fits(e, a, P, u, w) ==
  /\ a.ok => Earned(e, a, P, u, w)
  /\ ~ a.ok => NotPerformed(e, P)
  /\ ~ a.ok /\ a.error = "idempotency_conflict" => HasCause(P, u, w)

\* The credentials of one life are numbered as its grants are.
CredentialsNumberGrants ==
  /\ drawn = born + next_grant
  /\ \A g \in DOMAIN grants : grants[g].credential = born + g

\* Queue q of a runtime that mediates for agent a and holds grant c: every
\* exchange in it is that agent's, is queued once, and has not been forwarded
\* or answered, according to u and o.
InboxOK(q, a, c, u, o) ==
  \A i \in DOMAIN q :
    /\ q[i][1] = a
    /\ c # None
    /\ u[q[i]] = 0
    /\ o[q[i]].status \in {"waiting", "lost"}
    /\ \A j \in DOMAIN q : i # j => q[i] # q[j]

\* An exchange is queued at its agent's runtime once, and is forwarded from
\* there at most once.
ExchangesMoveOnce ==
  /\ \A e \in Exchanges :
       /\ outcome[e].status # "unsent" => asked[e] \in Attempts
       /\ used[e] # 0 => outcome[e].status # "unsent"
       /\ used[e] # 0 /\ IsAnswer(outcome[e]) => outcome[e].forwarded
       /\ outcome[e].status = "completed" => used[e] # 0
  /\ \A r \in Runtimes : InboxOK(inbox[r], AgentOf[r], config[r], used, outcome)

\* A connection in the application's queue: a runtime that has not gone waits
\* for it, and the exchange it was made for has had no effect and no answer.
ConnectionOK(m) ==
  /\ m.client \in Runtimes =>
       m.via \in Exchanges /\ serving[m.client] = m.via /\ answer[m.client] = None
  /\ m.client = Operator =>
       m.via = None /\ asking # None /\ verdict = None /\ m.request = asking.request
  /\ m.via \in Exchanges =>
       /\ used[m.via] # 0
       /\ Carries(m.via, m.request, used[m.via], asked[m.via])
       /\ outcome[m.via].status # "completed"
       /\ NotPerformed(m.via, performed)
  /\ m.via = None /\ m.request # None => m.request.operation # "invoke"

ConnectionsOK == \A i \in DOMAIN backlog : ConnectionOK(backlog[i])

\* No exchange and no control request is queued twice.
QueuedOnce ==
  \A i, j \in DOMAIN backlog : i # j =>
    /\ backlog[i].via \in Exchanges => backlog[i].via # backlog[j].via
    /\ backlog[i].client = Operator => backlog[j].client # Operator

\* What a runtime has read and what an agent was told says what happened.
AnswersFit ==
  /\ \A r \in Runtimes : serving[r] \in Exchanges => used[serving[r]] # 0
  /\ \A r \in Runtimes : answer[r] # None =>
       /\ serving[r] \in Exchanges
       /\ Fits(serving[r], answer[r], performed, used[serving[r]], asked[serving[r]])
       /\ \A i \in DOMAIN backlog : backlog[i].via # serving[r]
  /\ \A e \in Exchanges : outcome[e].status = "completed" => Fits(e, outcome[e].result, performed, used[e], asked[e])

\* The effects under the credentials of this life are those of its receipts.
EffectsAreRecorded ==
  /\ \A p \in performed : used[p.via] # 0 /\ p.credential <= drawn
  /\ \A p \in performed : p.credential > born =>
       \E i \in DOMAIN receipts :
         p.receipt = receipts[i] /\ p.credential = born + Settled(i).grant_id
  /\ \A i \in DOMAIN receipts : \E p \in performed :
       p.receipt = receipts[i] /\ p.credential = born + Settled(i).grant_id

\* Credential c is the one grant g was issued with, unless it is of an earlier
\* life of the server, where g may have been another grant.
Names(g, c) == c \in 1 .. drawn /\ (c <= born \/ c = born + g)

Fenced(c) == c <= born \/ \E g \in DOMAIN grants : c = born + g /\ ~ grants[g].active

\* What the operator holds, asks and has been told of grants and credentials.
OperatorKnows ==
  /\ asking = None => verdict = None
  /\ \A c \in fence_seen : Fenced(c)
  /\ \A r \in Runtimes :
       config[r] # None => Names(config[r].grant_id, config[r].credential)
  /\ asking # None /\ asking.request.operation = "revoke" =>
       /\ Names(asking.request.grant_id, asking.subject)
       /\ verdict # None /\ verdict.ok => Fenced(asking.subject)
  /\ asking # None /\ asking.request.operation = "issue_grant" =>
       /\ asking.subject \in Runtimes
       /\ verdict # None /\ verdict.ok =>
            /\ verdict.result \in PrivateGrants
            /\ Names(verdict.result.grant_id, verdict.result.credential)

SliceInv ==
  /\ SliceTypeOK
  /\ AppIInv
  /\ CredentialsNumberGrants
  /\ ExchangesMoveOnce
  /\ ConnectionsOK
  /\ QueuedOnce
  /\ AnswersFit
  /\ EffectsAreRecorded
  /\ OneEffectPerAuthority
  /\ OperatorKnows

----------------------------------------------------------------------------
(****************************************************************************)
(* What the invariant says of the properties.                               *)
(****************************************************************************)

\* Before anything has happened the invariant holds.
LEMMA SliceInit == Init => SliceInv
<1>. SUFFICES ASSUME Init PROVE SliceInv
  OBVIOUS
<1>1. AppIInv /\ AppTypeOK
  BY InvInit DEF Init, AppIInv
<1>2. grants = <<>> /\ next_grant = 0 /\ receipts = <<>> /\ drawn = 0
  BY DEF Init, AppInit
<1>3. SliceTypeOK
  BY <1>1, <1>2 DEF Init, SliceTypeOK
<1>4. DOMAIN grants = {} /\ DOMAIN receipts = {} /\ DOMAIN backlog = {}
      /\ \A r \in Runtimes : DOMAIN inbox[r] = {}
  BY <1>2 DEF Init
<1>5. CredentialsNumberGrants /\ EffectsAreRecorded /\ OneEffectPerAuthority
  BY <1>2, <1>4 DEF Init, CredentialsNumberGrants, EffectsAreRecorded, OneEffectPerAuthority
<1>6. ExchangesMoveOnce
  BY <1>4 DEF Init, ExchangesMoveOnce, InboxOK, IsAnswer
<1>7. ConnectionsOK /\ QueuedOnce
  BY <1>4 DEF ConnectionsOK, QueuedOnce
<1>8. AnswersFit
  BY SliceAssumption DEF Init, AnswersFit
<1>9. OperatorKnows
  BY DEF Init, OperatorKnows
<1>. QED BY <1>1, <1>3, <1>5, <1>6, <1>7, <1>8, <1>9 DEF SliceInv

\* What the state of the application, the effects and the fences say stays true
\* in a step that leaves the application alone, if no exchange that was
\* forwarded is forgotten.
LEMMA AppStill ==
  ASSUME SliceInv, UNCHANGED <<appVars, born, performed>>,
         \A e \in Exchanges : used[e] # 0 => used'[e] # 0
  PROVE  /\ AppTypeOK' /\ AppIInv'
         /\ CredentialsNumberGrants'
         /\ EffectsAreRecorded'
         /\ OneEffectPerAuthority'
         /\ \A c : Fenced(c) => Fenced(c)'
         /\ \A g, c : Names(g, c) => Names(g, c)'
<1>1. AppIInv' /\ AppTypeOK'
  BY InvNext DEF SliceInv, AppIInv
<1>2. UNCHANGED <<grants, next_grant, receipts, drawn, born, performed>>
  BY DEF appVars, stateVars, ledgerVars
<1>3. CredentialsNumberGrants' /\ OneEffectPerAuthority'
  BY <1>2 DEF SliceInv, CredentialsNumberGrants, OneEffectPerAuthority
<1>4. \A p \in performed : p.via \in Exchanges
  BY DEF SliceInv, SliceTypeOK, Effects
<1>5. EffectsAreRecorded'
  BY <1>2, <1>4 DEF SliceInv, EffectsAreRecorded, Settled
<1>. QED BY <1>1, <1>2, <1>3, <1>5 DEF Fenced, Names

\* What the control client knows stays true if it does nothing and no answer
\* reaches it.
LEMMA OperatorStill ==
  ASSUME SliceInv, UNCHANGED <<asking, verdict, fence_seen, config>>,
         \A c \in Nat : Fenced(c) => Fenced(c)',
         \A g, c : Names(g, c) => Names(g, c)'
  PROVE  OperatorKnows'
<1>1. fence_seen \subseteq Nat
  BY BoundsAssumption DEF SliceInv, SliceTypeOK, Credentials
<1>2. \A g, c : Names(g, c) => c \in Nat
  BY DEF Names
<1>. QED BY <1>1, <1>2 DEF SliceInv, OperatorKnows

\* An exchange is an agent's, and its runtime mediates for that agent.
LEMMA RuntimeOfFacts ==
  ASSUME NEW e \in Exchanges
  PROVE  RuntimeOf(e[1]) \in Runtimes /\ AgentOf[RuntimeOf(e[1])] = e[1]
<1>1. e[1] \in Agents
  BY DEF Exchanges
<1>. QED BY <1>1, SliceAssumption DEF RuntimeOf

\* A queue stays as good as it was if the exchanges in it do not change.
LEMMA InboxStays ==
  ASSUME NEW q, NEW a, NEW c, NEW u, NEW o, NEW u2, NEW o2, InboxOK(q, a, c, u, o),
         \A i \in DOMAIN q : u2[q[i]] = u[q[i]] /\ o2[q[i]] = o[q[i]]
  PROVE  InboxOK(q, a, c, u2, o2)
BY DEF InboxOK

----------------------------------------------------------------------------
(****************************************************************************)
(* Agents.                                                                  *)
(****************************************************************************)

\* A request an agent sends is queued for the first time.
LEMMA SendKeeps ==
  ASSUME SliceInv, NEW e \in Exchanges, NEW w \in Attempts, AgentSend(e, w)
  PROVE  SliceInv'
<1>. DEFINE r == RuntimeOf(e[1])
<1>1. /\ outcome[e].status = "unsent"
      /\ config[r] # None
      /\ asked' = [asked EXCEPT ![e] = w]
      /\ outcome' = [outcome EXCEPT ![e] = [status |-> "waiting"]]
      /\ inbox' = [inbox EXCEPT ![r] = Append(@, e)]
      /\ UNCHANGED <<appVars, config, serving, answer, serverVars, operatorVars,
                     historyVars>>
  BY DEF AgentSend
<1>2. UNCHANGED <<config, serving, answer, backlog, app_pc, state_file, asking, verdict,
                  fence_seen, used, born, performed, drawn>>
  BY <1>1 DEF serverVars, operatorVars, historyVars, appVars
<1>3. /\ AppTypeOK' /\ AppIInv' /\ CredentialsNumberGrants' /\ EffectsAreRecorded'
      /\ OneEffectPerAuthority' /\ OperatorKnows'
  BY <1>1, <1>2, AppStill, OperatorStill
<1>4. r \in Runtimes /\ AgentOf[r] = e[1]
  BY RuntimeOfFacts
<1>. HIDE DEF r
<1>5. SliceTypeOK /\ SliceTypeOK'
  <2>1. SliceTypeOK
    BY DEF SliceInv
  <2>2. asked' \in [Exchanges -> Attempts \cup {None}] /\ DOMAIN outcome' = Exchanges
    BY <1>1, <2>1 DEF SliceTypeOK
  <2>3. inbox' \in [Runtimes -> Seq(Exchanges)]
    BY <1>1, <1>4, <2>1 DEF SliceTypeOK
  <2>. QED BY <1>2, <1>3, <2>1, <2>2, <2>3 DEF SliceTypeOK
<1>6. /\ used[e] = 0
      /\ outcome'[e] = [status |-> "waiting"] /\ asked'[e] = w
      /\ \A f \in Exchanges \ {e} : outcome'[f] = outcome[f] /\ asked'[f] = asked[f]
  BY <1>1, <1>5 DEF SliceTypeOK, SliceInv, ExchangesMoveOnce
<1>7. ExchangesMoveOnce'
  <2>1. \A f \in Exchanges :
          /\ outcome'[f].status # "unsent" => asked'[f] \in Attempts
          /\ used'[f] # 0 => outcome'[f].status # "unsent"
          /\ used'[f] # 0 /\ IsAnswer(outcome'[f]) => outcome'[f].forwarded
          /\ outcome'[f].status = "completed" => used'[f] # 0
    BY <1>2, <1>6 DEF SliceInv, ExchangesMoveOnce
  <2>2. ASSUME NEW s \in Runtimes
        PROVE  InboxOK(inbox'[s], AgentOf[s], config[s], used, outcome')
    <3>1. inbox[s] \in Seq(Exchanges) /\ DOMAIN inbox = Runtimes
      BY <1>5 DEF SliceTypeOK
    <3>2. /\ InboxOK(inbox[s], AgentOf[s], config[s], used, outcome)
          /\ \A k \in DOMAIN inbox[s] : inbox[s][k] # e
      BY <1>1 DEF SliceInv, ExchangesMoveOnce, InboxOK
    <3>3. InboxOK(inbox[s], AgentOf[s], config[s], used, outcome')
      <4>1. \A k \in DOMAIN inbox[s] : outcome'[inbox[s][k]] = outcome[inbox[s][k]]
        BY <1>6, <3>1, <3>2
      <4>. QED BY <3>2, <4>1, InboxStays
    <3>4. CASE s # r
      <4>1. inbox'[s] = inbox[s]
        BY <1>1, <3>1, <3>4
      <4>. QED BY <3>3, <4>1
    <3>5. CASE s = r
      <4>1. inbox'[s] = Append(inbox[s], e)
        BY <1>1, <3>1, <3>5
      <4>2. /\ DOMAIN inbox'[s] = DOMAIN inbox[s] \cup {Len(inbox[s]) + 1}
            /\ inbox'[s][Len(inbox[s]) + 1] = e
            /\ \A k \in DOMAIN inbox[s] : inbox'[s][k] = inbox[s][k]
        BY <3>1, <4>1, AppendFacts
      <4>. QED BY <1>1, <1>4, <1>6, <3>2, <3>3, <3>5, <4>2 DEF InboxOK
    <3>. QED BY <3>4, <3>5
  <2>. QED BY <1>2, <2>1, <2>2 DEF ExchangesMoveOnce, IsAnswer
<1>8. ConnectionsOK' /\ QueuedOnce'
  BY <1>2, <1>6 DEF SliceInv, ConnectionsOK, ConnectionOK, QueuedOnce
<1>9. AnswersFit'
  BY <1>2, <1>6 DEF SliceInv, AnswersFit
<1>. QED BY <1>3, <1>5, <1>7, <1>8, <1>9 DEF SliceInv

\* An agent that gives up was waiting, and has no answer.
LEMMA GiveUpKeeps ==
  ASSUME SliceInv, NEW e \in Exchanges, AgentGiveUp(e)
  PROVE  SliceInv'
<1>1. /\ outcome[e].status = "waiting"
      /\ outcome' = [outcome EXCEPT ![e] = [status |-> "lost"]]
      /\ UNCHANGED <<appVars, config, inbox, serving, answer, asked, backlog, app_pc,
                     asking, verdict, fence_seen, used, born, performed>>
  BY DEF AgentGiveUp, runtimeVars, serverVars, operatorVars, historyVars
<1>2. /\ AppTypeOK' /\ AppIInv' /\ CredentialsNumberGrants' /\ EffectsAreRecorded'
      /\ OneEffectPerAuthority' /\ OperatorKnows'
  BY <1>1, AppStill, OperatorStill
<1>3. SliceTypeOK /\ SliceTypeOK'
  BY <1>1, <1>2 DEF SliceInv, SliceTypeOK, appVars
<1>4. /\ outcome'[e] = [status |-> "lost"]
      /\ \A f \in Exchanges \ {e} : outcome'[f] = outcome[f]
  BY <1>1, <1>3 DEF SliceTypeOK
<1>5. ExchangesMoveOnce'
  <2>1. ASSUME NEW r \in Runtimes
        PROVE  InboxOK(inbox[r], AgentOf[r], config[r], used, outcome')
    <3>1. inbox[r] \in Seq(Exchanges)
      BY <1>3 DEF SliceTypeOK
    <3>2. \A i \in DOMAIN inbox[r] : inbox[r][i] \in Exchanges
      BY <3>1
    <3>. QED BY <1>4, <3>2 DEF SliceInv, ExchangesMoveOnce, InboxOK
  <2>2. \A f \in Exchanges :
          /\ outcome'[f].status # "unsent" => asked'[f] \in Attempts
          /\ used'[f] # 0 => outcome'[f].status # "unsent"
          /\ used'[f] # 0 /\ IsAnswer(outcome'[f]) => outcome'[f].forwarded
          /\ outcome'[f].status = "completed" => used'[f] # 0
    BY <1>1, <1>4 DEF SliceInv, ExchangesMoveOnce, IsAnswer
  <2>. QED BY <1>1, <2>1, <2>2 DEF ExchangesMoveOnce, IsAnswer
<1>6. ConnectionsOK' /\ QueuedOnce'
  BY <1>1, <1>4 DEF SliceInv, ConnectionsOK, ConnectionOK, QueuedOnce
<1>7. AnswersFit'
  BY <1>1, <1>4 DEF SliceInv, AnswersFit
<1>. QED BY <1>2, <1>3, <1>5, <1>6, <1>7 DEF SliceInv

----------------------------------------------------------------------------
(****************************************************************************)
(* Runtimes.                                                                *)
(****************************************************************************)

\* Tail forgets the first element and moves the others up by one.
LEMMA TailFacts ==
  ASSUME NEW S, NEW s \in Seq(S), s # <<>>
  PROVE  /\ Tail(s) \in Seq(S)
         /\ Head(s) = s[1] /\ 1 \in DOMAIN s /\ s[1] \in S
         /\ \A i \in DOMAIN Tail(s) :
              i \in Nat /\ i + 1 \in DOMAIN s /\ i + 1 # 1 /\ Tail(s)[i] = s[i + 1]
<1>1. Len(s) \in Nat /\ Len(s) # 0 /\ DOMAIN s = 1 .. Len(s)
  OBVIOUS
<1>2. Tail(s) \in Seq(S) /\ Len(Tail(s)) = Len(s) - 1
      /\ DOMAIN Tail(s) = 1 .. (Len(s) - 1)
  BY <1>1
<1>3. \A i \in 1 .. (Len(s) - 1) : Tail(s)[i] = s[i + 1]
  BY <1>1, <1>2
<1>. QED BY <1>1, <1>2, <1>3

\* A reply changes what one exchange knows, and only while its agent waits.
LEMMA ReplyFacts ==
  ASSUME SliceTypeOK, NEW e \in Exchanges, NEW reply, Reply(e, reply)
  PROVE  /\ DOMAIN outcome' = Exchanges
         /\ \A f \in Exchanges \ {e} : outcome'[f] = outcome[f]
         /\ \/ outcome'[e] = outcome[e] /\ outcome[e].status # "waiting"
            \/ outcome'[e] = reply /\ outcome[e].status = "waiting"
BY DEF SliceTypeOK, Reply

\* Runtime r takes the next request from its queue.
Takes(r) == CanAccept(r) /\ inbox' = [inbox EXCEPT ![r] = Tail(@)]

\* The next request of a runtime: what is known of the exchange it takes, and
\* of the ones it leaves.
LEMMA AcceptFacts ==
  ASSUME SliceInv, NEW r \in Runtimes, Takes(r), NEW e, e = Head(inbox[r])
  PROVE  /\ e \in Exchanges /\ used[e] = 0 /\ e[1] = AgentOf[r] /\ asked[e] \in Attempts
         /\ outcome[e].status \in {"waiting", "lost"}
         /\ config[r] # None /\ config[r] \in PrivateGrants
         /\ serving[r] = None /\ answer[r] = None
         /\ inbox' \in [Runtimes -> Seq(Exchanges)]
         /\ \A s \in Runtimes :
              /\ InboxOK(inbox'[s], AgentOf[s], config[s], used, outcome)
              /\ \A i \in DOMAIN inbox'[s] : inbox'[s][i] # e
<1>1. /\ SliceTypeOK /\ serving[r] = None /\ inbox[r] # <<>>
      /\ inbox' = [inbox EXCEPT ![r] = Tail(@)]
  BY DEF SliceInv, CanAccept, Takes
<1>2. inbox \in [Runtimes -> Seq(Exchanges)] /\ inbox[r] \in Seq(Exchanges)
  BY <1>1 DEF SliceTypeOK
<1>3. /\ Tail(inbox[r]) \in Seq(Exchanges)
      /\ e = inbox[r][1] /\ 1 \in DOMAIN inbox[r] /\ inbox[r][1] \in Exchanges
      /\ \A i \in DOMAIN Tail(inbox[r]) :
           /\ i \in Nat /\ i + 1 \in DOMAIN inbox[r] /\ i + 1 # 1
           /\ Tail(inbox[r])[i] = inbox[r][i + 1]
  BY <1>1, <1>2, TailFacts
<1>4. \A s \in Runtimes : InboxOK(inbox[s], AgentOf[s], config[s], used, outcome)
  BY DEF SliceInv, ExchangesMoveOnce
<1>5. /\ e \in Exchanges /\ used[e] = 0 /\ e[1] = AgentOf[r] /\ config[r] # None
      /\ outcome[e].status \in {"waiting", "lost"}
  BY <1>3, <1>4 DEF InboxOK
<1>6. config[r] \in PrivateGrants /\ asked[e] \in Attempts
  BY <1>1, <1>5 DEF SliceTypeOK, SliceInv, ExchangesMoveOnce
<1>7. answer[r] = None
  BY <1>1, SliceAssumption DEF SliceInv, AnswersFit
<1>8. /\ inbox'[r] = Tail(inbox[r]) /\ inbox' \in [Runtimes -> Seq(Exchanges)]
      /\ \A s \in Runtimes \ {r} : inbox'[s] = inbox[s]
  BY <1>1, <1>2, <1>3
<1>9. ASSUME NEW s \in Runtimes
      PROVE  /\ InboxOK(inbox'[s], AgentOf[s], config[s], used, outcome)
             /\ \A i \in DOMAIN inbox'[s] : inbox'[s][i] # e
  <2>1. CASE s = r
    <3>1. \A i \in DOMAIN inbox'[s] :
            /\ i \in Nat /\ i + 1 \in DOMAIN inbox[r] /\ i + 1 # 1
            /\ inbox'[s][i] = inbox[r][i + 1]
      BY <1>3, <1>8, <2>1
    <3>2. \A i, j \in Nat : i # j => i + 1 # j + 1
      OBVIOUS
    <3>. QED BY <1>3, <1>4, <2>1, <3>1, <3>2 DEF InboxOK
  <2>2. CASE s # r
    <3>1. inbox'[s] = inbox[s]
      BY <1>8, <2>2
    <3>2. \A i \in DOMAIN inbox[s] : inbox[s][i][1] = AgentOf[s]
      BY <1>4 DEF InboxOK
    <3>3. \A i \in DOMAIN inbox[s] : inbox[s][i] # e
      BY <1>5, <2>2, <3>2, SliceAssumption
    <3>. QED BY <1>4, <3>1, <3>3
  <2>. QED BY <2>1, <2>2
<1>. QED BY <1>1, <1>5, <1>6, <1>7, <1>8, <1>9

\* A request that is not forwarded: the agent may learn it, and the exchange is
\* never forwarded after that.
LEMMA TurnAwayKeeps ==
  ASSUME SliceInv, NEW r \in Runtimes, RuntimeReject(r) \/ RuntimeRefused(r)
  PROVE  SliceInv'
<1>. PICK e : e = Head(inbox[r])
  OBVIOUS
<1>1. PICK reply \in {WireError(TRUE), WireError(FALSE)} :
        /\ Takes(r)
        /\ Reply(e, reply)
        /\ UNCHANGED <<appVars, config, serving, answer, asked, backlog, app_pc, asking,
                       verdict, fence_seen, used, born, performed>>
  BY DEF RuntimeReject, RuntimeRefused, Takes, serverVars, operatorVars, historyVars
<1>2. /\ AppTypeOK' /\ AppIInv' /\ CredentialsNumberGrants' /\ EffectsAreRecorded'
      /\ OneEffectPerAuthority' /\ OperatorKnows'
  BY <1>1, AppStill, OperatorStill
<1>3. /\ e \in Exchanges /\ used[e] = 0 /\ asked[e] \in Attempts
      /\ outcome[e].status \in {"waiting", "lost"}
      /\ inbox' \in [Runtimes -> Seq(Exchanges)]
      /\ \A s \in Runtimes :
           /\ InboxOK(inbox'[s], AgentOf[s], config[s], used, outcome)
           /\ \A i \in DOMAIN inbox'[s] : inbox'[s][i] # e
  BY <1>1, AcceptFacts
<1>4. reply.status \in {"error", "rejected"}
  BY DEF WireError
<1>5. /\ DOMAIN outcome' = Exchanges
      /\ \A f \in Exchanges \ {e} : outcome'[f] = outcome[f]
      /\ outcome'[e].status \in {"lost", "error", "rejected"}
  BY <1>1, <1>3, <1>4, ReplyFacts DEF SliceInv
<1>6. SliceTypeOK'
  BY <1>1, <1>2, <1>3, <1>5 DEF SliceInv, SliceTypeOK, appVars
<1>7. ExchangesMoveOnce'
  <2>1. \A f \in Exchanges :
          /\ outcome'[f].status # "unsent" => asked'[f] \in Attempts
          /\ used'[f] # 0 => outcome'[f].status # "unsent"
          /\ used'[f] # 0 /\ IsAnswer(outcome'[f]) => outcome'[f].forwarded
          /\ outcome'[f].status = "completed" => used'[f] # 0
    BY <1>1, <1>3, <1>5 DEF SliceInv, ExchangesMoveOnce
  <2>2. ASSUME NEW s \in Runtimes
        PROVE  InboxOK(inbox'[s], AgentOf[s], config[s], used, outcome')
    <3>1. inbox'[s] \in Seq(Exchanges)
      BY <1>3
    <3>2. \A k \in DOMAIN inbox'[s] : outcome'[inbox'[s][k]] = outcome[inbox'[s][k]]
      BY <1>3, <1>5, <3>1
    <3>. QED BY <1>3, <3>2, InboxStays
  <2>. QED BY <1>1, <1>3, <2>1, <2>2 DEF ExchangesMoveOnce, IsAnswer
<1>8. ConnectionsOK' /\ QueuedOnce'
  BY <1>1, <1>3, <1>5 DEF SliceInv, ConnectionsOK, ConnectionOK, QueuedOnce
<1>9. AnswersFit'
  BY <1>1, <1>3, <1>5 DEF SliceInv, AnswersFit
<1>. QED BY <1>2, <1>6, <1>7, <1>8, <1>9 DEF SliceInv

\* What a runtime makes of a request is one of the server's requests.
LEMMA OutboundFacts ==
  ASSUME SliceInv, NEW r \in Runtimes, NEW e \in Exchanges, e[1] = AgentOf[r],
         asked[e] \in Attempts, config[r] \in PrivateGrants
  PROVE  Carries(e, Outbound(r, e), config[r].credential, asked[e])
<1>1. /\ asked[e].execution_id \in Executions
      /\ asked[e].idempotency_key \in Keys
      /\ asked[e].input \in Inputs \cup {BadInput}
  BY SliceAssumption DEF AttemptType
<1>2. config[r].grant_id \in GrantIds /\ config[r].credential \in Credentials
  BY DEF PrivateGrants
<1>3. AgentOf[r] \in Agents
  BY SliceAssumption
<1>4. COMMENT_ACTION \in ActionNames
  BY DEF ActionNames, Actions
<1>5. Outbound(r, e) \in InvokeRequests
  BY <1>1, <1>2, <1>3, <1>4 DEF Outbound, InvokeRequests
<1>. QED BY <1>5 DEF Carries, Outbound, ServerRequests

\* A forwarded request is queued once more at the application, under the
\* credential the runtime holds.
LEMMA ForwardKeeps ==
  ASSUME SliceInv, NEW r \in Runtimes, RuntimeForward(r)
  PROVE  SliceInv'
<1>. PICK e : e = Head(inbox[r])
  OBVIOUS
<1>. PICK m : m = [client |-> r, via |-> e, request |-> Outbound(r, e)]
  OBVIOUS
<1>. PICK n : n = Len(backlog) + 1
  OBVIOUS
<1>. PICK c : c = config[r].credential
  OBVIOUS
<1>1. /\ Takes(r)
      /\ backlog' = Append(backlog, m)
      /\ serving' = [serving EXCEPT ![r] = e]
      /\ used' = [used EXCEPT ![e] = c]
      /\ UNCHANGED <<appVars, config, answer, asked, outcome, app_pc, asking, verdict,
                     fence_seen, born, performed>>
  BY DEF RuntimeForward, Takes, agentVars, operatorVars
<1>2. /\ e \in Exchanges /\ used[e] = 0 /\ e[1] = AgentOf[r] /\ asked[e] \in Attempts
      /\ outcome[e].status \in {"waiting", "lost"}
      /\ config[r] # None /\ config[r] \in PrivateGrants
      /\ serving[r] = None /\ answer[r] = None
      /\ inbox' \in [Runtimes -> Seq(Exchanges)]
      /\ \A s \in Runtimes :
           /\ InboxOK(inbox'[s], AgentOf[s], config[s], used, outcome)
           /\ \A i \in DOMAIN inbox'[s] : inbox'[s][i] # e
  BY <1>1, AcceptFacts
<1>3. Carries(e, Outbound(r, e), c, asked[e])
  BY <1>2, OutboundFacts
<1>5. c \in Credentials /\ c \in 1 .. drawn /\ c # 0
  BY <1>2 DEF SliceInv, OperatorKnows, Names, PrivateGrants, Credentials
<1>6. /\ used'[e] = c
      /\ used' \in [Exchanges -> 0 .. drawn]
      /\ \A f \in Exchanges \ {e} : used'[f] = used[f]
  BY <1>1, <1>2, <1>5 DEF SliceInv, SliceTypeOK
<1>7. /\ AppTypeOK' /\ AppIInv' /\ CredentialsNumberGrants' /\ EffectsAreRecorded'
      /\ OneEffectPerAuthority' /\ OperatorKnows'
  <2>1. \A f \in Exchanges : used[f] # 0 => used'[f] # 0
    BY <1>5, <1>6
  <2>. QED BY <1>1, <2>1, AppStill, OperatorStill
<1>8. m \in Connections
  BY <1>2, <1>3 DEF Carries, Connections
<1>9. /\ backlog \in Seq(Connections) /\ backlog' \in Seq(Connections)
      /\ DOMAIN backlog' = DOMAIN backlog \cup {n}
      /\ backlog'[n] = m
      /\ \A i \in DOMAIN backlog : backlog'[i] = backlog[i] /\ backlog[i] \in Connections
  BY <1>1, <1>8, AppendFacts DEF SliceInv, SliceTypeOK
<1>10. SliceTypeOK'
  <2>1. serving' \in [Runtimes -> Exchanges \cup {None}]
    BY <1>1, <1>2 DEF SliceInv, SliceTypeOK
  <2>. QED BY <1>1, <1>2, <1>6, <1>7, <1>9, <2>1 DEF SliceInv, SliceTypeOK, appVars
<1>11. serving'[r] = e /\ \A s \in Runtimes \ {r} : serving'[s] = serving[s]
  BY <1>1 DEF SliceInv, SliceTypeOK
<1>12. \A i \in DOMAIN backlog : backlog[i].via # e /\ backlog[i].client # r
  BY <1>2, SliceAssumption DEF SliceInv, ConnectionsOK, ConnectionOK
<1>13. m.client = r /\ m.via = e /\ m.request = Outbound(r, e)
  OBVIOUS
<1>14. ExchangesMoveOnce'
  <2>1. \A f \in Exchanges :
          /\ outcome'[f].status # "unsent" => asked'[f] \in Attempts
          /\ used'[f] # 0 => outcome'[f].status # "unsent"
          /\ used'[f] # 0 /\ IsAnswer(outcome'[f]) => outcome'[f].forwarded
          /\ outcome'[f].status = "completed" => used'[f] # 0
    BY <1>1, <1>2, <1>5, <1>6 DEF SliceInv, ExchangesMoveOnce, IsAnswer
  <2>2. ASSUME NEW s \in Runtimes
        PROVE  InboxOK(inbox'[s], AgentOf[s], config[s], used', outcome)
    <3>1. inbox'[s] \in Seq(Exchanges)
      BY <1>2
    <3>2. \A k \in DOMAIN inbox'[s] : used'[inbox'[s][k]] = used[inbox'[s][k]]
      BY <1>2, <1>6, <3>1
    <3>. QED BY <1>2, <3>2, InboxStays
  <2>. QED BY <1>1, <1>2, <2>1, <2>2 DEF ExchangesMoveOnce, IsAnswer
<1>15. ConnectionsOK'
  <2>1. ASSUME NEW i \in DOMAIN backlog PROVE ConnectionOK(backlog[i])'
    <3>1. backlog'[i] = backlog[i] /\ ConnectionOK(backlog[i])
          /\ backlog[i].via # e /\ backlog[i].client # r
      BY <1>9, <1>12 DEF SliceInv, ConnectionsOK
    <3>. QED BY <1>1, <1>6, <1>11, <3>1 DEF ConnectionOK
  <2>2. ConnectionOK(backlog[n])'
    <3>1. NotPerformed(e, performed)
      BY <1>2 DEF NotPerformed, SliceInv, EffectsAreRecorded
    <3>2. r # Operator /\ e # None
      BY <1>2, SliceAssumption
    <3>. QED BY <1>1, <1>2, <1>3, <1>5, <1>6, <1>9, <1>11, <1>13, <3>1, <3>2 DEF ConnectionOK
  <2>. QED BY <1>9, <2>1, <2>2 DEF ConnectionsOK
<1>16. QueuedOnce'
  <2>1. r # Operator
    BY SliceAssumption
  <2>. QED BY <1>9, <1>12, <1>13, <2>1 DEF SliceInv, QueuedOnce
<1>17. AnswersFit'
  <2>1. ASSUME NEW s \in Runtimes, serving'[s] \in Exchanges PROVE used'[serving'[s]] # 0
    <3>1. CASE s = r
      BY <1>5, <1>6, <1>11, <3>1
    <3>2. CASE s # r
      <4>1. serving'[s] = serving[s]
        BY <1>11, <3>2
      <4>2. used[serving[s]] # 0
        BY <2>1, <4>1 DEF SliceInv, AnswersFit
      <4>. QED BY <1>2, <1>6, <2>1, <4>1, <4>2
    <3>. QED BY <3>1, <3>2
  <2>2. ASSUME NEW s \in Runtimes, answer'[s] # None
        PROVE  /\ serving'[s] = serving[s] /\ answer'[s] = answer[s]
               /\ serving[s] \in Exchanges \ {e}
               /\ Fits(serving[s], answer[s], performed, used[serving[s]], asked[serving[s]])
               /\ \A i \in DOMAIN backlog' : backlog'[i].via # serving[s]
    <3>1. s # r /\ answer[s] # None
      BY <1>1, <1>2, <2>2
    <3>2. /\ serving[s] \in Exchanges /\ used[serving[s]] # 0
          /\ Fits(serving[s], answer[s], performed, used[serving[s]], asked[serving[s]])
          /\ \A i \in DOMAIN backlog : backlog[i].via # serving[s]
      BY <3>1 DEF SliceInv, AnswersFit
    <3>. QED BY <1>1, <1>2, <1>9, <1>11, <1>13, <3>1, <3>2
  <2>3. \A f \in Exchanges : outcome'[f].status = "completed" =>
          f # e /\ Fits(f, outcome'[f].result, performed, used[f], asked[f])
    BY <1>1, <1>2 DEF SliceInv, AnswersFit
  <2>. QED BY <1>1, <1>6, <2>1, <2>2, <2>3 DEF AnswersFit
<1>. QED BY <1>7, <1>10, <1>14, <1>15, <1>16, <1>17 DEF SliceInv

\* Queue q is what is left of queue b when at most its first connection is
\* taken and clients have gone.
Leaves(q, b) ==
  \E d \in {0, 1} : \A i \in DOMAIN q :
    /\ i + d \in DOMAIN b
    /\ q[i].via = b[i + d].via /\ q[i].request = b[i + d].request
    /\ q[i].client \in {b[i + d].client, None}

\* Nothing is queued twice in what is left of a queue.
LEMMA QueuedOnceStays ==
  ASSUME SliceInv, backlog' \in Seq(Connections), Leaves(backlog', backlog)
  PROVE  QueuedOnce'
<1>1. PICK d \in {0, 1} : \A i \in DOMAIN backlog' :
        /\ i + d \in DOMAIN backlog
        /\ backlog'[i].via = backlog[i + d].via
        /\ backlog'[i].client \in {backlog[i + d].client, None}
  BY DEF Leaves
<1>2. \A i \in DOMAIN backlog' : i \in Nat
  OBVIOUS
<1>3. Operator # None
  BY SliceAssumption
<1>4. ASSUME NEW i \in DOMAIN backlog', NEW j \in DOMAIN backlog', i # j
      PROVE  /\ backlog'[i].via \in Exchanges => backlog'[i].via # backlog'[j].via
             /\ backlog'[i].client = Operator => backlog'[j].client # Operator
  <2>1. i + d # j + d
    BY <1>2, <1>4
  <2>. QED BY <1>1, <1>3, <1>4, <2>1 DEF SliceInv, QueuedOnce
<1>. QED BY <1>4 DEF QueuedOnce

\* The queue after the clients of one party have gone.
LEMMA AbandonedFacts ==
  ASSUME SliceTypeOK, NEW x, backlog' = Abandoned(x)
  PROVE  /\ backlog' \in Seq(Connections) /\ Leaves(backlog', backlog)
         /\ DOMAIN backlog' = DOMAIN backlog
         /\ \A i \in DOMAIN backlog :
              /\ backlog'[i].via = backlog[i].via /\ backlog'[i].request = backlog[i].request
              /\ backlog[i].client = x => backlog'[i].client = None
              /\ backlog[i].client # x => backlog'[i].client = backlog[i].client
<1>1. /\ backlog \in Seq(Connections)
      /\ backlog' = [i \in DOMAIN backlog |->
                       IF backlog[i].client = x THEN [backlog[i] EXCEPT !.client = None]
                       ELSE backlog[i]]
  BY DEF SliceTypeOK, Abandoned
<1>2. \A i \in DOMAIN backlog : backlog[i] \in Connections
  BY <1>1
<1>3. /\ DOMAIN backlog' = DOMAIN backlog
      /\ \A i \in DOMAIN backlog :
           /\ backlog'[i] \in Connections
           /\ backlog'[i].via = backlog[i].via /\ backlog'[i].request = backlog[i].request
           /\ backlog[i].client = x => backlog'[i].client = None
           /\ backlog[i].client # x => backlog'[i].client = backlog[i].client
  BY <1>1, <1>2 DEF Connections
<1>4. backlog' \in Seq(Connections)
  <2>1. Len(backlog) \in Nat /\ DOMAIN backlog = 1 .. Len(backlog)
    BY <1>1
  <2>2. backlog' \in [1 .. Len(backlog) -> Connections]
    BY <1>1, <1>3, <2>1
  <2>. QED BY <2>1, <2>2
<1>5. Leaves(backlog', backlog)
  <2>1. \A i \in DOMAIN backlog : i + 0 = i
    BY <1>1
  <2>. QED BY <1>3, <2>1 DEF Leaves
<1>. QED BY <1>3, <1>4, <1>5

\* The answer of the application reaches the agent if it still waits.
LEMMA RelayKeeps ==
  ASSUME SliceInv, NEW r \in Runtimes, RuntimeRelay(r)
  PROVE  SliceInv'
<1>. PICK e : e = serving[r]
  OBVIOUS
<1>. PICK a : a = answer[r]
  OBVIOUS
<1>1. /\ e # None /\ a # None
      /\ Reply(e, Completed(a))
      /\ serving' = [serving EXCEPT ![r] = None]
      /\ answer' = [answer EXCEPT ![r] = None]
      /\ UNCHANGED <<appVars, config, inbox, asked, backlog, app_pc, asking, verdict,
                     fence_seen, used, born, performed>>
  BY DEF RuntimeRelay, serverVars, operatorVars, historyVars
<1>2. /\ AppTypeOK' /\ AppIInv' /\ CredentialsNumberGrants' /\ EffectsAreRecorded'
      /\ OneEffectPerAuthority' /\ OperatorKnows'
  BY <1>1, AppStill, OperatorStill
<1>3. /\ e \in Exchanges /\ used[e] # 0
      /\ Fits(e, a, performed, used[e], asked[e])
      /\ \A i \in DOMAIN backlog : backlog[i].via # e
  BY <1>1 DEF SliceInv, AnswersFit
<1>4. /\ Completed(a).status = "completed" /\ Completed(a).forwarded
      /\ Completed(a).result = a
  BY DEF Completed
<1>5. /\ DOMAIN outcome' = Exchanges
      /\ \A f \in Exchanges \ {e} : outcome'[f] = outcome[f]
      /\ \/ outcome'[e] = outcome[e]
         \/ outcome'[e] = Completed(a) /\ outcome[e].status = "waiting"
  BY <1>1, <1>3, ReplyFacts DEF SliceInv
<1>6. /\ serving' \in [Runtimes -> Exchanges \cup {None}] /\ DOMAIN answer' = Runtimes
      /\ serving'[r] = None /\ answer'[r] = None
      /\ \A s \in Runtimes \ {r} : serving'[s] = serving[s] /\ answer'[s] = answer[s]
  BY <1>1 DEF SliceInv, SliceTypeOK
<1>7. SliceTypeOK'
  BY <1>1, <1>2, <1>5, <1>6 DEF SliceInv, SliceTypeOK, appVars
<1>8. ExchangesMoveOnce'
  <2>1. \A f \in Exchanges :
          /\ outcome'[f].status # "unsent" => asked'[f] \in Attempts
          /\ used'[f] # 0 => outcome'[f].status # "unsent"
          /\ used'[f] # 0 /\ IsAnswer(outcome'[f]) => outcome'[f].forwarded
          /\ outcome'[f].status = "completed" => used'[f] # 0
    BY <1>1, <1>3, <1>4, <1>5 DEF SliceInv, ExchangesMoveOnce, IsAnswer
  <2>2. ASSUME NEW s \in Runtimes
        PROVE  InboxOK(inbox[s], AgentOf[s], config[s], used, outcome')
    <3>1. inbox[s] \in Seq(Exchanges)
      BY DEF SliceInv, SliceTypeOK
    <3>2. InboxOK(inbox[s], AgentOf[s], config[s], used, outcome)
      BY DEF SliceInv, ExchangesMoveOnce
    <3>3. \A k \in DOMAIN inbox[s] : inbox[s][k] \in Exchanges \ {e}
      BY <1>3, <3>1, <3>2 DEF InboxOK
    <3>4. \A k \in DOMAIN inbox[s] : outcome'[inbox[s][k]] = outcome[inbox[s][k]]
      BY <1>5, <3>3
    <3>. QED BY <3>2, <3>4, InboxStays
  <2>. QED BY <1>1, <2>1, <2>2 DEF ExchangesMoveOnce, IsAnswer
<1>9. ConnectionsOK'
  <2>1. ASSUME NEW i \in DOMAIN backlog PROVE ConnectionOK(backlog[i])'
    <3>1. ConnectionOK(backlog[i]) /\ backlog[i].via # e
      BY <1>3 DEF SliceInv, ConnectionsOK
    <3>2. backlog[i].client \in Runtimes => backlog[i].client # r
      BY <3>1 DEF ConnectionOK
    <3>. QED BY <1>1, <1>5, <1>6, <3>1, <3>2 DEF ConnectionOK
  <2>. QED BY <1>1, <2>1 DEF ConnectionsOK
<1>10. QueuedOnce'
  BY <1>1 DEF SliceInv, QueuedOnce
<1>11. AnswersFit'
  <2>1. \A s \in Runtimes : serving'[s] \in Exchanges => used'[serving'[s]] # 0
    BY <1>1, <1>6, SliceAssumption DEF SliceInv, AnswersFit
  <2>2. \A s \in Runtimes : answer'[s] # None =>
          /\ serving'[s] \in Exchanges
          /\ Fits(serving'[s], answer'[s], performed, used[serving'[s]], asked[serving'[s]])
          /\ \A i \in DOMAIN backlog : backlog[i].via # serving'[s]
    BY <1>6 DEF SliceInv, AnswersFit
  <2>3. \A f \in Exchanges : outcome'[f].status = "completed" =>
          Fits(f, outcome'[f].result, performed, used[f], asked[f])
    BY <1>3, <1>4, <1>5 DEF SliceInv, AnswersFit
  <2>. QED BY <1>1, <2>1, <2>2, <2>3 DEF AnswersFit
<1>. QED BY <1>2, <1>7, <1>8, <1>9, <1>10, <1>11 DEF SliceInv

\* A runtime that fails an exchange leaves its connection behind.
LEMMA FailKeeps ==
  ASSUME SliceInv, NEW r \in Runtimes, RuntimeFail(r)
  PROVE  SliceInv'
<1>. PICK e : e = serving[r]
  OBVIOUS
<1>1. /\ e # None /\ answer[r] = None
      /\ Reply(e, WireError(TRUE))
      /\ serving' = [serving EXCEPT ![r] = None]
      /\ backlog' = Abandoned(r)
      /\ UNCHANGED <<appVars, config, inbox, answer, asked, app_pc, asking, verdict,
                     fence_seen, used, born, performed>>
  BY DEF RuntimeFail, operatorVars, historyVars
<1>2. /\ AppTypeOK' /\ AppIInv' /\ CredentialsNumberGrants' /\ EffectsAreRecorded'
      /\ OneEffectPerAuthority' /\ OperatorKnows'
  BY <1>1, AppStill, OperatorStill
<1>3. e \in Exchanges /\ used[e] # 0
  BY <1>1 DEF SliceInv, SliceTypeOK, AnswersFit
<1>4. WireError(TRUE).status = "error" /\ WireError(TRUE).forwarded
  BY DEF WireError
<1>5. /\ DOMAIN outcome' = Exchanges
      /\ \A f \in Exchanges \ {e} : outcome'[f] = outcome[f]
      /\ \/ outcome'[e] = outcome[e]
         \/ outcome'[e] = WireError(TRUE) /\ outcome[e].status = "waiting"
  BY <1>1, <1>3, ReplyFacts DEF SliceInv
<1>6. /\ serving' \in [Runtimes -> Exchanges \cup {None}]
      /\ serving'[r] = None
      /\ \A s \in Runtimes \ {r} : serving'[s] = serving[s]
  BY <1>1 DEF SliceInv, SliceTypeOK
<1>7. /\ backlog' \in Seq(Connections) /\ Leaves(backlog', backlog)
      /\ DOMAIN backlog' = DOMAIN backlog
      /\ \A i \in DOMAIN backlog :
           /\ backlog'[i].via = backlog[i].via /\ backlog'[i].request = backlog[i].request
           /\ backlog[i].client = r => backlog'[i].client = None
           /\ backlog[i].client # r => backlog'[i].client = backlog[i].client
  BY <1>1, AbandonedFacts DEF SliceInv
<1>8. SliceTypeOK'
  BY <1>1, <1>2, <1>5, <1>6, <1>7 DEF SliceInv, SliceTypeOK, appVars
<1>9. ExchangesMoveOnce'
  <2>1. \A f \in Exchanges :
          /\ outcome'[f].status # "unsent" => asked'[f] \in Attempts
          /\ used'[f] # 0 => outcome'[f].status # "unsent"
          /\ used'[f] # 0 /\ IsAnswer(outcome'[f]) => outcome'[f].forwarded
          /\ outcome'[f].status = "completed" => used'[f] # 0
    BY <1>1, <1>3, <1>4, <1>5 DEF SliceInv, ExchangesMoveOnce, IsAnswer
  <2>2. ASSUME NEW s \in Runtimes
        PROVE  InboxOK(inbox[s], AgentOf[s], config[s], used, outcome')
    <3>1. inbox[s] \in Seq(Exchanges)
      BY DEF SliceInv, SliceTypeOK
    <3>2. InboxOK(inbox[s], AgentOf[s], config[s], used, outcome)
      BY DEF SliceInv, ExchangesMoveOnce
    <3>3. \A k \in DOMAIN inbox[s] : inbox[s][k] \in Exchanges \ {e}
      BY <1>3, <3>1, <3>2 DEF InboxOK
    <3>4. \A k \in DOMAIN inbox[s] : outcome'[inbox[s][k]] = outcome[inbox[s][k]]
      BY <1>5, <3>3
    <3>. QED BY <3>2, <3>4, InboxStays
  <2>. QED BY <1>1, <2>1, <2>2 DEF ExchangesMoveOnce, IsAnswer
<1>10. ConnectionsOK'
  <2>1. ASSUME NEW i \in DOMAIN backlog PROVE ConnectionOK(backlog[i])'
    <3>1. ConnectionOK(backlog[i])
      BY DEF SliceInv, ConnectionsOK
    <3>2. backlog'[i].client # r /\ backlog'[i].client \in {backlog[i].client, None}
      BY <1>7, SliceAssumption, SentinelAssumption
    <3>3. None # Operator /\ None \notin Runtimes
      BY SliceAssumption, SentinelAssumption
    <3>4. outcome'[backlog[i].via].status # "completed"
          \/ outcome'[backlog[i].via] = outcome[backlog[i].via] \/ backlog[i].via \notin Exchanges
      BY <1>4, <1>5
    <3>. QED BY <1>1, <1>6, <1>7, <3>1, <3>2, <3>3, <3>4 DEF ConnectionOK
  <2>. QED BY <1>7, <2>1 DEF ConnectionsOK
<1>11. QueuedOnce'
  BY <1>7, QueuedOnceStays
<1>12. AnswersFit'
  <2>1. \A s \in Runtimes : serving'[s] \in Exchanges => used'[serving'[s]] # 0
    BY <1>1, <1>6, SliceAssumption DEF SliceInv, AnswersFit
  <2>2. \A s \in Runtimes : answer'[s] # None =>
          /\ serving'[s] \in Exchanges
          /\ Fits(serving'[s], answer'[s], performed, used[serving'[s]], asked[serving'[s]])
          /\ \A i \in DOMAIN backlog' : backlog'[i].via # serving'[s]
    BY <1>1, <1>6, <1>7 DEF SliceInv, AnswersFit
  <2>3. \A f \in Exchanges : outcome'[f].status = "completed" =>
          Fits(f, outcome'[f].result, performed, used[f], asked[f])
    BY <1>4, <1>5 DEF SliceInv, AnswersFit
  <2>. QED BY <1>1, <2>1, <2>2, <2>3 DEF AnswersFit
<1>. QED BY <1>2, <1>8, <1>9, <1>10, <1>11, <1>12 DEF SliceInv

----------------------------------------------------------------------------
(****************************************************************************)
(* The application's queue and the control client.                          *)
(****************************************************************************)

\* What is known of queued connections stays true of those that are left, if
\* the rest of what it speaks of does not change.
LEMMA ConnectionsStay ==
  ASSUME SliceInv, backlog' \in Seq(Connections), Leaves(backlog', backlog),
         UNCHANGED <<serving, answer, asked, outcome, asking, verdict, used, performed>>
  PROVE  ConnectionsOK' /\ QueuedOnce' /\ AnswersFit'
<1>1. PICK d \in {0, 1} : \A i \in DOMAIN backlog' :
        /\ i + d \in DOMAIN backlog
        /\ backlog'[i].via = backlog[i + d].via
        /\ backlog'[i].request = backlog[i + d].request
        /\ backlog'[i].client \in {backlog[i + d].client, None}
  BY DEF Leaves
<1>2. None # Operator /\ None \notin Runtimes
  BY SliceAssumption, SentinelAssumption
<1>3. ASSUME NEW i \in DOMAIN backlog' PROVE ConnectionOK(backlog[i])'
  <2>1. PICK m : m = backlog[i + d] /\ ConnectionOK(m)
    BY <1>1 DEF SliceInv, ConnectionsOK
  <2>2. PICK k : k = backlog'[i]
    OBVIOUS
  <2>3. k.via = m.via /\ k.request = m.request /\ k.client \in {m.client, None}
    BY <1>1, <2>1, <2>2
  <2>. QED BY <1>2, <2>1, <2>2, <2>3 DEF ConnectionOK
<1>4. \A e : (\A i \in DOMAIN backlog : backlog[i].via # e)
               => \A i \in DOMAIN backlog' : backlog'[i].via # e
  BY <1>1
<1>5. AnswersFit'
  BY <1>4 DEF SliceInv, AnswersFit
<1>. QED BY <1>3, <1>5, QueuedOnceStays DEF ConnectionsOK

\* Connections that are closed or lost change nothing else.
LEMMA QueueLeftKeeps ==
  ASSUME SliceInv, backlog' \in Seq(Connections), Leaves(backlog', backlog),
         app_pc' \in {"accepting", "saving", "stopping", "down"},
         UNCHANGED <<appVars, runtimeVars, agentVars, operatorVars, historyVars>>
  PROVE  SliceInv'
<1>1. UNCHANGED <<appVars, config, inbox, serving, answer, asked, outcome, asking, verdict,
                  fence_seen, used, born, performed>>
  BY DEF runtimeVars, agentVars, operatorVars, historyVars
<1>2. /\ AppTypeOK' /\ AppIInv' /\ CredentialsNumberGrants' /\ EffectsAreRecorded'
      /\ OneEffectPerAuthority' /\ OperatorKnows'
  BY <1>1, AppStill, OperatorStill
<1>3. SliceTypeOK'
  BY <1>1, <1>2 DEF SliceInv, SliceTypeOK, appVars
<1>4. ConnectionsOK' /\ QueuedOnce' /\ AnswersFit'
  BY <1>1, ConnectionsStay
<1>5. ExchangesMoveOnce'
  BY <1>1 DEF SliceInv, ExchangesMoveOnce, IsAnswer
<1>. QED BY <1>2, <1>3, <1>4, <1>5 DEF SliceInv

\* The application drops a connection, saves its state, stops or dies.
LEMMA QuietAppKeeps ==
  ASSUME SliceInv, AppDrop \/ AppSave \/ AppCrash
  PROVE  SliceInv'
<1>1. backlog \in Seq(Connections)
  BY DEF SliceInv, SliceTypeOK
<1>2. CASE AppDrop
  <2>1. backlog # <<>> /\ backlog' = Tail(backlog)
    BY <1>2 DEF AppDrop
  <2>2. backlog' \in Seq(Connections) /\ Leaves(backlog', backlog)
    BY <1>1, <2>1, TailFacts DEF Leaves
  <2>. QED BY <1>2, <2>2, QueueLeftKeeps DEF AppDrop
<1>3. ASSUME backlog' = backlog \/ backlog' = <<>>
      PROVE  backlog' \in Seq(Connections) /\ Leaves(backlog', backlog)
  <2>1. CASE backlog' = backlog
    <3>1. \A i \in DOMAIN backlog' : i + 0 = i /\ i \in DOMAIN backlog
      BY <1>1, <2>1
    <3>. QED BY <1>1, <2>1, <3>1 DEF Leaves
  <2>2. CASE backlog' = <<>>
    BY <2>2 DEF Leaves
  <2>. QED BY <1>3, <2>1, <2>2
<1>4. CASE AppSave
  BY <1>3, <1>4, QueueLeftKeeps DEF AppSave
<1>5. CASE AppCrash
  BY <1>3, <1>5, QueueLeftKeeps DEF AppCrash
<1>. QED BY <1>2, <1>4, <1>5

\* A connection that joins the queue and is no runtime's disturbs no other.
LEMMA JoinsKeep ==
  ASSUME SliceInv, NEW m \in Connections, m.client \notin Runtimes, m.via = None,
         m.request # None => m.request.operation # "invoke",
         m.client = Operator =>
           asking = None /\ asking' # None /\ verdict' = None /\ m.request = asking'.request,
         m.client # Operator => UNCHANGED asking,
         backlog' = Append(backlog, m), asking' \in Asks \cup {None}, OperatorKnows',
         UNCHANGED <<appVars, runtimeVars, agentVars, app_pc, verdict, fence_seen,
                     historyVars>>
  PROVE  SliceInv'
<1>. PICK n : n = Len(backlog) + 1
  OBVIOUS
<1>1. UNCHANGED <<appVars, config, inbox, serving, answer, asked, outcome, app_pc, verdict,
                  fence_seen, used, born, performed>>
  BY DEF runtimeVars, agentVars, historyVars
<1>2. /\ AppTypeOK' /\ AppIInv' /\ CredentialsNumberGrants' /\ EffectsAreRecorded'
      /\ OneEffectPerAuthority'
  BY <1>1, AppStill
<1>3. /\ backlog \in Seq(Connections) /\ backlog' \in Seq(Connections)
      /\ DOMAIN backlog' = DOMAIN backlog \cup {n}
      /\ backlog'[n] = m
      /\ \A i \in DOMAIN backlog : backlog'[i] = backlog[i] /\ backlog[i] \in Connections
  BY AppendFacts DEF SliceInv, SliceTypeOK
<1>4. SliceTypeOK'
  BY <1>1, <1>2, <1>3 DEF SliceInv, SliceTypeOK, appVars
<1>5. None \notin Exchanges
  BY SliceAssumption
<1>6. \A i \in DOMAIN backlog : m.client = Operator => backlog[i].client # Operator
  BY DEF SliceInv, ConnectionsOK, ConnectionOK
<1>7. ConnectionsOK'
  <2>1. ASSUME NEW i \in DOMAIN backlog PROVE ConnectionOK(backlog[i])'
    <3>1. backlog'[i] = backlog[i] /\ ConnectionOK(backlog[i])
      BY <1>3 DEF SliceInv, ConnectionsOK
    <3>. QED BY <1>1, <1>6, <3>1 DEF ConnectionOK
  <2>2. ConnectionOK(backlog[n])'
    BY <1>3, <1>5 DEF ConnectionOK
  <2>. QED BY <1>3, <2>1, <2>2 DEF ConnectionsOK
<1>8. QueuedOnce'
  BY <1>3, <1>5, <1>6 DEF SliceInv, QueuedOnce
<1>9. AnswersFit'
  BY <1>1, <1>3, <1>5 DEF SliceInv, AnswersFit
<1>10. ExchangesMoveOnce'
  BY <1>1 DEF SliceInv, ExchangesMoveOnce, IsAnswer
<1>. QED BY <1>2, <1>4, <1>7, <1>8, <1>9, <1>10 DEF SliceInv

\* A stray connection.
LEMMA StrayKeeps ==
  ASSUME SliceInv, StrayConnects
  PROVE  SliceInv'
<1>. PICK m : m = [client |-> None, via |-> None, request |-> None]
  OBVIOUS
<1>1. /\ backlog' = Append(backlog, m)
      /\ UNCHANGED <<appVars, runtimeVars, agentVars, app_pc, operatorVars, historyVars>>
  BY DEF StrayConnects
<1>2. UNCHANGED <<appVars, config, asking, verdict, fence_seen, born, performed, used>>
  BY <1>1 DEF operatorVars, runtimeVars, historyVars
<1>3. OperatorKnows' /\ asking' \in Asks \cup {None}
  BY <1>2, AppStill, OperatorStill DEF SliceInv, SliceTypeOK
<1>4. m \in Connections /\ m.client \notin Runtimes /\ m.client # Operator
  BY SliceAssumption, SentinelAssumption DEF Connections
<1>. QED BY <1>1, <1>2, <1>3, <1>4, JoinsKeep

\* A control request joins the queue; the control client has no other.
LEMMA OperatorSendKeeps ==
  ASSUME SliceInv, NEW q \in ServerRequests, NEW x \in Runtimes \cup Credentials \cup {None},
         OperatorSend(q, x), q.operation # "invoke",
         q.operation = "revoke" => Names(q.grant_id, x),
         q.operation = "issue_grant" => x \in Runtimes
  PROVE  SliceInv'
<1>. PICK m : m = [client |-> Operator, via |-> None, request |-> q]
  OBVIOUS
<1>1. /\ asking = None
      /\ asking' = [request |-> q, subject |-> x]
      /\ backlog' = Append(backlog, m)
      /\ UNCHANGED <<appVars, runtimeVars, agentVars, app_pc, verdict, fence_seen, historyVars>>
  BY DEF OperatorSend
<1>2. UNCHANGED <<appVars, config, verdict, fence_seen, born, performed, used>>
  BY <1>1 DEF runtimeVars, historyVars
<1>3. verdict = None
  BY <1>1 DEF SliceInv, OperatorKnows
<1>4. asking' \in Asks /\ asking' # None
  BY <1>1, SliceAssumption DEF Asks
<1>5. OperatorKnows'
  <2>1. /\ \A c : Fenced(c) => Fenced(c)'
        /\ \A g, c : Names(g, c) => Names(g, c)'
    BY <1>2, AppStill
  <2>. QED BY <1>1, <1>2, <1>3, <1>4, <2>1 DEF SliceInv, OperatorKnows
<1>6. m \in Connections /\ m.client \notin Runtimes /\ m.client = Operator /\ m.via = None
      /\ m.request = q
  BY SliceAssumption DEF Connections
<1>. QED BY <1>1, <1>2, <1>3, <1>4, <1>5, <1>6, JoinsKeep

\* Grants are issued and revoked, and the server is stopped, by requests of
\* that kind.
LEMMA OperatorAsksKeep ==
  ASSUME SliceInv,
         OperatorShutdown \/ \E r \in Runtimes : OperatorIssue(r) \/ OperatorRevoke(r)
  PROVE  SliceInv'
<1>1. ASSUME NEW r \in Runtimes, OperatorIssue(r) PROVE SliceInv'
  <2>. PICK q : q = [operation |-> "issue_grant", control |-> TRUE, runtime_id |-> r,
                     agent_id |-> AgentOf[r], actions |-> Actions]
    OBVIOUS
  <2>1. q \in ServerRequests /\ q.operation = "issue_grant"
    BY SliceAssumption DEF ServerRequests, IssueRequests, ActionNames
  <2>. QED BY <1>1, <2>1, OperatorSendKeeps DEF OperatorIssue
<1>2. ASSUME NEW r \in Runtimes, OperatorRevoke(r) PROVE SliceInv'
  <2>. PICK q : q = [operation |-> "revoke", control |-> TRUE,
                     grant_id |-> config[r].grant_id]
    OBVIOUS
  <2>1. config[r] \in PrivateGrants /\ Names(config[r].grant_id, config[r].credential)
    BY <1>2 DEF OperatorRevoke, SliceInv, SliceTypeOK, OperatorKnows
  <2>2. q \in ServerRequests /\ q.operation = "revoke" /\ q.grant_id = config[r].grant_id
        /\ config[r].credential \in Credentials
    BY <2>1 DEF PrivateGrants, ServerRequests, RevokeRequests
  <2>. QED BY <1>2, <2>1, <2>2, OperatorSendKeeps DEF OperatorRevoke
<1>3. ASSUME OperatorShutdown PROVE SliceInv'
  <2>. PICK q : q = [operation |-> "shutdown", control |-> TRUE]
    OBVIOUS
  <2>1. q \in ServerRequests /\ q.operation = "shutdown"
    BY DEF ServerRequests, OtherRequests
  <2>. QED BY <1>3, <2>1, OperatorSendKeeps DEF OperatorShutdown
<1>. QED BY <1>1, <1>2, <1>3

\* An issued grant reaches a new runtime; the one it replaces leaves nothing
\* but abandoned connections behind.
LEMMA ProvisionKeeps ==
  ASSUME SliceInv, OperatorProvision
  PROVE  SliceInv'
<1>. PICK r : r = asking.subject
  OBVIOUS
<1>1. /\ asking # None /\ verdict # None
      /\ asking.request.operation = "issue_grant" /\ verdict.ok
      /\ config' = [config EXCEPT ![r] = verdict.result]
      /\ inbox' = [inbox EXCEPT ![r] = <<>>]
      /\ serving' = [serving EXCEPT ![r] = None]
      /\ answer' = [answer EXCEPT ![r] = None]
      /\ backlog' = Abandoned(r)
      /\ asking' = None /\ verdict' = None
      /\ UNCHANGED <<appVars, asked, outcome, app_pc, fence_seen, used, born, performed>>
  BY DEF OperatorProvision, agentVars, historyVars
<1>2. /\ r \in Runtimes
      /\ verdict.result \in PrivateGrants
      /\ Names(verdict.result.grant_id, verdict.result.credential)
  BY <1>1 DEF SliceInv, OperatorKnows
<1>3. /\ AppTypeOK' /\ AppIInv' /\ CredentialsNumberGrants' /\ EffectsAreRecorded'
      /\ OneEffectPerAuthority'
      /\ \A c : Fenced(c) => Fenced(c)'
      /\ \A g, c : Names(g, c) => Names(g, c)'
  BY <1>1, AppStill
<1>4. /\ config' \in [Runtimes -> PrivateGrants \cup {None}]
      /\ inbox' \in [Runtimes -> Seq(Exchanges)]
      /\ serving' \in [Runtimes -> Exchanges \cup {None}]
      /\ DOMAIN answer' = Runtimes
      /\ config'[r] = verdict.result /\ inbox'[r] = <<>>
      /\ serving'[r] = None /\ answer'[r] = None
      /\ \A s \in Runtimes \ {r} : /\ config'[s] = config[s] /\ inbox'[s] = inbox[s]
                                   /\ serving'[s] = serving[s] /\ answer'[s] = answer[s]
  BY <1>1, <1>2 DEF SliceInv, SliceTypeOK
<1>5. /\ backlog' \in Seq(Connections) /\ Leaves(backlog', backlog)
      /\ DOMAIN backlog' = DOMAIN backlog
      /\ \A i \in DOMAIN backlog :
           /\ backlog'[i].via = backlog[i].via /\ backlog'[i].request = backlog[i].request
           /\ backlog[i].client = r => backlog'[i].client = None
           /\ backlog[i].client # r => backlog'[i].client = backlog[i].client
  BY <1>1, AbandonedFacts DEF SliceInv
<1>6. SliceTypeOK'
  BY <1>1, <1>3, <1>4, <1>5 DEF SliceInv, SliceTypeOK, appVars
<1>7. ExchangesMoveOnce'
  <2>1. ASSUME NEW s \in Runtimes
        PROVE  InboxOK(inbox'[s], AgentOf[s], config'[s], used, outcome)
    <3>1. CASE s = r
      BY <1>4, <3>1 DEF InboxOK
    <3>2. CASE s # r
      BY <1>4, <3>2 DEF SliceInv, ExchangesMoveOnce
    <3>. QED BY <3>1, <3>2
  <2>. QED BY <1>1, <2>1 DEF SliceInv, ExchangesMoveOnce, IsAnswer
<1>8. ConnectionsOK'
  <2>1. ASSUME NEW i \in DOMAIN backlog PROVE ConnectionOK(backlog[i])'
    <3>1. ConnectionOK(backlog[i])
      BY DEF SliceInv, ConnectionsOK
    <3>2. None # Operator /\ None \notin Runtimes
      BY SliceAssumption, SentinelAssumption
    <3>3. backlog'[i].client # r /\ backlog'[i].client \in {backlog[i].client, None}
          /\ backlog'[i].client # Operator
      BY <1>1, <1>2, <1>5, <3>1, <3>2 DEF ConnectionOK
    <3>. QED BY <1>1, <1>4, <1>5, <3>1, <3>2, <3>3 DEF ConnectionOK
  <2>. QED BY <1>5, <2>1 DEF ConnectionsOK
<1>9. QueuedOnce'
  BY <1>5, QueuedOnceStays
<1>10. AnswersFit'
  <2>1. \A s \in Runtimes : serving'[s] \in Exchanges => used'[serving'[s]] # 0
    BY <1>1, <1>4, SliceAssumption DEF SliceInv, AnswersFit
  <2>2. ASSUME NEW s \in Runtimes, answer'[s] # None
        PROVE  /\ serving'[s] \in Exchanges
               /\ Fits(serving'[s], answer'[s], performed, used[serving'[s]], asked[serving'[s]])
               /\ \A i \in DOMAIN backlog' : backlog'[i].via # serving'[s]
    <3>1. serving'[s] = serving[s] /\ answer'[s] = answer[s] /\ answer[s] # None
      BY <1>4, <2>2
    <3>2. /\ serving[s] \in Exchanges
          /\ Fits(serving[s], answer[s], performed, used[serving[s]], asked[serving[s]])
          /\ \A i \in DOMAIN backlog : backlog[i].via # serving[s]
      BY <3>1 DEF SliceInv, AnswersFit
    <3>. QED BY <1>5, <3>1, <3>2
  <2>. QED BY <1>1, <2>1, <2>2 DEF SliceInv, AnswersFit
<1>11. OperatorKnows'
  <2>1. (\A s \in Runtimes :
           config[s] # None => Names(config[s].grant_id, config[s].credential))'
    <3>1. \A s \in Runtimes :
            config'[s] # None => Names(config'[s].grant_id, config'[s].credential)
      BY <1>2, <1>4 DEF SliceInv, OperatorKnows
    <3>. QED BY <1>3, <3>1
  <2>2. \A c \in fence_seen' : Fenced(c)'
    BY <1>1, <1>3 DEF SliceInv, OperatorKnows
  <2>. QED BY <1>1, <2>1, <2>2 DEF OperatorKnows
<1>. QED BY <1>3, <1>6, <1>7, <1>8, <1>9, <1>10, <1>11 DEF SliceInv

\* A confirmed revocation is one the control client asked for and the server
\* established.
LEMMA ReceiveKeeps ==
  ASSUME SliceInv, OperatorReceive
  PROVE  SliceInv'
<1>1. /\ asking # None /\ verdict # None
      /\ fence_seen' = IF asking.request.operation = "revoke" /\ verdict.ok
                       THEN fence_seen \cup {asking.subject} ELSE fence_seen
      /\ asking' = None /\ verdict' = None
      /\ UNCHANGED <<appVars, config, inbox, serving, answer, asked, outcome, backlog,
                     app_pc, used, born, performed>>
  BY DEF OperatorReceive, runtimeVars, agentVars, serverVars, historyVars
<1>2. /\ AppTypeOK' /\ AppIInv' /\ CredentialsNumberGrants' /\ EffectsAreRecorded'
      /\ OneEffectPerAuthority'
      /\ \A c : Fenced(c) => Fenced(c)'
      /\ \A g, c : Names(g, c) => Names(g, c)'
  BY <1>1, AppStill
<1>3. /\ fence_seen' \subseteq Credentials
      /\ \A c \in fence_seen' : Fenced(c)
  <2>1. /\ fence_seen \subseteq Credentials
        /\ drawn \in 0 .. MaxCredentials /\ MaxCredentials \in Nat
    BY BoundsAssumption DEF SliceInv, SliceTypeOK, AppTypeOK
  <2>2. \A c \in fence_seen : Fenced(c)
    BY DEF SliceInv, OperatorKnows
  <2>3. CASE asking.request.operation = "revoke" /\ verdict.ok
    <3>1. /\ Names(asking.request.grant_id, asking.subject)
          /\ Fenced(asking.subject)
      BY <1>1, <2>3 DEF SliceInv, OperatorKnows
    <3>2. asking.subject \in Credentials
      BY <2>1, <3>1 DEF Names, Credentials
    <3>. QED BY <1>1, <2>1, <2>2, <2>3, <3>1, <3>2
  <2>4. CASE ~ (asking.request.operation = "revoke" /\ verdict.ok)
    BY <1>1, <2>1, <2>2, <2>4
  <2>. QED BY <2>3, <2>4
<1>4. SliceTypeOK'
  BY <1>1, <1>2, <1>3 DEF SliceInv, SliceTypeOK, appVars
<1>5. ExchangesMoveOnce'
  BY <1>1 DEF SliceInv, ExchangesMoveOnce, IsAnswer
<1>6. ConnectionsOK'
  <2>1. ASSUME NEW i \in DOMAIN backlog PROVE ConnectionOK(backlog[i])'
    <3>1. ConnectionOK(backlog[i])
      BY DEF SliceInv, ConnectionsOK
    <3>. QED BY <1>1, <3>1 DEF ConnectionOK
  <2>. QED BY <1>1, <2>1 DEF ConnectionsOK
<1>7. QueuedOnce' /\ AnswersFit'
  BY <1>1 DEF SliceInv, QueuedOnce, AnswersFit
<1>8. OperatorKnows'
  <2>1. (\A s \in Runtimes :
           config[s] # None => Names(config[s].grant_id, config[s].credential))'
    <3>1. \A s \in Runtimes :
            config'[s] # None => Names(config'[s].grant_id, config'[s].credential)
      BY <1>1 DEF SliceInv, OperatorKnows
    <3>. QED BY <1>2, <3>1
  <2>2. \A c \in fence_seen' : Fenced(c)'
    BY <1>2, <1>3
  <2>. QED BY <1>1, <2>1, <2>2 DEF OperatorKnows
<1>. QED BY <1>2, <1>4, <1>5, <1>6, <1>7, <1>8 DEF SliceInv

\* A control client that gives up has no answer, and asks nothing any more.
LEMMA OperatorGiveUpKeeps ==
  ASSUME SliceInv, OperatorGiveUp
  PROVE  SliceInv'
<1>1. /\ asking # None /\ verdict = None
      /\ asking' = None
      /\ backlog' = Abandoned(Operator)
      /\ UNCHANGED <<appVars, config, inbox, serving, answer, asked, outcome, app_pc,
                     verdict, fence_seen, used, born, performed>>
  BY DEF OperatorGiveUp, runtimeVars, agentVars, historyVars
<1>2. /\ AppTypeOK' /\ AppIInv' /\ CredentialsNumberGrants' /\ EffectsAreRecorded'
      /\ OneEffectPerAuthority'
      /\ \A c : Fenced(c) => Fenced(c)'
      /\ \A g, c : Names(g, c) => Names(g, c)'
  BY <1>1, AppStill
<1>3. /\ backlog' \in Seq(Connections) /\ Leaves(backlog', backlog)
      /\ DOMAIN backlog' = DOMAIN backlog
      /\ \A i \in DOMAIN backlog :
           /\ backlog'[i].via = backlog[i].via /\ backlog'[i].request = backlog[i].request
           /\ backlog[i].client = Operator => backlog'[i].client = None
           /\ backlog[i].client # Operator => backlog'[i].client = backlog[i].client
  BY <1>1, AbandonedFacts DEF SliceInv
<1>4. SliceTypeOK'
  BY <1>1, <1>2, <1>3 DEF SliceInv, SliceTypeOK, appVars
<1>5. ExchangesMoveOnce'
  BY <1>1 DEF SliceInv, ExchangesMoveOnce, IsAnswer
<1>6. ConnectionsOK'
  <2>1. ASSUME NEW i \in DOMAIN backlog PROVE ConnectionOK(backlog[i])'
    <3>1. ConnectionOK(backlog[i])
      BY DEF SliceInv, ConnectionsOK
    <3>2. None # Operator /\ None \notin Runtimes /\ Operator \notin Runtimes
      BY SliceAssumption, SentinelAssumption
    <3>3. backlog'[i].client # Operator /\ backlog'[i].client \in {backlog[i].client, None}
      BY <1>3, <3>2
    <3>. QED BY <1>1, <1>3, <3>1, <3>2, <3>3 DEF ConnectionOK
  <2>. QED BY <1>3, <2>1 DEF ConnectionsOK
<1>7. QueuedOnce'
  BY <1>3, QueuedOnceStays
<1>8. AnswersFit'
  <2>1. \A s \in Runtimes : answer[s] # None =>
          /\ serving[s] \in Exchanges
          /\ Fits(serving[s], answer[s], performed, used[serving[s]], asked[serving[s]])
          /\ \A i \in DOMAIN backlog' : backlog'[i].via # serving[s]
    BY <1>3 DEF SliceInv, AnswersFit
  <2>. QED BY <1>1, <2>1 DEF SliceInv, AnswersFit
<1>9. OperatorKnows'
  <2>1. (\A s \in Runtimes :
           config[s] # None => Names(config[s].grant_id, config[s].credential))'
    <3>1. \A s \in Runtimes :
            config'[s] # None => Names(config'[s].grant_id, config'[s].credential)
      BY <1>1 DEF SliceInv, OperatorKnows
    <3>. QED BY <1>2, <3>1
  <2>2. \A c \in fence_seen' : Fenced(c)'
    BY <1>1, <1>2 DEF SliceInv, OperatorKnows
  <2>. QED BY <1>1, <2>1, <2>2 DEF OperatorKnows
<1>. QED BY <1>2, <1>4, <1>5, <1>6, <1>7, <1>8, <1>9 DEF SliceInv

----------------------------------------------------------------------------
(****************************************************************************)
(* The application.                                                         *)
(****************************************************************************)

\* A restarted server numbers its grants from one, but every credential drawn
\* before is of an earlier life and has lost its effects' receipts.
LEMMA RestartKeeps ==
  ASSUME SliceInv, AppRestart
  PROVE  SliceInv'
<1>1. /\ Restart /\ app_pc' = "saving" /\ born' = drawn
      /\ UNCHANGED <<config, inbox, serving, answer, asked, outcome, backlog, asking,
                     verdict, fence_seen, used, performed>>
  BY DEF AppRestart, runtimeVars, agentVars, operatorVars
<1>2. /\ grants' = <<>> /\ next_grant' = 0 /\ receipts' = <<>> /\ drawn' = drawn
      /\ DOMAIN grants' = {} /\ DOMAIN receipts' = {}
  BY <1>1 DEF Restart
<1>3. AppIInv' /\ AppTypeOK'
  <2>1. [ServerNext]_appVars
    BY <1>1 DEF ServerNext
  <2>2. AppIInv'
    BY <2>1, InvNext DEF SliceInv
  <2>. QED BY <2>2 DEF AppIInv
<1>4. /\ drawn \in Nat /\ born \in 0 .. drawn /\ drawn = born + next_grant
      /\ DOMAIN grants = 1 .. next_grant /\ next_grant \in Nat
      /\ used \in [Exchanges -> 0 .. drawn]
  BY BoundsAssumption DEF SliceInv, SliceTypeOK, AppTypeOK, CredentialsNumberGrants
<1>5. CredentialsNumberGrants'
  BY <1>1, <1>2, <1>4 DEF CredentialsNumberGrants
<1>6. SliceTypeOK'
  <2>1. born' \in 0 .. drawn'
    BY <1>1, <1>2, <1>4
  <2>. QED BY <1>1, <1>2, <1>3, <2>1 DEF SliceInv, SliceTypeOK
<1>7. ExchangesMoveOnce'
  BY <1>1 DEF SliceInv, ExchangesMoveOnce, IsAnswer
<1>8. ConnectionsOK'
  <2>1. ASSUME NEW i \in DOMAIN backlog PROVE ConnectionOK(backlog[i])'
    <3>1. ConnectionOK(backlog[i])
      BY DEF SliceInv, ConnectionsOK
    <3>. QED BY <1>1, <3>1 DEF ConnectionOK
  <2>. QED BY <1>1, <2>1 DEF ConnectionsOK
<1>9. QueuedOnce' /\ AnswersFit' /\ OneEffectPerAuthority'
  BY <1>1 DEF SliceInv, QueuedOnce, AnswersFit, OneEffectPerAuthority
<1>10. EffectsAreRecorded'
  <2>1. \A p \in performed : used[p.via] # 0 /\ p.credential <= drawn /\ p.credential \in Nat
    BY DEF SliceInv, EffectsAreRecorded, SliceTypeOK, Effects, Credentials
  <2>. QED BY <1>1, <1>2, <1>4, <2>1 DEF EffectsAreRecorded
<1>11. /\ \A c \in Nat : Fenced(c) => Fenced(c)'
       /\ \A g, c : Names(g, c) => Names(g, c)'
  <2>1. ASSUME NEW c \in Nat, Fenced(c) PROVE Fenced(c)'
    <3>1. CASE c <= born
      BY <1>1, <1>2, <1>4, <3>1 DEF Fenced
    <3>2. CASE \E g \in DOMAIN grants : c = born + g
      BY <1>1, <1>2, <1>4, <3>2 DEF Fenced
    <3>. QED BY <2>1, <3>1, <3>2 DEF Fenced
  <2>2. ASSUME NEW g, NEW c, Names(g, c) PROVE Names(g, c)'
    BY <1>1, <1>2, <1>4, <2>2 DEF Names
  <2>. QED BY <2>1, <2>2
<1>12. OperatorKnows'
  BY <1>1, <1>11, OperatorStill
<1>. QED BY <1>3, <1>5, <1>6, <1>7, <1>8, <1>9, <1>10, <1>12 DEF SliceInv

\* Whatever request is handled, credentials are drawn as grants are numbered,
\* grants keep their credentials and fences, and either one effect is recorded
\* or none.
LEMMA HandleFacts ==
  ASSUME SliceInv, NEW q \in ServerRequests, Handle(q), born' = born
  PROVE  /\ AppIInv' /\ AppTypeOK' /\ CredentialsNumberGrants'
         /\ drawn \in Nat /\ drawn' \in Nat /\ drawn <= drawn'
         /\ DOMAIN grants \subseteq DOMAIN grants'
         /\ \A g \in DOMAIN grants : ~ grants[g].active => ~ grants'[g].active
         /\ CreateComment(q) \/ UNCHANGED receipts
<1>1. [ServerNext]_appVars
  BY DEF ServerNext
<1>2. AppIInv' /\ AppTypeOK /\ AppTypeOK'
  <2>1. AppIInv'
    BY <1>1, InvNext DEF SliceInv
  <2>. QED BY <2>1 DEF SliceInv, AppIInv
<1>3. /\ MaxCredentials \in Nat /\ drawn \in Nat /\ drawn' \in Nat /\ next_grant \in Nat
      /\ born \in Nat /\ drawn = born + next_grant
      /\ DOMAIN grants = 1 .. next_grant
      /\ \A g \in DOMAIN grants : grants[g] \in Grant /\ grants[g].credential = born + g
  BY <1>2, BoundsAssumption DEF SliceInv, SliceTypeOK, AppTypeOK, CredentialsNumberGrants
<1>4. CASE IssueGrant(q)
  <2>. PICK v : v = [runtime_id |-> q.runtime_id, agent_id |-> q.agent_id,
                     credential |-> NewCredential, actions |-> q.actions, active |-> TRUE]
    OBVIOUS
  <2>1. /\ drawn' = drawn + 1 /\ next_grant' = next_grant + 1
        /\ grants' = Put(grants, next_grant + 1, v)
        /\ v.credential = drawn + 1
        /\ UNCHANGED receipts
    BY <1>4 DEF IssueGrant, NewGrantId, NewCredential, ledgerVars
  <2>2. next_grant + 1 \notin DOMAIN grants
    BY <1>3
  <2>3. /\ DOMAIN grants' = DOMAIN grants \cup {next_grant + 1}
        /\ grants'[next_grant + 1] = v
        /\ \A g \in DOMAIN grants : grants'[g] = grants[g]
    BY <2>1, <2>2 DEF Put
  <2>4. CredentialsNumberGrants'
    <3>1. drawn + 1 = born + (next_grant + 1)
      BY <1>3
    <3>. QED BY <1>3, <2>1, <2>3, <3>1 DEF CredentialsNumberGrants
  <2>5. drawn <= drawn'
    BY <1>3, <2>1
  <2>. QED BY <1>2, <1>3, <2>1, <2>3, <2>4, <2>5
<1>5. CASE Revoke(q)
  <2>1. /\ grants' = [grants EXCEPT ![q.grant_id].active = FALSE]
        /\ UNCHANGED <<next_grant, receipts, drawn>>
    BY <1>5 DEF Revoke, ledgerVars
  <2>2. DOMAIN grants' = DOMAIN grants
        /\ \A g \in DOMAIN grants : /\ grants'[g].credential = grants[g].credential
                                    /\ ~ grants[g].active => ~ grants'[g].active
    BY <1>3, <2>1 DEF Grant
  <2>3. CredentialsNumberGrants'
    BY <1>3, <2>1, <2>2 DEF CredentialsNumberGrants
  <2>. QED BY <1>2, <1>3, <2>1, <2>2, <2>3
<1>6. CASE CreateComment(q) \/ Deny(q) \/ CredentialGenerationFailed(q) \/ Answer(q)
  <2>1. UNCHANGED <<grants, next_grant, drawn>>
    BY <1>6 DEF CreateComment, Deny, CredentialGenerationFailed, Answer, appVars, stateVars
  <2>2. CreateComment(q) \/ UNCHANGED receipts
    BY <1>6 DEF Deny, CredentialGenerationFailed, Answer, appVars, stateVars, ledgerVars
  <2>3. CredentialsNumberGrants'
    BY <2>1 DEF SliceInv, CredentialsNumberGrants
  <2>. QED BY <1>2, <1>3, <2>1, <2>2, <2>3
<1>. QED BY <1>4, <1>5, <1>6 DEF Handle

\* A request for a comment succeeds or is answered with an error, and a
\* conflict is with something recorded under the grant it was sent with.
LEMMA CommentAnswered ==
  ASSUME NEW q \in ServerRequests, q.operation = "invoke", q.action_id = COMMENT_ACTION
  PROVE  /\ Decision(q) # "granted" /\ Decision(q) # "stopped"
         /\ Decision(q) \in {"created", "replayed"}
            \/ Response(q) = [ok |-> FALSE, error |-> Decision(q)]
         /\ Decision(q) = "idempotency_conflict" =>
              /\ q.grant_id \in DOMAIN grants /\ DelegateMatches(q)
              /\ IsConflict(q)
<1>1. Decision(q) = InvokeDecision(q)
  BY DEF Decision
<1>2. InvokeDecision(q) \in {"created", "replayed"} \cup Denials \cup UncountedErrors
  BY DEF InvokeDecision, Denials, UncountedErrors
<1>3. "granted" \notin {"created", "replayed"} \cup Denials \cup UncountedErrors
      /\ "stopped" \notin {"created", "replayed"} \cup Denials \cup UncountedErrors
  BY DEF Denials, UncountedErrors
<1>4. Decision(q) = "idempotency_conflict" =>
        q.grant_id \in DOMAIN grants /\ DelegateMatches(q) /\ IsConflict(q)
  BY <1>1 DEF InvokeDecision
<1>5. Decision(q) \in Denials \cup UncountedErrors => Response(q) = [ok |-> FALSE, error |-> Decision(q)]
  BY DEF Response
<1>. QED BY <1>1, <1>2, <1>3, <1>4, <1>5

\* A revocation is confirmed only for a grant that is inactive after it.
LEMMA RevocationAnswered ==
  ASSUME NEW q \in ServerRequests, q.operation = "revoke", Handle(q), AppTypeOK
  PROVE  /\ Decision(q) # "granted"
         /\ Response(q).ok => q.grant_id \in DOMAIN grants' /\ ~ grants'[q.grant_id].active
<1>1. Decision(q) = RevokeDecision(q)
  BY DEF Decision
<1>2. RevokeDecision(q) \in {"control_unauthorized", "missing_member", "revoke_unknown",
                             "fence_established", "revoke_replayed"}
  BY DEF RevokeDecision
<1>3. CASE Decision(q) \in {"control_unauthorized", "missing_member", "revoke_unknown"}
  <2>1. Decision(q) \in Denials \cup UncountedErrors
    BY <1>3 DEF Denials, UncountedErrors
  <2>2. ~ Response(q).ok
    BY <2>1 DEF Response
  <2>. QED BY <1>3, <2>2
<1>4. CASE Decision(q) = "fence_established"
  <2>1. Revoke(q)
    BY <1>4 DEF Handle, CreateComment, IssueGrant, CredentialGenerationFailed, Deny, Answer,
                Denials, Reads, UncountedErrors
  <2>2. q.grant_id \in DOMAIN grants /\ grants[q.grant_id] \in Grant
    BY <1>4, RevokeAdmitted DEF AppTypeOK
  <2>. QED BY <1>4, <2>1, <2>2 DEF Revoke, Grant
<1>5. CASE Decision(q) = "revoke_replayed"
  <2>1. UNCHANGED appVars
    BY <1>5 DEF Handle, CreateComment, IssueGrant, CredentialGenerationFailed, Deny, Answer,
                Denials, Revoke
  <2>2. q.grant_id \in DOMAIN grants /\ ~ grants[q.grant_id].active
    BY <1>1, <1>5 DEF RevokeDecision
  <2>. QED BY <1>5, <2>1, <2>2 DEF appVars, stateVars
<1>. QED BY <1>1, <1>2, <1>3, <1>4, <1>5

\* A grant is handed out only if a credential was drawn for it, and names it.
LEMMA IssueAnswered ==
  ASSUME SliceInv, NEW q \in ServerRequests, q.operation = "issue_grant", Handle(q),
         born' = born, NEW response \in Responses(q), response.ok
  PROVE  /\ response.result \in PrivateGrants
         /\ Names(response.result.grant_id, response.result.credential)'
<1>1. Decision(q) = IssueDecision(q)
  BY DEF Decision
<1>2. Decision(q) = "granted"
  <2>1. IssueDecision(q) \in {"control_unauthorized", "missing_member", "grant_scope_invalid",
                              "granted"}
    BY DEF IssueDecision
  <2>2. ASSUME Decision(q) # "granted" PROVE ~ response.ok
    <3>1. Decision(q) \in Denials \cup UncountedErrors
      BY <1>1, <2>1, <2>2 DEF Denials, UncountedErrors
    <3>2. response = Response(q)
      BY <2>2 DEF Responses
    <3>. QED BY <3>1, <3>2 DEF Response
  <2>. QED BY <2>2
<1>3. drawn' # drawn /\ response = Response(q)
  BY <1>2 DEF Responses
<1>4. IssueGrant(q)
  BY <1>2, <1>3 DEF Handle, CreateComment, CredentialGenerationFailed, Deny, Answer, Revoke,
                    Denials, Reads, UncountedErrors, appVars
<1>5. Response(q) = [ok |-> TRUE, result |-> [grant_id |-> NewGrantId,
                                               credential |-> NewCredential]]
  BY <1>2 DEF Response, Denials, UncountedErrors
<1>6. /\ drawn < MaxCredentials /\ drawn' = drawn + 1 /\ next_grant' = next_grant + 1
  BY <1>4 DEF IssueGrant
<1>7. /\ MaxCredentials \in Nat /\ drawn \in Nat /\ next_grant \in Nat /\ born \in Nat
      /\ drawn = born + next_grant
  BY BoundsAssumption DEF SliceInv, SliceTypeOK, AppTypeOK, CredentialsNumberGrants
<1>8. NewGrantId = next_grant + 1 /\ NewCredential = drawn + 1
  BY DEF NewGrantId, NewCredential
<1>9. [grant_id |-> next_grant + 1, credential |-> drawn + 1] \in PrivateGrants
  <2>1. next_grant + 1 \in GrantIds /\ drawn + 1 \in Credentials
    BY <1>6, <1>7 DEF GrantIds, Credentials
  <2>. QED BY <2>1 DEF PrivateGrants
<1>10. response.result = [grant_id |-> next_grant + 1, credential |-> drawn + 1]
  BY <1>3, <1>5, <1>8
<1>11. PICK g, c : g = next_grant + 1 /\ c = drawn + 1
  OBVIOUS
<1>12. c \in 1 .. drawn' /\ c = born' + g
  BY <1>6, <1>7, <1>11
<1>13. Names(g, c)'
  BY <1>12 DEF Names
<1>14. response.result.grant_id = g /\ response.result.credential = c
  BY <1>10, <1>11
<1>. QED BY <1>9, <1>10, <1>13, <1>14

\* The connection the application serves, and the ones it leaves in the queue.
LEMMA ServeFacts ==
  ASSUME SliceInv, AppServe, NEW m, m = Head(backlog)
  PROVE  /\ m \in Connections /\ ConnectionOK(m)
         /\ m.request # None /\ m.request \in ServerRequests /\ Handle(m.request)
         /\ \E response \in Responses(m.request) : Deliver(m.client, response)
         /\ performed' = performed \cup Served(m)
         /\ app_pc' \in {"stopping", "saving"}
         /\ backlog' \in Seq(Connections) /\ Leaves(backlog', backlog)
         /\ \A i \in DOMAIN backlog' :
              /\ \E j \in DOMAIN backlog : backlog'[i] = backlog[j]
              /\ m.via \in Exchanges => backlog'[i].via # m.via
              /\ m.client \in Runtimes \cup {Operator} => backlog'[i].client # m.client
         /\ UNCHANGED <<config, inbox, serving, asked, outcome, asking, fence_seen, used, born>>
<1>1. /\ backlog # <<>> /\ m.request # None /\ Handle(m.request)
      /\ \E response \in Responses(m.request) : Deliver(m.client, response)
      /\ performed' = performed \cup Served(m)
      /\ app_pc' \in {"stopping", "saving"}
      /\ backlog' = Tail(backlog)
      /\ UNCHANGED <<config, inbox, serving, asked, outcome, asking, fence_seen, used, born>>
  BY DEF AppServe, agentVars
<1>2. backlog \in Seq(Connections)
  BY DEF SliceInv, SliceTypeOK
<1>3. /\ backlog' \in Seq(Connections)
      /\ m = backlog[1] /\ 1 \in DOMAIN backlog /\ m \in Connections
      /\ \A i \in DOMAIN backlog' :
           i \in Nat /\ i + 1 \in DOMAIN backlog /\ i + 1 # 1 /\ backlog'[i] = backlog[i + 1]
  BY <1>1, <1>2, TailFacts
<1>4. ConnectionOK(m)
  BY <1>3 DEF SliceInv, ConnectionsOK
<1>5. m.request \in ServerRequests
  BY <1>1, <1>3 DEF Connections
<1>6. Leaves(backlog', backlog)
  BY <1>3 DEF Leaves
<1>7. ASSUME NEW j \in DOMAIN backlog, j # 1
      PROVE  /\ m.via \in Exchanges => backlog[j].via # m.via
             /\ m.client \in Runtimes \cup {Operator} => backlog[j].client # m.client
  <2>1. /\ m.via \in Exchanges => backlog[j].via # m.via
        /\ m.client = Operator => backlog[j].client # Operator
    BY <1>3, <1>7 DEF SliceInv, QueuedOnce
  <2>2. ASSUME m.client \in Runtimes PROVE backlog[j].client # m.client
    <3>1. ConnectionOK(backlog[j])
      BY DEF SliceInv, ConnectionsOK
    <3>. QED BY <1>4, <2>1, <2>2, <3>1 DEF ConnectionOK
  <2>. QED BY <2>1, <2>2
<1>. QED BY <1>1, <1>3, <1>4, <1>5, <1>6, <1>7

\* The effect of connection m is performed, with receipt n.
Adds(m, n) ==
  performed' = performed \cup {[via |-> m.via, credential |-> m.request.credential,
                                receipt |-> receipts'[n]]}

\* The effect of a request for a comment: who it is for, under which
\* credential, and what its answer says.
LEMMA EffectFacts ==
  ASSUME SliceInv, AppServe, NEW m, m = Head(backlog), NEW q, q = m.request,
         CreateComment(q), NEW n, n = Len(receipts) + 1
  PROVE  /\ m.via \in Exchanges
         /\ Carries(m.via, q, used[m.via], asked[m.via])
         /\ q.grant_id \in DOMAIN grants /\ grants[q.grant_id].active
         /\ q.credential = born + q.grant_id
         /\ n \notin DOMAIN receipts /\ DOMAIN receipts' = DOMAIN receipts \cup {n}
         /\ \A i \in DOMAIN receipts : receipts'[i] = receipts[i]
         /\ receipts'[n] \in Receipt
         /\ receipts'[n].execution_hash = ExecutionHash(q)
         /\ IdempotencyScope(q) \notin DOMAIN idempotency
         /\ ExecutionScope(q) \notin DOMAIN executions
         /\ Adds(m, n)
         /\ Decision(q) = "created"
         /\ Response(q) = [ok |-> TRUE, result |-> ResultOf(receipts'[n])]
<1>1. /\ m \in Connections /\ ConnectionOK(m)
      /\ m.request # None /\ q \in ServerRequests /\ Handle(q)
      /\ performed' = performed \cup Served(m) /\ born' = born
  BY ServeFacts
<1>2. AppTypeOK /\ LedgerAgrees /\ Decision(q) = "created"
  BY DEF SliceInv, AppIInv, CreateComment
<1>3. /\ q.operation = "invoke" /\ q.action_id = COMMENT_ACTION
      /\ q.grant_id \in DOMAIN grants /\ grants[q.grant_id].active /\ DelegateMatches(q)
      /\ IdempotencyScope(q) \notin DOMAIN idempotency
      /\ ExecutionScope(q) \notin DOMAIN executions
  BY <1>1, <1>2, InvokeAdmitted
<1>4. m.via \in Exchanges
  BY <1>1, <1>3 DEF Connections, ConnectionOK
<1>5. Carries(m.via, q, used[m.via], asked[m.via])
  BY <1>1, <1>4 DEF ConnectionOK
<1>6. q.credential = born + q.grant_id
  BY <1>3 DEF DelegateMatches, SliceInv, CredentialsNumberGrants
<1>7. /\ n \notin DOMAIN receipts /\ DOMAIN receipts' = DOMAIN receipts \cup {n}
      /\ Len(receipts') = n
      /\ receipts'[n] = [receipt_id |-> n, execution_hash |-> ExecutionHash(q),
                         comment_id |-> n]
      /\ \A i \in DOMAIN receipts : receipts'[i] = receipts[i]
  BY <1>1, <1>2, CreatedState
<1>8. receipts'[n] \in Receipt
  <2>1. receipts' \in Seq(Receipt)
    BY <1>1, HandleFacts DEF AppTypeOK
  <2>. QED BY <1>7, <2>1
<1>9. Served(m) = {[via |-> m.via, credential |-> q.credential, receipt |-> receipts'[n]]}
  <2>1. Len(receipts) \in Nat
    BY <1>2 DEF AppTypeOK
  <2>. QED BY <1>7, <2>1 DEF Served
<1>10. Response(q) = [ok |-> TRUE, result |-> ResultOf(receipts'[n])]
  <2>1. Len(comments) = Len(receipts) /\ next_receipt = Len(receipts)
    BY <1>2 DEF LedgerAgrees
  <2>2. Response(q) = [ok |-> TRUE, result |-> Result(q)]
    BY <1>2 DEF Response, Denials, UncountedErrors
  <2>3. Result(q) = ResultOf(receipts'[n])
    BY <1>7, <2>1 DEF Result, ResultOf, NewComment, NewReceipt, ExecutionHash
  <2>. QED BY <2>2, <2>3
<1>11. Adds(m, n)
  BY <1>1, <1>9 DEF Adds
<1>. QED BY <1>2, <1>3, <1>4, <1>5, <1>6, <1>7, <1>8, <1>10, <1>11

\* What serving a connection adds to what has been performed: at most one
\* effect, for the exchange of that connection and under the credential of a
\* grant of this life that is active when it is performed.
LEMMA ServeAdds ==
  ASSUME SliceInv, AppServe, NEW m, m = Head(backlog)
  PROVE  /\ performed \subseteq performed' /\ performed' \subseteq Effects
         /\ \A p \in performed' \ performed :
              /\ p.via = m.via /\ p.via \in Exchanges /\ used[p.via] # 0
              /\ \E g \in DOMAIN grants : p.credential = born + g /\ grants[g].active
         /\ ~ CreateComment(m.request) => performed' = performed /\ receipts' = receipts
<1>1. /\ ConnectionOK(m) /\ m.request \in ServerRequests /\ Handle(m.request)
      /\ performed' = performed \cup Served(m) /\ born' = born
  BY ServeFacts
<1>2. performed \subseteq Effects
  BY DEF SliceInv, SliceTypeOK
<1>3. CASE CreateComment(m.request)
  <2>. PICK q, n : q = m.request /\ n = Len(receipts) + 1
    OBVIOUS
  <2>. PICK p : p = [via |-> m.via, credential |-> q.credential, receipt |-> receipts'[n]]
    OBVIOUS
  <2>1. /\ m.via \in Exchanges
        /\ q.grant_id \in DOMAIN grants /\ grants[q.grant_id].active
        /\ q.credential = born + q.grant_id
        /\ Carries(m.via, q, used[m.via], asked[m.via])
        /\ receipts'[n] \in Receipt
        /\ Adds(m, n)
    BY <1>3, EffectFacts
  <2>5. performed' = performed \cup {p}
    BY <2>1 DEF Adds
  <2>2. used[m.via] # 0
    BY <1>1, <2>1 DEF ConnectionOK
  <2>3. q.credential \in Credentials
    <3>1. grants[q.grant_id] \in Grant
      BY <2>1 DEF SliceInv, SliceTypeOK, AppTypeOK
    <3>2. grants[q.grant_id].credential = born + q.grant_id
      BY <2>1 DEF SliceInv, CredentialsNumberGrants
    <3>. QED BY <2>1, <3>1, <3>2 DEF Grant
  <2>4. p \in Effects
    BY <2>1, <2>3 DEF Effects
  <2>. QED BY <1>2, <1>3, <2>1, <2>2, <2>4, <2>5
<1>4. CASE ~ CreateComment(m.request)
  <2>1. receipts' = receipts
    BY <1>1, <1>4, HandleFacts
  <2>2. Len(receipts) \in Nat
    BY DEF SliceInv, SliceTypeOK, AppTypeOK
  <2>3. Served(m) = {}
    BY <2>1, <2>2 DEF Served
  <2>. QED BY <1>1, <1>2, <2>1, <2>3
<1>. QED BY <1>3, <1>4

\* The effects of this life stay those of its receipts.
LEMMA ServeRecords ==
  ASSUME SliceInv, AppServe
  PROVE  EffectsAreRecorded'
<1>. PICK m, q, n : m = Head(backlog) /\ q = m.request /\ n = Len(receipts) + 1
  OBVIOUS
<1>1. /\ m.request \in ServerRequests /\ Handle(m.request) /\ used' = used /\ born' = born
  BY ServeFacts
<1>2. drawn \in Nat /\ drawn' \in Nat /\ drawn <= drawn'
  BY <1>1, HandleFacts
<1>3. /\ performed \subseteq performed' /\ performed' \subseteq Effects
      /\ \A p \in performed' \ performed :
           /\ p.via \in Exchanges /\ used[p.via] # 0
           /\ \E g \in DOMAIN grants : p.credential = born + g
      /\ ~ CreateComment(m.request) => performed' = performed /\ receipts' = receipts
  BY ServeAdds
<1>4. ASSUME NEW p \in performed' PROVE used'[p.via] # 0 /\ p.credential <= drawn'
  <2>1. CASE p \in performed
    <3>1. used[p.via] # 0 /\ p.credential <= drawn /\ p.credential \in Nat
      BY <2>1 DEF SliceInv, EffectsAreRecorded, SliceTypeOK, Effects, Credentials
    <3>. QED BY <1>1, <1>2, <3>1
  <2>2. CASE p \notin performed
    <3>1. PICK g \in DOMAIN grants : p.credential = born + g
      BY <1>3, <2>2
    <3>2. /\ born \in Nat /\ next_grant \in Nat /\ drawn = born + next_grant
          /\ g \in 1 .. next_grant
      BY BoundsAssumption DEF SliceInv, SliceTypeOK, AppTypeOK, CredentialsNumberGrants
    <3>3. p.credential <= drawn /\ p.credential \in Nat
      BY <3>1, <3>2
    <3>. QED BY <1>1, <1>2, <1>3, <2>2, <3>3
  <2>. QED BY <2>1, <2>2
<1>5. CASE ~ CreateComment(q)
  <2>1. performed' = performed /\ receipts' = receipts
    BY <1>3, <1>5
  <2>. QED BY <1>1, <1>4, <2>1 DEF SliceInv, EffectsAreRecorded, Settled
<1>6. CASE CreateComment(q)
  <2>. PICK p : p = [via |-> m.via, credential |-> q.credential, receipt |-> receipts'[n]]
    OBVIOUS
  <2>1. /\ q.credential = born + q.grant_id
        /\ DOMAIN receipts' = DOMAIN receipts \cup {n}
        /\ \A i \in DOMAIN receipts : receipts'[i] = receipts[i]
        /\ receipts'[n].execution_hash = ExecutionHash(q)
        /\ Adds(m, n)
    BY <1>6, EffectFacts
  <2>2. p.receipt = receipts'[n] /\ p.credential = born + receipts'[n].execution_hash.grant_id
    BY <2>1 DEF ExecutionHash
  <2>5. performed' = performed \cup {p}
    BY <2>1 DEF Adds
  <2>3. \A o \in performed' : o.credential > born' =>
          \E i \in DOMAIN receipts' :
            o.receipt = receipts'[i] /\ o.credential = born' + receipts'[i].execution_hash.grant_id
    BY <1>1, <2>1, <2>2, <2>5 DEF SliceInv, EffectsAreRecorded, Settled
  <2>4. \A i \in DOMAIN receipts' : \E o \in performed' :
          o.receipt = receipts'[i] /\ o.credential = born' + receipts'[i].execution_hash.grant_id
    BY <1>1, <2>1, <2>2, <2>5 DEF SliceInv, EffectsAreRecorded, Settled
  <2>. QED BY <1>4, <2>3, <2>4 DEF EffectsAreRecorded, Settled
<1>. QED BY <1>5, <1>6

\* A new effect shares neither key nor execution with an earlier one under its
\* credential: that one would be of this life and under the same grant, and the
\* application would have found it in its tables.
LEMMA ServeOnce ==
  ASSUME SliceInv, AppServe
  PROVE  OneEffectPerAuthority'
<1>. PICK m, q, n : m = Head(backlog) /\ q = m.request /\ n = Len(receipts) + 1
  OBVIOUS
<1>1. CASE ~ CreateComment(q)
  <2>1. performed' = performed
    BY <1>1, ServeAdds
  <2>. QED BY <2>1 DEF SliceInv, OneEffectPerAuthority
<1>2. CASE CreateComment(q)
  <2>. PICK p : p = [via |-> m.via, credential |-> q.credential, receipt |-> receipts'[n]]
    OBVIOUS
  <2>1. /\ q.grant_id \in DOMAIN grants
        /\ q.credential = born + q.grant_id
        /\ IdempotencyScope(q) \notin DOMAIN idempotency
        /\ ExecutionScope(q) \notin DOMAIN executions
        /\ receipts'[n].execution_hash = ExecutionHash(q)
        /\ Adds(m, n)
        /\ Carries(m.via, q, used[m.via], asked[m.via])
    BY <1>2, EffectFacts
  <2>4. performed' = performed \cup {p} /\ q.action_id = COMMENT_ACTION
    BY <2>1 DEF Adds, Carries
  <2>2. ASSUME NEW o \in performed, o.credential = p.credential
        PROVE  /\ o.receipt.execution_hash.idempotency_key # p.receipt.execution_hash.idempotency_key
               /\ o.receipt.execution_hash.execution_id # p.receipt.execution_hash.execution_id
    <3>1. born \in Nat /\ q.grant_id \in Nat /\ q.grant_id > 0
      <4>1. born \in Nat /\ next_grant \in Nat /\ DOMAIN grants = 1 .. next_grant
        BY BoundsAssumption DEF SliceInv, SliceTypeOK, AppTypeOK
      <4>. QED BY <2>1, <4>1
    <3>2. o.credential > born
      BY <2>1, <2>2, <3>1
    <3>3. PICK i \in DOMAIN receipts :
            o.receipt = receipts[i] /\ o.credential = born + Settled(i).grant_id
      BY <3>2 DEF SliceInv, EffectsAreRecorded
    <3>4. receipts[i] \in Receipt
      BY DEF SliceInv, SliceTypeOK, AppTypeOK
    <3>5. Settled(i).grant_id \in Nat /\ Settled(i).action_id = COMMENT_ACTION
      BY <3>4 DEF Receipt, ExecutionHashes, GrantIds, Settled
    <3>6. Settled(i).grant_id = q.grant_id
      BY <2>1, <2>2, <3>1, <3>3, <3>5
    <3>7. IdempotencyScope(Settled(i)) \in DOMAIN idempotency
          /\ ExecutionScope(Settled(i)) \in DOMAIN executions
      BY DEF SliceInv, AppIInv, LedgerAgrees
    <3>8. /\ Settled(i).idempotency_key # q.idempotency_key
          /\ Settled(i).execution_id # q.execution_id
      BY <2>1, <2>4, <3>5, <3>6, <3>7 DEF IdempotencyScope, ExecutionScope
    <3>. QED BY <2>1, <3>3, <3>8 DEF Settled, ExecutionHash
  <2>3. \A o, o2 \in performed : o # o2 /\ o.credential = o2.credential =>
          /\ o.receipt.execution_hash.idempotency_key # o2.receipt.execution_hash.idempotency_key
          /\ o.receipt.execution_hash.execution_id # o2.receipt.execution_hash.execution_id
    BY DEF SliceInv, OneEffectPerAuthority
  <2>. QED BY <2>1, <2>2, <2>3, <2>4 DEF OneEffectPerAuthority
<1>. QED BY <1>1, <1>2

\* What fits an exchange still fits it after the effects of others.
LEMMA FitsStays ==
  ASSUME NEW e, NEW a, NEW P, NEW u, NEW w, NEW P2, Fits(e, a, P, u, w),
         P \subseteq P2, \A p \in P2 \ P : p.via # e
  PROVE  Fits(e, a, P2, u, w)
BY DEF Fits, Earned, HasCause, NotPerformed

\* The answer to a forwarded request says what was done for it, now or before.
LEMMA ServeFits ==
  ASSUME SliceInv, AppServe, NEW m, m = Head(backlog), m.via \in Exchanges,
         NEW response \in Responses(m.request)
  PROVE  Fits(m.via, response, performed', used[m.via], asked[m.via])
<1>. PICK q, n : q = m.request /\ n = Len(receipts) + 1
  OBVIOUS
<1>. PICK e, u, w : e = m.via /\ u = used[e] /\ w = asked[e]
  OBVIOUS
<1>1. ConnectionOK(m) /\ q \in ServerRequests /\ Handle(q)
  BY ServeFacts
<1>2. Carries(e, q, u, w) /\ NotPerformed(e, performed)
  BY <1>1 DEF ConnectionOK
<1>3. /\ q.operation = "invoke" /\ q.action_id = COMMENT_ACTION /\ q.credential = u
      /\ q.agent_id = e[1] /\ q.execution_id = w.execution_id
      /\ q.idempotency_key = w.idempotency_key /\ q.input = w.input
  BY <1>2 DEF Carries
<1>4. /\ Decision(q) # "granted"
      /\ Decision(q) \in {"created", "replayed"}
         \/ Response(q) = [ok |-> FALSE, error |-> Decision(q)]
      /\ Decision(q) = "idempotency_conflict" =>
           q.grant_id \in DOMAIN grants /\ DelegateMatches(q) /\ IsConflict(q)
  BY <1>1, <1>3, CommentAnswered
<1>5. response = Response(q)
  BY <1>4 DEF Responses
<1>6. AsAsked(e, ExecutionHash(q), w)
  BY <1>3 DEF AsAsked, ExecutionHash
<1>7. AppIInv /\ AppTypeOK /\ LedgerAgrees
  BY DEF SliceInv, AppIInv
<1>8. \A i \in DOMAIN receipts : \E p \in performed :
        p.receipt = receipts[i] /\ p.credential = born + Settled(i).grant_id
  BY DEF SliceInv, EffectsAreRecorded
<1>9. q.grant_id \in DOMAIN grants /\ DelegateMatches(q) => u = born + q.grant_id
  BY <1>3 DEF DelegateMatches, SliceInv, CredentialsNumberGrants
<1>10. performed \subseteq performed'
  BY ServeAdds
<1>11. CASE Decision(q) = "created"
  <2>1. CreateComment(q)
    BY <1>1, <1>11 DEF Handle, IssueGrant, CredentialGenerationFailed, Deny, Answer, Revoke,
                       Denials, Reads, UncountedErrors
  <2>2. PICK p : p = [via |-> e, credential |-> q.credential, receipt |-> receipts'[n]]
    OBVIOUS
  <2>3. /\ receipts'[n].execution_hash = ExecutionHash(q)
        /\ Adds(m, n)
        /\ Response(q) = [ok |-> TRUE, result |-> ResultOf(receipts'[n])]
    BY <2>1, EffectFacts
  <2>5. p \in performed' /\ p.receipt = receipts'[n] /\ p.credential = u
    BY <1>3, <2>2, <2>3 DEF Adds
  <2>4. Earned(e, response, performed', u, w)
    BY <1>5, <1>6, <2>3, <2>5 DEF Earned
  <2>. QED BY <1>5, <2>3, <2>4 DEF Fits
<1>12. CASE Decision(q) = "replayed"
  <2>1. PICK i \in DOMAIN receipts :
          /\ Response(q) = [ok |-> TRUE,
                            result |-> [action_id |-> COMMENT_ACTION, comment |-> comments[i],
                                        receipt |-> receipts[i]]]
          /\ Settled(i) = ExecutionHash(q)
    BY <1>1, <1>7, <1>12, ReplayIsRecorded
  <2>2. q.grant_id \in DOMAIN grants /\ DelegateMatches(q)
    BY <1>1, <1>7, <1>12, InvokeAdmitted
  <2>3. PICK p \in performed : p.receipt = receipts[i] /\ p.credential = born + Settled(i).grant_id
    BY <1>8
  <2>4. p.credential = u
    BY <1>9, <2>1, <2>2, <2>3 DEF ExecutionHash
  <2>5. /\ comments[i] = [comment_id |-> i, content |-> Settled(i).input_hash]
        /\ receipts[i].comment_id = i
    BY <1>7 DEF LedgerAgrees
  <2>6. Response(q) = [ok |-> TRUE, result |-> ResultOf(p.receipt)]
    BY <2>1, <2>3, <2>5 DEF ResultOf, Settled
  <2>7. AsAsked(e, p.receipt.execution_hash, w)
    BY <1>6, <2>1, <2>3 DEF Settled
  <2>8. Earned(e, response, performed', u, w)
    BY <1>5, <1>10, <2>4, <2>6, <2>7 DEF Earned
  <2>. QED BY <1>5, <2>6, <2>8 DEF Fits
<1>13. CASE Decision(q) \notin {"created", "replayed"}
  <2>1. performed' = performed
    <3>1. ~ CreateComment(q)
      BY <1>13 DEF CreateComment
    <3>. QED BY <3>1, ServeAdds
  <2>2. response = [ok |-> FALSE, error |-> Decision(q)]
    BY <1>4, <1>5, <1>13
  <2>3. ASSUME Decision(q) = "idempotency_conflict" PROVE HasCause(performed, u, w)
    <3>1. q.grant_id \in DOMAIN grants /\ DelegateMatches(q) /\ IsConflict(q)
      BY <1>4, <2>3
    <3>2. PICK i \in DOMAIN receipts :
            /\ Settled(i).grant_id = q.grant_id
            /\ \/ Settled(i).idempotency_key = q.idempotency_key
               \/ Settled(i).execution_id = q.execution_id
      <4>1. CASE IdempotencyScope(q) \in DOMAIN idempotency
        BY <1>7, <4>1 DEF LedgerAgrees, IdempotencyScope
      <4>2. CASE ExecutionScope(q) \in DOMAIN executions
        BY <1>7, <4>2 DEF LedgerAgrees, ExecutionScope
      <4>. QED BY <3>1, <4>1, <4>2 DEF IsConflict
    <3>3. PICK p \in performed : p.receipt = receipts[i] /\ p.credential = born + Settled(i).grant_id
      BY <1>8
    <3>. QED BY <1>3, <1>9, <3>1, <3>2, <3>3 DEF HasCause, Settled
  <2>. QED BY <1>2, <2>1, <2>2, <2>3 DEF Fits
<1>. QED BY <1>11, <1>12, <1>13

\* What the control client is told of grants and fences is so.
LEMMA ServeTells ==
  ASSUME SliceInv, AppServe
  PROVE  OperatorKnows'
<1>. PICK m, q : m = Head(backlog) /\ q = m.request
  OBVIOUS
<1>1. /\ ConnectionOK(m) /\ q \in ServerRequests /\ Handle(q)
      /\ UNCHANGED <<config, asking, fence_seen, born>>
  BY ServeFacts
<1>2. PICK response \in Responses(q) : Deliver(m.client, response)
  BY ServeFacts
<1>3. verdict' = IF m.client = Operator THEN response ELSE verdict
  BY <1>2 DEF Deliver
<1>4. /\ drawn \in Nat /\ drawn' \in Nat /\ drawn <= drawn'
      /\ DOMAIN grants \subseteq DOMAIN grants'
      /\ \A g \in DOMAIN grants : ~ grants[g].active => ~ grants'[g].active
  BY <1>1, HandleFacts
<1>5. /\ \A c : Fenced(c) => Fenced(c)'
      /\ \A g, c : Names(g, c) => Names(g, c)'
  <2>1. ASSUME NEW g, NEW c, Names(g, c) PROVE Names(g, c)'
    BY <1>1, <1>4, <2>1 DEF Names
  <2>2. ASSUME NEW c, Fenced(c) PROVE Fenced(c)'
    BY <1>1, <1>4, <2>2 DEF Fenced
  <2>. QED BY <2>1, <2>2
<1>6. CASE m.client # Operator
  BY <1>1, <1>3, <1>5, <1>6, OperatorStill
<1>7. CASE m.client = Operator
  <2>1. asking # None /\ q = asking.request /\ verdict' = response
    BY <1>1, <1>3, <1>7 DEF ConnectionOK
  <2>2. ASSUME q.operation = "revoke"
        PROVE  /\ Names(q.grant_id, asking.subject)'
               /\ response.ok => Fenced(asking.subject)'
    <3>. PICK g, c : g = q.grant_id /\ c = asking.subject
      OBVIOUS
    <3>1. Names(g, c)'
      BY <1>5, <2>1, <2>2 DEF SliceInv, OperatorKnows
    <3>2. ASSUME response.ok PROVE Fenced(c)'
      <4>1. AppTypeOK
        BY DEF SliceInv, SliceTypeOK
      <4>2. /\ Decision(q) # "granted"
            /\ Response(q).ok => g \in DOMAIN grants' /\ ~ grants'[g].active
        BY <1>1, <2>2, <4>1, RevocationAnswered
      <4>3. response = Response(q)
        BY <4>2 DEF Responses
      <4>. QED BY <3>1, <3>2, <4>2, <4>3 DEF Fenced, Names
    <3>. QED BY <1>1, <3>1, <3>2
  <2>3. ASSUME q.operation = "issue_grant"
        PROVE  /\ asking.subject \in Runtimes
               /\ response.ok =>
                    /\ response.result \in PrivateGrants
                    /\ Names(response.result.grant_id, response.result.credential)'
    <3>1. asking.subject \in Runtimes
      BY <2>1, <2>3 DEF SliceInv, OperatorKnows
    <3>. QED BY <1>1, <2>3, <3>1, IssueAnswered
  <2>4. \A c \in fence_seen' : Fenced(c)'
    BY <1>1, <1>5 DEF SliceInv, OperatorKnows
  <2>5. (\A s \in Runtimes :
           config[s] # None => Names(config[s].grant_id, config[s].credential))'
    <3>1. \A s \in Runtimes :
            config'[s] # None => Names(config'[s].grant_id, config'[s].credential)
      BY <1>1 DEF SliceInv, OperatorKnows
    <3>. QED BY <1>5, <3>1
  <2>. QED BY <1>1, <2>1, <2>2, <2>3, <2>4, <2>5 DEF OperatorKnows
<1>. QED BY <1>6, <1>7

\* Serving a connection answers whoever still holds it, and disturbs no other.
LEMMA ServeKeeps ==
  ASSUME SliceInv, AppServe
  PROVE  SliceInv'
<1>. PICK m, q : m = Head(backlog) /\ q = m.request
  OBVIOUS
<1>1. /\ m \in Connections /\ ConnectionOK(m) /\ q \in ServerRequests /\ Handle(q)
      /\ app_pc' \in {"stopping", "saving"}
      /\ backlog' \in Seq(Connections) /\ Leaves(backlog', backlog)
      /\ \A i \in DOMAIN backlog' :
           /\ \E j \in DOMAIN backlog : backlog'[i] = backlog[j]
           /\ m.via \in Exchanges => backlog'[i].via # m.via
           /\ m.client \in Runtimes \cup {Operator} => backlog'[i].client # m.client
      /\ UNCHANGED <<config, inbox, serving, asked, outcome, asking, fence_seen, used, born>>
  BY ServeFacts
<1>2. PICK response \in Responses(q) : Deliver(m.client, response)
  BY ServeFacts
<1>3. /\ DOMAIN answer' = Runtimes
      /\ \A r \in Runtimes : answer'[r] = IF r = m.client THEN response ELSE answer[r]
      /\ verdict' = IF m.client = Operator THEN response ELSE verdict
  BY <1>2 DEF Deliver
<1>4. AppIInv' /\ AppTypeOK' /\ CredentialsNumberGrants' /\ drawn <= drawn'
      /\ drawn \in Nat /\ drawn' \in Nat
  BY <1>1, HandleFacts
<1>5. /\ performed \subseteq performed' /\ performed' \subseteq Effects
      /\ \A p \in performed' \ performed : p.via = m.via /\ p.via \in Exchanges
  BY ServeAdds
<1>6. EffectsAreRecorded' /\ OneEffectPerAuthority' /\ OperatorKnows'
  BY ServeRecords, ServeOnce, ServeTells
<1>7. SliceTypeOK'
  <2>1. used' \in [Exchanges -> 0 .. drawn'] /\ born' \in 0 .. drawn'
    BY <1>1, <1>4 DEF SliceInv, SliceTypeOK
  <2>. QED BY <1>1, <1>3, <1>4, <1>5, <2>1 DEF SliceInv, SliceTypeOK
<1>8. ExchangesMoveOnce'
  BY <1>1 DEF SliceInv, ExchangesMoveOnce, IsAnswer
<1>9. ConnectionsOK'
  <2>1. ASSUME NEW i \in DOMAIN backlog' PROVE ConnectionOK(backlog[i])'
    <3>1. PICK k : /\ k = backlog'[i] /\ ConnectionOK(k)
                   /\ m.via \in Exchanges => k.via # m.via
                   /\ m.client \in Runtimes \cup {Operator} => k.client # m.client
      BY <1>1 DEF SliceInv, ConnectionsOK
    <3>2. k.via \in Exchanges => NotPerformed(k.via, performed')
      BY <1>5, <3>1 DEF ConnectionOK, NotPerformed
    <3>3. k.client \in Runtimes => answer'[k.client] = answer[k.client]
      BY <1>3, <3>1
    <3>4. k.client = Operator => verdict' = verdict
      BY <1>3, <3>1
    <3>. QED BY <1>1, <3>1, <3>2, <3>3, <3>4 DEF ConnectionOK
  <2>. QED BY <2>1 DEF ConnectionsOK
<1>10. QueuedOnce'
  BY <1>1, QueuedOnceStays
<1>11. AnswersFit'
  <2>1. ASSUME NEW r \in Runtimes, answer'[r] # None
        PROVE  /\ serving[r] \in Exchanges
               /\ Fits(serving[r], answer'[r], performed', used[serving[r]], asked[serving[r]])
               /\ \A i \in DOMAIN backlog' : backlog'[i].via # serving[r]
    <3>1. CASE r = m.client
      <4>1. m.via \in Exchanges /\ serving[r] = m.via /\ answer'[r] = response
        BY <1>1, <1>3, <3>1 DEF ConnectionOK
      <4>2. Fits(m.via, response, performed', used[m.via], asked[m.via])
        BY <4>1, ServeFits
      <4>. QED BY <1>1, <4>1, <4>2
    <3>2. CASE r # m.client
      <4>1. answer'[r] = answer[r] /\ answer[r] # None
        BY <1>3, <2>1, <3>2
      <4>2. /\ serving[r] \in Exchanges
            /\ Fits(serving[r], answer[r], performed, used[serving[r]], asked[serving[r]])
            /\ \A i \in DOMAIN backlog : backlog[i].via # serving[r]
        BY <4>1 DEF SliceInv, AnswersFit
      <4>3. 1 \in DOMAIN backlog /\ m = backlog[1]
        <5>1. backlog \in Seq(Connections) /\ backlog # <<>>
          BY DEF AppServe, SliceInv, SliceTypeOK
        <5>. QED BY <5>1, TailFacts
      <4>4. \A p \in performed' \ performed : p.via # serving[r]
        BY <1>5, <4>2, <4>3
      <4>5. Fits(serving[r], answer[r], performed', used[serving[r]], asked[serving[r]])
        BY <1>5, <4>2, <4>4, FitsStays
      <4>. QED BY <1>1, <4>1, <4>2, <4>5
    <3>. QED BY <3>1, <3>2
  <2>2. ASSUME NEW e \in Exchanges, outcome[e].status = "completed"
        PROVE  Fits(e, outcome[e].result, performed', used[e], asked[e])
    <3>1. Fits(e, outcome[e].result, performed, used[e], asked[e])
      BY <2>2 DEF SliceInv, AnswersFit
    <3>2. \A p \in performed' \ performed : p.via # e
      BY <1>1, <1>5, <2>2 DEF ConnectionOK
    <3>. QED BY <1>5, <3>1, <3>2, FitsStays
  <2>. QED BY <1>1, <2>1, <2>2 DEF SliceInv, AnswersFit
<1>. QED BY <1>4, <1>6, <1>7, <1>8, <1>9, <1>10, <1>11 DEF SliceInv

----------------------------------------------------------------------------
(****************************************************************************)
(* Safety.                                                                  *)
(****************************************************************************)

\* Nothing that is invariant is disturbed when nothing happens.
LEMMA StutterKeeps ==
  ASSUME SliceInv, UNCHANGED vars
  PROVE  SliceInv'
<1>1. UNCHANGED <<appVars, config, inbox, serving, answer, asked, outcome, backlog, app_pc,
                  asking, verdict, fence_seen, used, born, performed>>
  BY DEF vars, runtimeVars, agentVars, serverVars, operatorVars, historyVars
<1>2. /\ AppTypeOK' /\ AppIInv' /\ CredentialsNumberGrants' /\ EffectsAreRecorded'
      /\ OneEffectPerAuthority' /\ OperatorKnows'
  BY <1>1, AppStill, OperatorStill
<1>3. SliceTypeOK'
  BY <1>1, <1>2 DEF SliceInv, SliceTypeOK, appVars
<1>4. ExchangesMoveOnce' /\ QueuedOnce' /\ AnswersFit'
  BY <1>1 DEF SliceInv, ExchangesMoveOnce, IsAnswer, QueuedOnce, AnswersFit
<1>5. ConnectionsOK'
  BY <1>1 DEF SliceInv, ConnectionsOK, ConnectionOK
<1>. QED BY <1>2, <1>3, <1>4, <1>5 DEF SliceInv

\* Every step of every process keeps the invariant.
LEMMA SliceNext == SliceInv /\ [Next]_vars => SliceInv'
<1>. SUFFICES ASSUME SliceInv, [Next]_vars PROVE SliceInv'
  OBVIOUS
<1>1. CASE AgentStep
  BY <1>1, SendKeeps, GiveUpKeeps DEF AgentStep
<1>2. ASSUME NEW r \in Runtimes, RuntimeStep(r) PROVE SliceInv'
  BY <1>2, TurnAwayKeeps, ForwardKeeps, RelayKeeps, FailKeeps DEF RuntimeStep
<1>3. CASE AppStep
  BY <1>3, ServeKeeps, QuietAppKeeps DEF AppStep
<1>4. CASE AppCrash
  BY <1>4, QuietAppKeeps
<1>5. CASE AppRestart
  BY <1>5, RestartKeeps
<1>6. CASE StrayConnects
  BY <1>6, StrayKeeps
<1>7. CASE OperatorStep
  BY <1>7, OperatorAsksKeep, ProvisionKeeps, ReceiveKeeps, OperatorGiveUpKeeps DEF OperatorStep
<1>8. CASE UNCHANGED vars
  BY <1>8, StutterKeeps
<1>. QED BY <1>1, <1>2, <1>3, <1>4, <1>5, <1>6, <1>7, <1>8 DEF Next

\* The invariant holds of every behaviour of the slice.
THEOREM SliceInvariant == Spec => []SliceInv
BY SliceInit, SliceNext, PTL DEF Spec

\* Every process and every queue holds what its kind may hold.
THEOREM SliceTypeCorrect == Spec => []SliceTypeOK
<1>1. SliceInv => SliceTypeOK
  BY DEF SliceInv
<1>. QED BY <1>1, SliceInvariant, PTL

\* An agent told its action completed holds the comment and receipt of an
\* effect performed under its own credential, for exactly what it asked.
THEOREM SuccessIsPerformed == Spec => []SuccessMeansPerformed
<1>1. SliceInv => SuccessMeansPerformed
  <2>. SUFFICES ASSUME SliceInv, NEW e \in Exchanges, Succeeded(e)
       PROVE  LET result == outcome[e].result.result IN
              /\ \E p \in performed : p.credential = used[e] /\ p.receipt = result.receipt
              /\ result.receipt.execution_hash.idempotency_key = asked[e].idempotency_key
              /\ result.receipt.execution_hash.execution_id = asked[e].execution_id
              /\ result.receipt.execution_hash.agent_id = e[1]
              /\ result.comment.content = asked[e].input
    BY DEF SuccessMeansPerformed
  <2>1. Earned(e, outcome[e].result, performed, used[e], asked[e])
    BY DEF Succeeded, SliceInv, AnswersFit, Fits
  <2>2. PICK p \in performed :
          /\ p.credential = used[e]
          /\ AsAsked(e, p.receipt.execution_hash, asked[e])
          /\ outcome[e].result = [ok |-> TRUE, result |-> ResultOf(p.receipt)]
    BY <2>1 DEF Earned
  <2>3. /\ outcome[e].result.result.receipt = p.receipt
        /\ outcome[e].result.result.comment.content = p.receipt.execution_hash.input_hash
    BY <2>2 DEF ResultOf
  <2>. QED BY <2>2, <2>3 DEF AsAsked
<1>. QED BY <1>1, SliceInvariant, PTL

\* An exchange answered as not forwarded, or with an error of the application,
\* has had no effect and never will.
THEOREM RefusalIsFinal == Spec => []RefusedMeansNoEffect
<1>1. SliceInv => RefusedMeansNoEffect
  <2>. SUFFICES ASSUME SliceInv, NEW p \in performed, IsAnswer(outcome[p.via])
       PROVE  /\ outcome[p.via].forwarded
              /\ outcome[p.via].status = "completed" => outcome[p.via].result.ok
    BY DEF RefusedMeansNoEffect
  <2>1. p.via \in Exchanges /\ used[p.via] # 0
    BY DEF SliceInv, SliceTypeOK, Effects, EffectsAreRecorded
  <2>2. outcome[p.via].forwarded
    BY <2>1 DEF SliceInv, ExchangesMoveOnce
  <2>3. ASSUME outcome[p.via].status = "completed", ~ outcome[p.via].result.ok PROVE FALSE
    <3>1. NotPerformed(p.via, performed)
      BY <2>1, <2>3 DEF SliceInv, AnswersFit, Fits
    <3>. QED BY <3>1 DEF NotPerformed
  <2>. QED BY <2>2, <2>3
<1>. QED BY <1>1, SliceInvariant, PTL

\* Over all lives of the server, one credential has at most one effect for one
\* key and for one execution.
THEOREM OneEffect == Spec => []OneEffectPerAuthority
<1>1. SliceInv => OneEffectPerAuthority
  BY DEF SliceInv
<1>. QED BY <1>1, SliceInvariant, PTL

\* Two exchanges under one credential that succeed for one key are answered
\* with the same comment and receipt.
THEOREM RetryIsAnsweredAlike == Spec => []RetryGetsTheOriginal
<1>1. SliceInv => RetryGetsTheOriginal
  <2>. SUFFICES ASSUME SliceInv, NEW e \in Exchanges, NEW f \in Exchanges,
                       Succeeded(e), Succeeded(f), used[e] = used[f],
                       asked[e].idempotency_key = asked[f].idempotency_key
       PROVE  outcome[e].result = outcome[f].result
    BY DEF RetryGetsTheOriginal
  <2>1. ASSUME NEW x \in Exchanges, Succeeded(x)
        PROVE  \E p \in performed :
                 /\ p.credential = used[x]
                 /\ p.receipt.execution_hash.idempotency_key = asked[x].idempotency_key
                 /\ outcome[x].result = [ok |-> TRUE, result |-> ResultOf(p.receipt)]
    <3>1. Earned(x, outcome[x].result, performed, used[x], asked[x])
      BY <2>1 DEF Succeeded, SliceInv, AnswersFit, Fits
    <3>. QED BY <3>1 DEF Earned, AsAsked
  <2>2. PICK p \in performed :
          /\ p.credential = used[e]
          /\ p.receipt.execution_hash.idempotency_key = asked[e].idempotency_key
          /\ outcome[e].result = [ok |-> TRUE, result |-> ResultOf(p.receipt)]
    BY <2>1
  <2>3. PICK o \in performed :
          /\ o.credential = used[f]
          /\ o.receipt.execution_hash.idempotency_key = asked[f].idempotency_key
          /\ outcome[f].result = [ok |-> TRUE, result |-> ResultOf(o.receipt)]
    BY <2>1
  <2>4. p = o
    BY <2>2, <2>3 DEF SliceInv, OneEffectPerAuthority
  <2>. QED BY <2>2, <2>3, <2>4
<1>. QED BY <1>1, SliceInvariant, PTL

\* A conflict an agent is told of is with an effect under its own credential.
THEOREM ConflictIsCaused == Spec => []ConflictHasItsCause
<1>1. SliceInv => ConflictHasItsCause
  <2>. SUFFICES ASSUME SliceInv, NEW e \in Exchanges, outcome[e].status = "completed",
                       ~ outcome[e].result.ok,
                       outcome[e].result.error = "idempotency_conflict"
       PROVE  HasCause(performed, used[e], asked[e])
    BY DEF ConflictHasItsCause, HasCause
  <2>. QED BY DEF SliceInv, AnswersFit, Fits
<1>. QED BY <1>1, SliceInvariant, PTL

\* The state file is current whenever the server accepts: the only step to
\* "accepting" saves, and only serving, which leaves it, changes the state.
THEOREM FileIsCurrent == Spec => []FileCurrentWhenAccepting
<1>1. Init => FileCurrentWhenAccepting
  BY DEF Init, FileCurrentWhenAccepting
<1>2. ASSUME UNCHANGED <<appVars, app_pc, state_file>>, FileCurrentWhenAccepting
      PROVE  FileCurrentWhenAccepting'
  BY <1>2 DEF FileCurrentWhenAccepting, PublicState, appVars, stateVars, ledgerVars
<1>3. ASSUME app_pc' # "accepting" PROVE FileCurrentWhenAccepting'
  BY <1>3 DEF FileCurrentWhenAccepting
<1>4. FileCurrentWhenAccepting /\ [Next]_vars => FileCurrentWhenAccepting'
  <2>. SUFFICES ASSUME FileCurrentWhenAccepting, [Next]_vars PROVE FileCurrentWhenAccepting'
    OBVIOUS
  <2>1. CASE AgentStep
    BY <1>2, <2>1 DEF AgentStep, AgentSend, AgentGiveUp, serverVars
  <2>2. ASSUME NEW r \in Runtimes, RuntimeStep(r) PROVE FileCurrentWhenAccepting'
    BY <1>2, <2>2 DEF RuntimeStep, RuntimeReject, RuntimeForward, RuntimeRefused, RuntimeRelay,
                      RuntimeFail, serverVars
  <2>3. CASE AppServe
    BY <1>3, <2>3 DEF AppServe
  <2>4. CASE AppDrop \/ AppCrash \/ AppRestart
    BY <1>3, <2>4 DEF AppDrop, AppCrash, AppRestart
  <2>5. CASE AppSave
    BY <2>5 DEF AppSave, FileCurrentWhenAccepting, PublicState, appVars, stateVars, ledgerVars
  <2>6. CASE StrayConnects
    BY <1>2, <2>6 DEF StrayConnects
  <2>7. CASE OperatorStep
    BY <1>2, <2>7 DEF OperatorStep, OperatorIssue, OperatorRevoke, OperatorShutdown, OperatorSend,
                      OperatorProvision, OperatorReceive, OperatorGiveUp, serverVars
  <2>8. CASE UNCHANGED vars
    BY <1>2, <2>8 DEF vars, serverVars
  <2>. QED BY <2>1, <2>2, <2>3, <2>4, <2>5, <2>6, <2>7, <2>8 DEF Next, AppStep
<1>. QED BY <1>1, <1>4, PTL DEF Spec

----------------------------------------------------------------------------
(****************************************************************************)
(* What a step may never do.                                                *)
(****************************************************************************)

\* Only serving a connection performs effects, and only under the credential of
\* a grant of this life that is active.
LEMMA NewEffect ==
  ASSUME SliceInv, [Next]_vars, NEW p \in performed' \ performed
  PROVE  \E g \in DOMAIN grants : p.credential = born + g /\ grants[g].active
<1>1. CASE AppServe
  BY <1>1, ServeAdds
<1>2. CASE ~ AppServe
  <2>1. performed' = performed
    <3>1. AgentStep => performed' = performed
      BY DEF AgentStep, AgentSend, AgentGiveUp, historyVars
    <3>2. ASSUME NEW r \in Runtimes PROVE RuntimeStep(r) => performed' = performed
      BY DEF RuntimeStep, RuntimeReject, RuntimeForward, RuntimeRefused, RuntimeRelay,
             RuntimeFail, historyVars
    <3>3. AppDrop \/ AppSave \/ AppCrash \/ AppRestart \/ StrayConnects => performed' = performed
      BY DEF AppDrop, AppSave, AppCrash, AppRestart, StrayConnects, historyVars
    <3>4. OperatorStep => performed' = performed
      BY DEF OperatorStep, OperatorIssue, OperatorRevoke, OperatorShutdown, OperatorSend,
             OperatorProvision, OperatorReceive, OperatorGiveUp, historyVars
    <3>5. UNCHANGED vars => performed' = performed
      BY DEF vars, historyVars
    <3>. QED BY <1>2, <3>1, <3>2, <3>3, <3>4, <3>5 DEF Next, AppStep
  <2>. QED BY <2>1
<1>. QED BY <1>1, <1>2

\* A confirmed revocation is final, over queued requests, restarts and reused
\* grant numbers.
THEOREM FenceIsFinal == Spec => ConfirmedFenceHolds
<1>1. SliceInv /\ [Next]_vars => [\A p \in performed' \ performed : p.credential \notin fence_seen]_vars
  <2>. SUFFICES ASSUME SliceInv, [Next]_vars, NEW p \in performed' \ performed,
                       p.credential \in fence_seen
       PROVE  FALSE
    OBVIOUS
  <2>1. PICK g \in DOMAIN grants : p.credential = born + g /\ grants[g].active
    BY NewEffect
  <2>2. Fenced(p.credential)
    BY DEF SliceInv, OperatorKnows
  <2>3. born \in Nat /\ next_grant \in Nat /\ DOMAIN grants = 1 .. next_grant
    BY BoundsAssumption DEF SliceInv, SliceTypeOK, AppTypeOK
  <2>. QED BY <2>1, <2>2, <2>3 DEF Fenced
<1>. QED BY <1>1, SliceInvariant, PTL DEF Spec, ConfirmedFenceHolds

\* No credential of an earlier life of the server has an effect in a later one.
THEOREM AuthorityDies == Spec => AuthorityDiesWithItsServer
<1>1. SliceInv /\ [Next]_vars => [\A p \in performed' \ performed : p.credential > born]_vars
  <2>. SUFFICES ASSUME SliceInv, [Next]_vars, NEW p \in performed' \ performed
       PROVE  p.credential > born
    OBVIOUS
  <2>1. PICK g \in DOMAIN grants : p.credential = born + g
    BY NewEffect
  <2>2. born \in Nat /\ next_grant \in Nat /\ DOMAIN grants = 1 .. next_grant
    BY BoundsAssumption DEF SliceInv, SliceTypeOK, AppTypeOK
  <2>. QED BY <2>1, <2>2
<1>. QED BY <1>1, SliceInvariant, PTL DEF Spec, AuthorityDiesWithItsServer

----------------------------------------------------------------------------
(****************************************************************************)
(* The slice as a ledger.                                                   *)
(****************************************************************************)

\* Through all its processes, timeouts and restarts the slice is the abstract
\* ledger that the application promises to be: only serving and restarting move
\* it, and they move it as the ledger may move.
THEOREM SliceImplementsLedger == Spec => ImplementsLedger
<1>1. Init => Ledger!Init
  BY LedgerInit DEF Init
<1>2. SliceInv /\ [Next]_vars => [Ledger!Next]_(Ledger!ledger)
  <2>. SUFFICES ASSUME SliceInv, [Next]_vars PROVE [Ledger!Next]_(Ledger!ledger)
    OBVIOUS
  <2>1. [ServerNext]_appVars
    <3>1. AgentStep => UNCHANGED appVars
      BY DEF AgentStep, AgentSend, AgentGiveUp
    <3>2. ASSUME NEW r \in Runtimes PROVE RuntimeStep(r) => UNCHANGED appVars
      BY DEF RuntimeStep, RuntimeReject, RuntimeForward, RuntimeRefused, RuntimeRelay,
             RuntimeFail
    <3>3. AppDrop \/ AppSave \/ AppCrash \/ StrayConnects => UNCHANGED appVars
      BY DEF AppDrop, AppSave, AppCrash, StrayConnects
    <3>4. OperatorStep => UNCHANGED appVars
      BY DEF OperatorStep, OperatorIssue, OperatorRevoke, OperatorShutdown, OperatorSend,
             OperatorProvision, OperatorReceive, OperatorGiveUp
    <3>5. UNCHANGED vars => UNCHANGED appVars
      BY DEF vars
    <3>6. ASSUME AppServe PROVE ServerNext
      <4>. PICK m : m = Head(backlog)
        OBVIOUS
      <4>1. m.request \in ServerRequests /\ Handle(m.request)
        BY <3>6, ServeFacts
      <4>. QED BY <4>1 DEF ServerNext
    <3>7. AppRestart => ServerNext
      BY DEF AppRestart, ServerNext
    <3>. QED BY <3>1, <3>2, <3>3, <3>4, <3>5, <3>6, <3>7 DEF Next, AppStep
  <2>. QED BY <2>1, LedgerNext DEF SliceInv
<1>. QED BY <1>1, <1>2, SliceInvariant, PTL DEF Spec, ImplementsLedger, Ledger!Spec
=============================================================================
