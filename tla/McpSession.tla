----------------------------- MODULE McpSession ----------------------------
(****************************************************************************)
(* The party that keeps an ASP-over-MCP session: what it remembers of the   *)
(* messages it accepted and what it knows when it judges the next one.  The *)
(* repository holds only the judgement (McpWire); this is its caller.       *)
(*                                                                          *)
(* One request is outstanding at a time.  Receipts are fetched by their     *)
(* URIs from a store that belongs to the application.                       *)
(****************************************************************************)
EXTENDS McpWire

Requests == {"initialize", "read", "list", "call"}
Responses == {"initialized", "contents", "page", "answer"}

(* What an action declares: the schemas, and what a call of it must carry. *)
Declared(s, action) == s.declared[action]
CallFacts(s, p) ==
  [input |-> Declared(s, p.tuple.action).input, output |-> Declared(s, p.tuple.action).output,
   key_required |-> Declared(s, p.tuple.action).key_required,
   receipt_required |-> Declared(s, p.tuple.action).receipts /\ p.execution.mode = "commit"]
NoCall == [input |-> None, output |-> None, key_required |-> FALSE, receipt_required |-> FALSE]

Fetched(s, links) == [i \in DOMAIN links |-> s.store[links[i]]]

(* The context of a message in session s.  What is read is the manifest or,  *)
(* when the party asks for it, one of the receipts, whose result and effects *)
(* it knows (truth).                                                        *)
SessionContext(s, m) ==
  LET asked == IF s.asked = None THEN [type |-> "none", id |-> 0] ELSE s.asked
      call == IF m.type = "call" THEN m.payload
              ELSE IF asked.type = "call" THEN asked.payload ELSE None
      facts == IF call = None THEN NoCall ELSE CallFacts(s, call)
      reading == asked.type = "read"
      receipt == reading /\ asked.uri.name \in DOMAIN s.store
      known == s.store[asked.uri.name] IN
  [used |-> s.used, answers |-> asked.id, now |-> s.now,
   composition |-> s.composition, manifest |-> s.manifest,
   uri |-> IF m.type = "contents" /\ reading THEN asked.uri
           ELSE IF m.type = "read" /\ m.uri.name \in DOMAIN s.store
           THEN [name |-> m.uri.name, clean |-> TRUE] ELSE None,
   kind |-> IF receipt THEN "receipt" ELSE "manifest", resource |-> None,
   hash_domain |-> IF receipt THEN "receipt" ELSE "manifest",
   resource_hash |-> IF receipt THEN known.expected.hash ELSE s.surface,
   receipt_type |-> IF receipt THEN known.expected.type ELSE None,
   semantics |-> IF receipt THEN s.truth[asked.uri.name] ELSE None,
   first |-> ~s.listing.started, cursor |-> s.listing.cursor, cursors |-> s.listing.cursors,
   names |-> s.listing.names, actions |-> s.listing.actions, tools |-> None,
   view |-> s.view, dialect |-> s.dialect,
   input |-> facts.input, output |-> IF m.type = "page" THEN None ELSE facts.output,
   output_hash |-> None,
   key_required |-> facts.key_required, receipt_required |-> facts.receipt_required,
   request |-> IF m.type = "call" THEN None ELSE call,
   mode |-> IF m.type = "answer" /\ call # None THEN call.execution.mode ELSE None,
   progress |-> asked.id, cancels |-> asked.id,
   result |-> None, effects |-> None, final |-> None, preview |-> None,
   evidence |-> s.evidence, revert_evidence |-> None, limits |-> s.limits,
   receipt_uris |-> None,
   receipts |-> IF m.type = "answer" THEN Fetched(s, m.links)
                ELSE IF receipt THEN <<[known EXCEPT !.uri = asked.uri]>> ELSE <<>>,
   endpoint |-> s.endpoint, proof_target |-> s.endpoint, audience |-> s.endpoint]

(* What the party remembers of an accepted message.                        *)
AfterMessage(s, m) ==
  LET answered == [s EXCEPT !.asked = IF m.type \in Responses THEN None ELSE @] IN
  CASE m.type = "list" ->
         [s EXCEPT !.used = @ \cup {m.id}, !.asked = m,
                   !.listing.started = TRUE,
                   !.listing.cursors = @ \cup ({m.cursor} \ {None})]
    [] m.type \in Requests \ {"list"} -> [s EXCEPT !.used = @ \cup {m.id}, !.asked = m]
    [] m.type = "page" ->
         [answered EXCEPT
            !.listing.cursor = m.next,
            !.listing.names = @ \cup {m.tools[i].name : i \in DOMAIN m.tools},
            !.listing.actions = @ \cup {m.tools[i].binding.action : i \in DOMAIN m.tools}]
    [] OTHER -> answered

(******************************* properties ********************************)

(* Across all pages of one listing every cursor is asked for once, and every *)
(* action is listed once, by a tool whose name is derived from it and from   *)
(* no other action: a tool name a client has seen keeps its meaning.         *)
ListingIsOneToOne(messages) ==
  LET Of(type) == {i \in DOMAIN messages : messages[i].type = type}
      Places == UNION {{i} \X DOMAIN messages[i].tools : i \in Of("page")}
      Tool(at) == messages[at[1]].tools[at[2]] IN
  /\ \A i, j \in Of("list") : messages[i].cursor = messages[j].cursor => i = j
  /\ \A x, y \in Places :
       /\ Tool(x).name = Tool(y).name <=> x = y
       /\ Tool(x).binding.action = Tool(y).binding.action => x = y

(* A successful commit of an action with receipts is backed by exactly one   *)
(* authenticated receipt of the application, which policy allowed and which  *)
(* records the execution that was asked for, the effects and the output that *)
(* the answer claims: a receipt of another execution never vouches for it.   *)
ClaimIsBacked(m, s) ==
  LET p == m.payload
      asked == s.asked.payload IN
  p.error = None /\ p.result = "success" /\ asked.execution.mode = "commit"
    /\ Declared(s, asked.tuple.action).receipts =>
    \E u \in DOMAIN s.store :
      LET receipt == s.store[u].receipt IN
      /\ Range(m.links) \cap {x \in DOMAIN s.store : s.store[x].expected.type = "app"} = {u}
      /\ s.store[u].locally_valid /\ receipt.policy.outcome = "allow"
      /\ receipt.execution = Sanitized(asked.execution)
      /\ receipt.effects = p.effects
      /\ receipt.output_hash = Hash("output", p.output)
=============================================================================
