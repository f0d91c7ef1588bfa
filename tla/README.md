# Formal models of agent-surface

TLA+ models of the executable parts of this repository, the TLC runs that check
them on small instances, and the TLAPS proofs that hold for every instance.
`PROJECT.json` gives, for every definition that models code, the source lines it
stands for; paths in this file are relative to the repository.

    tlasany AppServer.tla
    tlc -workers 2 -config MCAppServer.cfg MCAppServer
    tlapm AppServerProofs.tla

Contents: 1 the system, 2 the modules, 3 the runs, 4 fairness, 5 disagreements
with the documents, 6 the proofs, 7 what is not modelled, 8 the plan.

## 1. The system

The repository is the specification of the Agent Surface Protocol together with
the programs around it.  The drafts under `drafts/` are prose.  What runs is
this:

| part | source | state it keeps | operations |
| --- | --- | --- | --- |
| Reference application | `reference/vertical-slice/app/src/bin/app_server.rs` | grants, idempotency and execution tables, comments, receipts, counters, all in memory; a state file rewritten after every connection | manifest, issue_grant, state, revoke, invoke, shutdown |
| Runtime bridges | `reference/vertical-slice/runtime_local.py`, `runtime_remote.py` | a private configuration with one grant; the connection being served | take one agent line, check it, forward it, answer |
| Agents | `agent_a.py`, `agent_b.py` | one exchange | ask the runtime for one action and wait |
| Scenario driver | `scenario.py` | child processes, control credential, transcripts | start, issue, provision, revoke, stop |
| Lane evaluators | `app/src/lib.rs`, parts of the runtimes and agents | none | decide one conformance vector |
| Replay tool | `tools/asp-replay` | the reducers' tables while one bundle is read | verify, compose, self-check |
| Safety store | `reference/adoption/calcu/safety_spike/spike.py` | an SQLite database of grants, sessions and lineage guards | seed, revoke, interrupt, resume, new session, admit |
| Mock participants | `mocks/behavior.py`, `state.py`, `participant.py` | one journal directory per scope | inventory, execute, observe |
| Conformance runner | `conformance/check.py` | the loaded catalog; results and observations of a run | validate a catalog, plan, run adapter and probe, report, verify a report |
| Conformance documents | `conformance/check.py` (same file) | none; their callers keep records | judge impact simulations, elicitations, limits, risk texts, purpose-bound Grants, AHP and MCP bindings and messages |
| Manifest linter, API importer | `tools/asp-manifest-linter`, `tools/asp-api-importer` | none | lint, import |
| Publication and review tools | `publication/`, `review/` | files | migrate, assemble, render, check |
| Adoption studies | `reference/adoption` | per study | probes |

### 1.1 The vertical slice

*State.*  The application keeps everything in memory: `grants` by grant id, with
their credential, delegate (runtime and agent), actions and an `active` flag;
`idempotency` by (grant, action, key) and `executions` by (grant, action,
execution);
the lists of comments and receipts, and counters of receipts, grants and denied
requests.  The state file is a public projection that is written, never read.
A runtime keeps one grant in its private configuration; an agent keeps nothing
between exchanges.

*Interaction.*  An exchange is one TCP or Unix connection with one request line
and at most one answer line.  Agent to runtime, runtime to application and
control client to application are three separate exchanges, each with its own
timeout, and a side that gives up tells nobody.  The application and the
runtimes serve one connection at a time and take the next one from the listen
queue, so a request whose client has gone is still served.  The application
performs the effect, answers, and only then writes its state file.  Started
again, it begins empty and numbers its grants from one.

*What is hard.*  A retry overtakes or meets the abandoned request it repeats; a
revocation is confirmed while requests are queued; a crash falls between effect,
answer and save; old configurations survive a restart that reuses their grant
ids; keys and execution ids are reused independently; a silent client blocks the
only accept loop.

*What makes it correct.*  An effect happens at most once per key and per
execution under a credential; a replay gets the original answer; all tables tell
one story; effects are delegated and fenced; an agent told of success holds a
real receipt and one told "not forwarded" caused nothing; nothing stays queued.

### 1.2 The replay tool

*State.*  `Validator` (`tools/asp-replay/src/validation/state.rs`) holds the
report (error flag, check summaries, at most 256 diagnostics with an omitted
count) and the tables of the reducers: the session state, deliveries with their
terminal acknowledgement, the position of every stream, gap epochs, pending
acknowledgements, and for receipts the chain heads and approvals.

*Operation.*  `verify_document` runs the preflight (schema, context, secrets,
hashes, order).  If that fails nothing is replayed; otherwise the records are
read once, in order, through the reducers, then what can only be judged at the
end is (`reconcile_pending_references`), and the verdict, the check results and
the assurances are derived from the report.  The tool is sequential: the
difficulty is the order in which records may come.

*What is hard.*  A capture gap replaces what is known by what the next record
says; epochs decide whether a gap is new enough to excuse a jump; a refused
record still moves some tables; the cap on the diagnostics must not hide the
error that decides the verdict.

*What makes it correct.*  The one pass decides exactly the rules that can be
said of the whole sequence; the verdict is invalid exactly when one is broken
and incomplete exactly when a gap is declared; an assurance is only given where
it was earned; streams and deliveries are never rewritten.

### 1.3 The safety store

*State.*  Three SQLite tables: `grants` (hash, lineage, revoked), `sessions`
(lineage, grant, hash, generation, active or interrupted) and `guards`, one per
lineage (hard limit, count, fenced, fence id).

*Interaction.*  Several processes or threads open the same file.  Every
operation is one transaction from `BEGIN IMMEDIATE` to `COMMIT` or `ROLLBACK`; a
connection that cannot get the lock in five seconds, or whose storage fails,
answers `unavailable`.

*What is hard.*  Two connections admit at the last unit; a revocation commits
before a waiting admission; the process dies between the commit and the caller;
a caller keeps a generation that is gone; ids of one grant are combined with the
lineage or session of another; the session interrupted before the fence is
resumed after it.

*What makes it correct.*  A lineage never has more admissions than its limit;
fence and revocation are final; admissions of a session follow its generations;
rows keep the lineage they were made in.

### 1.4 The conformance runner

*State.*  A `Catalog` (profiles, requirement rows, features, vectors, fixtures,
mutations, bundles) with the digests of the sources it was read from; during a
run the inventory, the plan, and one result and at most one observation per
vector.

*Interaction.*  `run_suite` starts three kinds of processes, one at a time, each
in a process group of its own and under a time limit: the probe for the feature
inventory, and then for every vector the adapter and the probe in one fresh
directory.  Their output counts only if they end in time with code 0.  Whoever
holds the report can have it verified later: `verify-report` takes a digest of
the source tree and loads a catalog of its own, from the tree as it is then.

*What is hard.*  An answer is written as the time ends; an executable leaves
another process behind; the sources change while they are read or during the
run; a report is edited before it is verified; the plan a bundle publishes and
the plan a run makes are two computations.

*What makes it correct.*  What is compared came from processes that ended well
and in time; nothing survives its exchange; a report is about one catalog, the
one in the tree, unless the tree was changed and changed back while it was
loaded; a pass is earned by observations, and what a later verification accepts
as a pass is one under the catalog it used; bundles promise exactly what runs
test.

### 1.5 The conformance documents

*State.*  None.  Each validator judges one document against records its caller
passes in: what was retained, what is current, what time it is.

*Interaction.*  The callers are Runtimes, agents and clients, which are not in
the repository.  They call the validators again and again, keep what they
accepted, and meet it again.

*What is hard.*  What a single call cannot show: a deadline that passes between
two calls, the same exchange delivered twice, a revision that comes with two
contents, a listing spread over pages, a Grant derived from a derived Grant, a
receipt of another execution, a session lost under an execution.

*What makes it correct.*  What a party accepts never contradicts what it knows
or accepted before.  Section 3 says it property by property.

### 1.6 The other parts

The evaluators in Rust and Python, `mocks/behavior.py`, the linter and the
importer are functions of one document.  The journal store of the mocks
(`mocks/state.py`) has a small crash window.  Publication and review transform
files in batches.  Section 7 says why each is left out.

## 2. The modules

| module | models | form |
| --- | --- | --- |
| `AppServer` | `AppState`, `handle`, restart | one action per outcome of `handle` |
| `EffectLedger` | what the application promises of its effects | abstract specification |
| `VerticalSlice` | agents, runtimes, server process, control client, connections | extends `AppServer` |
| `AppServerProofs`, `VerticalSliceProofs` | theorems about `AppServer` and about the slice | proofs |
| `ReplayReport` | findings, diagnostics, verdict, check results, assurances | state machine of its own and operators for the validator |
| `ReplaySession` | the session reducer | operators |
| `ReplayEvents` | deliveries, acknowledgements, streams, gaps | operators |
| `ReplayValidator` | `verify_document`: preflight, one pass, reconciliation | composes the three above |
| `ReplayConformance` | the rules said of a whole bundle, and the properties | properties |
| `ReplayReducerProofs` | theorems about the report and the event reducer | proofs |
| `ReplayConformanceProofs` | the one pass decides the rules of the whole sequence | proofs |
| `Listing` | a set as a sorted list | operator |
| `Induction` | induction and recursion over numbers and finite sets, sorted lists | lemmas |
| `LineageGuard` | what the safety store promises of one lineage | abstract specification |
| `SafetyStore` | the store, its connections, failures and deaths | one action per operation |
| `SafetyStoreProofs` | theorems about `SafetyStore` | proofs |
| `ConformanceCatalog` | the semantic validation of a catalog and the plan of a subject | operators |
| `ConformanceRunner` | `run_suite`, `verify_report`, their processes and the source tree | extends `ConformanceCatalog`; one action per step of the loop |
| `ConformanceRunnerProofs` | theorems about `ConformanceRunner` | proofs |
| `ImpactSimulation`, `HumanElicitation`, `SurfaceDocuments`, `CarrierBindings`, `McpWire` | the validators of documents, bindings and messages | operators |
| `McpSession` | what a party remembers of the MCP messages it accepted | operators; extends `McpWire` |
| `ConformanceCases` | a party that judges documents against its records | composes the six above |
| `ConformanceCasesProofs` | theorems about what such a party accepts | proofs |
| `MCAppServer`, `MCVerticalSlice`, `MCReplay`, `MCSafetyStore`, `MCConformance`, `MCCases` | requests, records, catalogs, documents and bounds for TLC | instances |

### 2.1 AppServer and VerticalSlice

`Decision(q)` is the chain of checks in `handle`, `issue_grant`, `revoke` and
`invoke` in their order; `Handle(q)` then takes the one action that outcome
calls for: `CreateComment`, `IssueGrant`, `Revoke`, `Deny` (an error that counts
in `denied_count`), `Answer` (anything that changes nothing) or
`CredentialGenerationFailed` (the one failure of the operating system inside
`handle`).  `Restart` empties the memory.  Ids are numbers in the order the
server makes them; a credential is the number of its drawing over all lives of
the server (`drawn`), since 256 random bits do not repeat.

`EffectLedger` knows only which effects are settled, whom each grant delegates to
and which grants are fenced; `ImplementsLedger` maps the tables to it.

`VerticalSlice` adds the processes:

| actor | actions | code |
| --- | --- | --- |
| agent | `AgentSend`, `AgentGiveUp` | the exchange of `agent_a.py`, `agent_b.py` |
| runtime | `RuntimeReject`, `RuntimeForward`, `RuntimeRefused`, `RuntimeRelay`, `RuntimeFail` | check of the line, the forwarding connection and the three ways it ends |
| server | `AppServe`, `AppDrop`, `AppSave`, `AppCrash`, `AppRestart` | accept loop, `serve_connection`, `save_state`, process start |
| other clients | `StrayConnects` | a connection without a request |
| control client | `OperatorIssue`, `OperatorRevoke`, `OperatorShutdown`, `OperatorProvision`, `OperatorReceive`, `OperatorGiveUp` | control exchanges and provisioning of `scenario.py` |

`AppServe` is one step, from the request to the answer, because the server
serves alone and nobody sees its memory in between; the answer may go nowhere.
The save is a step of its own, so a crash may fall between.  The two lanes
differ in transport and message shape; the bridge's control flow is the same.

### 2.2 The replay modules

A bundle is chosen as it is read: each step takes any record of `Records`, so
TLC ranges over all bundles up to `MaxRecords`.  A record is reduced to the
members the reducers compare and to a *form* that says how its JSON is shaped.
`ReadTransition`, `ReadEvent`, `ReadAck`, `ReadEventGap`, `ReadCaptureGap` and
`RefuseCaptureGap` are the arms of `validate_records`; each computes the
findings the code would report, in order, and the tables it would leave,
including what it still changes after an error.  `Finish` is the reconciliation.
`read` (the records so far) is a history variable: only properties look at it.

`ReplayConformance` says the same rules without any table, over positions in the
whole sequence.  `ErrorsComeAtOnce` and `VerdictIsExact` compare the two.

`ReplayReport` also stands alone (`ReportSpec`: any finding at any time), which is
the form its theorems use.

### 2.3 SafetyStore

`Begin(c, q)` takes the lock and the view, `Seed`, `Revoke`, `Interrupt`,
`Resume`, `CreateSession` and `Admit` decide on the view and commit or roll back,
`Locked` is the lock timeout, `Fail` a storage error inside the transaction,
`Crash` the death of the process at any moment, `Hear` the caller receiving its
answer.  External, and taken from what the code relies on: SQLite has one writer
at a time, a transaction is all or nothing, a commit is durable.  `revision`
(never read) and `valid` (always 1) are left out.  `admitted` and `fences` are
history variables.

`LineageGuard` knows only lineages: opened once with a limit, spent one unit at a
time, closed by the first attempt beyond the limit.

### 2.4 ConformanceCatalog and ConformanceRunner

`CatalogValid(c)` is `_semantic_validate_catalog`, check by check: identifiers,
the matrix of requirement rows and vectors, polarities, bundles, and what each
kind of vector needs of its fixture.  One thing is worth knowing: the loop over
the vectors compares an HTTP projection with two variables that only vectors
with an operational state assign, so a vector without one is compared with the
last that had one; `LastOperational` models that.  `Applicable`,
`NotApplicable`, `Conflicting` and `Uncovered` are `applicable_vectors`.  Its
nested loops visit *places*, a row of the profile and a position in it; a list
without repetition is the vectors at the places where they are met first, in the
order of the places (`FirstPlaces`, `VectorsListed`).  `ClaimVectors`, what the
validation requires a claim of a bundle to list, is such a list too, but of other
places: it does not look at the producer role of a vector.

The runner's actions are the steps of `run_suite`: `TakeSnapshot`, `LoadCatalog`,
`Prepare`, `TakeInventory`, `BeginVector`, `TakeAcknowledgement`,
`TakeObservation`, `Finish`; `Expire` is the time limit of `communicate`.  A
child is a record of what it printed and how it ended; `alive` holds the
exchanges in whose process group something still runs.  External: `ChildPrints`
and `ChildExits` (an executable may print anything at any time, end with any
code, and leave a process behind in its group), `Edit` (somebody changes the
source tree, in any phase, also when the report is out), `EditedReports`.  A
digest is the value it is of, also in the result rows, which carry that of their
vector; `inTime` is a history variable.

A digest of the tree and the catalog loaded from it are two things, and the
model keeps them apart.  `Verifies(r, c)` is what is found in order in a report
with the loaded catalog `c`, whatever the report calls it.  `run_suite` verifies
its own report with the catalog it loaded: `Finish` looks at the tree only to
compare its digest with the snapshot (`Reusable`), as `_resolve_catalog` does.
The later `verify_report` is three steps, because the tree may change between
them: `VerifierTakesSnapshot`, `VerifierLoads`, and `VerifyEdited`, which
compares the digests again, and the one in the report, and verifies with what
was loaded.  `Patched` applies the operations of a mutation one after the other,
each to the document the previous one left.

### 2.5 The validators and ConformanceCases

Each validator is a conjunction in the order of the code's checks, over records
that keep the members its checks compare:

| module | functions of `check.py` | what the records keep |
| --- | --- | --- |
| `ImpactSimulation` | `_derive_impact_actions`, `validate_impact_simulation`, `..._projection` | declarations with effects, companions and recoveries; checks, deadlines, bindings; the examples shown |
| `HumanElicitation` | `validate_human_elicitation_projection`, JSON pointers and patches, the agent's projection | an input as a function from paths to values; request, response and retained record |
| `SurfaceDocuments` | operational limits, capacity errors, risk texts, purpose and task binding | limit ids, languages as sequences of subtags, Grants |
| `CarrierBindings` | `validate_ahp_binding_projection`, `validate_mcp_binding_projection` | views, session states, lookup, completed record, the bound tuple |
| `McpWire` | `validate_mcp_wire_semantics` and its receipts | one message of nine types and its context |

`HintValid` refuses localizations that are not in the order of their languages
(`TagBefore`: subtag by subtag, a prefix first).  `LimitsValid` and
`CapacityErrorValid` have no property of their own: their documents are among
those `Judge` decides on, and what they say is a comparison of two records.

`ConformanceCases` is the caller: `Offer` puts a document on the table, new or
one it accepted before; `Change` moves the records, also between the offer and
the judgement; `Judge` applies the validator to the records as they are then and
keeps what was accepted.  `McpSession` is the same for messages: which request is
outstanding, which ids are used, which cursors, names and actions a listing has
shown.  The callers are external; `Recorded` and `AfterMessage` say no more than
what the validators' contexts say of them.

## 3. The runs

All the runs together take some ten minutes of TLC.  Bounds sit in the guards
(`MaxCredentials`, `MaxEffects`, `MaxDenied`, `MaxExchanges`, `MaxStray`,
`MaxBacklog`, `MaxRecords`, `MaxEdits`, `MaxAccepted`, `MaxChanges`) and only
limit how often something happens.

| run | bounds | shows |
| --- | --- | --- |
| `app_server` | 1 runtime, 2 agents, 2 keys, 2 executions, 2 inputs; 2 credentials, 2 effects, 1 denial | every order of requests on the application, restarts included: the ledger is sound (typed, exactly-once, consistent, delegated, faithful in replays), nothing happens under a revoked grant, and `EffectLedger` is implemented |
| `slice_retry` | 1 lane, 4 different requests, 2 exchanges, 1 credential, 2 effects | what agents are told is what happened, whatever times out, is lost, crashes or is revoked; one effect per credential and key or execution; the state file is current whenever the server accepts |
| `slice_lanes` | 2 lanes that use the same identifiers, 1 exchange each, with revocations and restarts | a conflict always has its cause in the same grant; a confirmed revocation is final; authority does not outlive the server that gave it |
| `slice_liveness` | 1 lane, 2 exchanges, 1 stray connection | under the fairness of section 4 each queued request leaves its queue |
| `replay_sessions` | session records of 2 generations with gaps, 4 records, every set of failed preflight checks, 2 diagnostics | exact errors, verdict and assurances; the cap on diagnostics hides no verdict and loses no count |
| `replay_events` | 3 deliveries, 2 subscriptions, 1 stream name, positions past the bound, gaps anywhere, 5 records | errors come with the record that causes them, and for an acknowledgement whose delivery never comes right after the last one; streams follow their deliveries and, like the deliveries' answers, only advance |
| `safety_store` | 2 connections, 2 grants, 2 lineages, 3 sessions, limits 0, 1 and 2 | limit, fence, revocation, generations and lineages hold with failures and deaths at every step; `LineageGuard` is implemented |
| `conformance_runner` | 7 catalogs, five of them acceptable, 8 subjects, 2 edits of the tree in a run or in the verification after it | see below |
| `conformance_cases` | 8 kinds of documents; 1 to 3 accepted documents of a kind, 6 for an MCP listing; 1 or 2 changes of the records | see below |
| `replay_resume_in_gap`, `replay_lost_delivery` | as `replay_sessions` and `replay_events`, one property each | disagreements of section 5 |
| `conformance_swapped` | 2 catalogs, 1 subject, 2 edits | a disagreement of section 5 |

`conformance_runner` checks six properties:

- `ResultsRestOnTimelyAnswers`: a vector that passed or failed was answered by
  an adapter and a probe that each ended by itself, in time, with code 0;
- `NoStragglers`: nothing of an exchange that is over is still running;
- `ReportsBindOneCatalog`: a report is given only while the tree holds the
  catalog it names, and the run used that catalog, unless the tree was changed
  and changed back while it was read: `validate_catalog` compares the digests
  before and after, so one edit never goes unseen and two that cancel each other
  do;
- `PassIsEarned`: a pass is an implementation's, its every selected feature has
  rows, and every vector that applies, by the catalog and not by the stored
  plan, was observed as expected;
- `NoForgedPass`: a report is edited in one of the ways of `EditedReports` (a
  member, a result, a vector left out, each with the summary as it was or derived
  anew) and verified later, in whatever state the tree is then.  If it is
  accepted as a pass, it is about the run's subject, and the run's timely
  observations earn that pass under the catalog the verification loaded; that is
  the catalog the report names, unless the tree was changed and changed back; and
  if the run had loaded it too, the run itself passed, with the same plan.  The
  last condition is needed: a run that loaded a catalog with one more vector, on
  a tree that was put back before `Finish`, gives a failing report, and that
  report without the vector is accepted as a pass of the catalog it names.  It
  is a pass of that catalog, but not what the run said.  The property is about
  these edits: a result is only compared with the observation it names, so a
  report in which two results exchange the observations of each other's vectors
  verifies as well;
- `PlansAreRun`: an accepted catalog gives no selection conflicting rows, and
  for a claim of a bundle a run of exactly that selection applies exactly the
  claimed vectors, in that order.  The claims meant are those that list no vector
  of the other receipt producer.  Nothing in the validation excludes others: a
  receipt row that always applies may name vectors of one role (`Crossed` in
  `MCConformance`), and then a claim of the other role has to list vectors that
  no run of it applies; without the condition the run finds this catalog.  In
  `conformance/v1/suite.json` every receipt row is for one role, the role of its
  vectors, so its bundles meet the condition.

`conformance_cases` checks eleven, each about everything one party accepted:

- `CoverageMeansPossible`, `WorstIsShown`, `ImpactNeverStale`: what an impact
  simulation calls covered can happen, with all its companions (compared with
  the smallest closed set, not with the code's walk); what is cut off is never
  riskier than what is shown; and a result is still true when it is shown;
- `OneAnswerPerRevision`, `EditsStayInside`: a revision has one answer however
  often it is delivered; an edit changes nothing outside the offered places
  (compared value by value, not with the code's list of pointers);
- `TaskNeverWidens`: along a chain of Grants purpose and task stay;
- `AhpNeverForks`: no representation goes back or has two contents;
- `FreshIsAuthorized`: an action is executed for the first time only in a live
  session under a Grant, a policy and a surface in force; otherwise only the
  persisted outcome is shown;
- `ClosestIsRendered`: the text shown is in the closest language there is, for
  hints whose languages are sorted; two of the lists are not, and are refused;
- `ListingIsOneToOne`: over all pages an action is listed once, under one name;
- `ClaimsAreBacked`: a successful commit is backed by exactly one authenticated
  receipt of that very execution.

Why the bounds are enough:

- *Application.*  Its tables are indexed by grant, key and execution, and a
  request touches one entry of each.  Two of everything gives every combination
  of same and different; the second credential stands for a second grant or for
  a grant after a restart.  Two effects let a duplicate exist.  One denial shows
  the counter is only read.
- *Slice.*  A retry needs two exchanges.  `slice_retry` varies what the retry
  changes with one credential, `slice_lanes` varies lanes, credentials and
  lives of the server with one fixed request per lane; the product of the two is
  beyond TLC, and the properties of each run relate only what that run varies.
  `MaxBacklog` = 1 only keeps the control client from adding to a longer queue;
  the lanes fill it to one request each behind any stray connection, and an
  abandoned request stays.
- *Replay.*  The reducers compare a record with one remembered delivery, one
  stream position and the latest gap epochs, so a rule involves at most the
  delivery, its answer, the gap and the record judged, after the one that starts
  the session: five records, and `replay_lost_delivery` reads six.  `MaxPosition` stands for
  `i32::MAX`: what matters is the value past it.  `replay_events` and the two
  replay runs of section 5 do not continue a history past its first broken rule
  (`NoErrorYet`), so five records of every form stay within reach;
  `replay_sessions` does continue, and what holds of the event tables after an
  error is proved (section 6).
- *Safety store.*  An admission reads one session, one grant and one guard.  Two
  connections give every race for the lock; limits 0 to 2 give the first, the
  last and the refused unit; the two lineages and the cross-bound requests let
  ids be combined wrongly.  Generations are bounded by the requests: a resume
  that expects generation 1 can succeed once.  The two connections are
  interchangeable (`SYMMETRY`); the properties of this run are safety
  properties.

- *Conformance runner.*  A row of the matrix involves a profile, a role or a
  feature, one positive and one negative vector; the catalog has each of these
  once, one feature with rows and one without.  The other catalogs are this one
  with one or two things wrong or unusual.  A vector is one adapter and one probe
  exchange, so the two or three of a plan give an exchange before and after
  another.  Two edits are the least that can change the tree and change it back.
  What they matter to is which catalog is named and which is used, so they are
  between a catalog, one that has a vector more (`Grown`) and one that is refused
  (`Short`), and the second is made for two of the subjects (`EditsAreOfFew`, a
  constraint of the run); a run with any of the other catalogs is one on a tree
  that stays.
- *Conformance cases.*  A document of each kind is well made or has one thing
  wrong, and so has the record it is judged against; two accepted documents
  are the smallest sequence that can disagree, three let a chain skip one, and
  an MCP listing of three pages takes six messages.  Kinds whose properties are
  about one document against records that move have one.  `ShownLimit` is 8 in the code and 1 here, so
  that something is left out of a result of two or three actions.

Deadlock is checked in `app_server` and `safety_store`.  The other runs say
`CHECK_DEADLOCK FALSE`: a slice stops when the bounded exchanges are used up,
a replay is finished after its last step, a conformance run ends, and a party
judges only so many documents.

Every property has a mutant in `PROJECT.json`: a changed definition (a dropped
guard, a wrong scope, a missing reset, an off-by-one) under which TLC finds the
property violated.  The mutated forms stand beside the definitions they replace,
marked "Mutant" or "Mutated form", and nothing else uses them.

## 4. Fairness

`FairSpec` of `VerticalSlice` assumes weak fairness of

- the server's step (`AppServe`, `AppDrop`, `AppSave`): while the process lives
  its loop runs, and `AppDrop` is the read timeout of `serve_connection`;
- each runtime's step: its loop runs, and every call it waits in has a timeout
  (`RuntimeFail`);
- each agent's `AgentGiveUp`: its socket has a timeout.

Nothing obliges the control client to act, an agent to ask, or anyone to restart
a server.  The other specifications assume no fairness.  For the store none would
be justified for a caller: a connection may lose the lock any number of times and
is told `unavailable`.

## 5. Where code and documents disagree

Each of these is a run whose one property TLC finds violated.

1. `replay_resume_in_gap` (`tools/asp-replay/src/validation/session.rs:124`).
   After a capture gap the reducer takes the recorded prior state as the
   replayed one unless the session has ended.  So active to interrupted, a gap,
   active to completed is accepted within one generation.  `drafts/modules/evidence.md`
   (1346-1350) keeps every later transition of a generation on its state machine
   and calls a later step from interrupted to active in one bundle invalid.
2. `replay_lost_delivery` (`events.rs:560`).  An acknowledgement of an unknown
   delivery is put aside before its outcome is looked at, so two contradicting
   terminal acknowledgements of a delivery lost in a gap leave the bundle
   incomplete; evidence.md (1489-1494) requires a conflicting terminal
   acknowledgement to be rejected.
3. `conformance_swapped` (`conformance/check.py:6675`).  `validate_catalog` takes
   a digest of the sources, loads them, and takes the digest again; nothing
   relates what was loaded to the digest.  A tree changed after the first digest
   and changed back before the second gives a report with the plan and results
   of the catalog in between under the digest of the other.
   `conformance/README.md` (266) says a report is valid only for the exact
   catalog named by its digest.

One more is too plain for a run: the `reason` of a session transition only has
to be a string (`session.rs:96`), and the empty one is accepted, as in the model
(`empty_reason`); evidence.md (1291) says non-empty.

Apart from the first two, and the empty reasons, the rules in `ReplayConformance`
are the ones the code applies.

## 6. The proofs

TLAPS proves the following for all values of the constants; there are no unproved
steps.

### AppServerProofs

Assumptions: the bounds are numbers, `Requests` are requests of the server's
shape, and the two sentinels `None` and `BadInput` are not data
(`BoundsAssumption`, `RequestsAssumption`, `SentinelAssumption`).

The inductive invariant is

    AppIInv == AppTypeOK /\ LedgerAgrees /\ EffectsHappenOnce /\ EffectsAreDelegated

`EffectsHappenOnce` alone is not inductive: that a new effect has a new key
follows from the idempotency table only if the table holds every effect, which
is half of `LedgerAgrees`; that the entry a replay finds is the effect it repeats
is the other half.  `CreatedAgrees` and `CreatedOnce` treat the one action that
adds an effect; `OtherSteps` says once for all other actions that the ledger and
the delegations of old grants stay.  From `AppIInv` follow `EffectsOnce`,
`LedgersAgree`, `EffectsDelegated`, `ReplaysFaithful`, `LedgerSound` (their
conjunction with the types, which the run checks), `LedgerAppendOnly`,
`FenceHolds`, and `ServerImplementsLedger`: a creation is the ledger's settling
step, issuing and revoking are `Issue` and `Fence`, a restart is `Forget`, and
everything else stutters.

The lemmas are about `ServerNext`, the steps of the server under any request of
its shape; `AppNext` is that for the requests of a run, and the slice takes the
same lemmas for the requests its processes send.

### VerticalSliceProofs

Assumptions (`SliceAssumption`): each agent has one runtime and each runtime one
agent, which is how `scenario.py` starts them; attempts have the shape
`_agent_request` reads; the operator, `None`, exchanges and control requests are
different things; the bounds are numbers.  The number of lanes, exchanges, lives
of the server, stray connections and queued requests is arbitrary.

The inductive invariant `SliceInv` adds to the application's `AppIInv`, over
which it is built:

- `CredentialsNumberGrants`: the credentials of one life of the server are
  `born + 1` to `drawn`, in the order of its grants.  This is what tells a reused
  grant number from the grant it once was.
- `ExchangesMoveOnce`, `QueuedOnce`: an exchange is queued at one runtime,
  forwarded from there at most once, and stands in the application's queue at
  most once.  Without them an effect could be performed for an exchange that was
  already refused.
- `ConnectionsOK`: what is still queued has had no effect and no answer, and
  carries the request its agent made with the credential its runtime used.
- `AnswersFit`: every answer in flight and every outcome an agent holds says what
  happened (`Fits`): success is `Earned` by an effect, anything else that was
  answered had none.
- `EffectsAreRecorded`: effects under credentials of this life are those of its
  receipts, and effects of earlier lives are under smaller credentials.  With
  `EffectsHappenOnce` of the application this makes `OneEffectPerAuthority`
  inductive over restarts.
- `OperatorKnows`: what the control client holds and was told of credentials.

Only two steps matter to effects: `AppServe` performs one, if the request it
takes from the head of the queue is created by `Handle`, and `AppRestart` moves
`born` past every credential there is.  All other steps move requests and
answers.  `ServeKeeps` and its lemmas treat the first, with the lemmas of
`AppServerProofs` for what `Handle` does to the tables; each process has a lemma
per action for the rest.  From `SliceInv` follow `SuccessIsPerformed`,
`RefusalIsFinal`, `OneEffect`, `RetryIsAnsweredAlike`, `ConflictIsCaused`,
`FileIsCurrent`, `FenceIsFinal`, `AuthorityDies` and `SliceImplementsLedger`:
the whole slice, with its queues, timeouts and crashes, is the ledger that the
application promises to be.

### Induction

The library's induction theorems take an operator as a parameter, which the
provers cannot instantiate.  `SetInduction` says the same of the *set* of the
numbers that have a property, and follows from well-foundedness
(`NatLessThanWellFounded`, `WFMin`), which needs no operator.  `IterationExists`
does this for the recursion the folds of the community modules are defined by:
there is a function on the subsets of a finite set that takes one element out at
a time.  With it what a fold computes can be proved element by element.
`StepsExist` does it for a recursion that takes a number of steps.
`CountsAreRanks` and `InOrderLists` are about sorted lists: that counting what
comes before gives each member a place of its own is the pigeonhole principle.

### ReplayReducerProofs

First the report.  Assumption: the cap is at least one.  Invariant: `Sound(report)`, which is
`ReportTypeOK /\ ReportIsSound` said of any report (`SoundReport`).

`PushSound` is the step: below the cap a finding is appended; at the cap the
first error takes the last place, every other finding is only counted.
`OneMoreCounted` follows the sum of the counts (a fold over the checks,
`TotalAddsUp`), which makes `OmissionsAreCounted` inductive.  The theorems are
about `ReportSpec`, one finding per step.  The validator adds the findings of a
record at once, with a fold: `PushesExist` and `FoldBrings` say that the fold
passes through a sound report after each of them and what all of them bring.

Then the event reducer.  Assumptions: those of the validator's constants.  Invariant

    EventsInv == EventsTypeOK /\ StreamsFollowDeliveries

A stream's record of its delivery and that delivery's record of its answer are
updated by different branches of `check_ack`, and the stream's remembered epochs
must not run ahead of the counters; without `StreamsFollowDeliveries`
`EventsOnlyAdvance` would not follow, since a stream could be terminal for a
delivery that is not acknowledged.  One lemma per branch (`FirstTransmissionStep`,
`RetransmissionStep`, `TakeTerminalAckStep`), one per record kind, and
`ValidatorStep` for everything else the validator does.  `EventsAdvance`, which
the run checks as `EventsOnlyAdvance`, says at once that streams only move
forward and that deliveries keep their identity and their answer.

### ReplayConformanceProofs

Assumptions: those of the validator's constants.  Any records, bundles of any
length, any bound on the diagnostics.

The rules of `ReplayConformance` speak of positions in the whole sequence; the
validator keeps a state, some tables, flags and epochs.  The inductive invariant
says what each of these stands for in the records read so far:

    ValidatorInv == ConformanceInv /\ EventsInv /\ SessionTypeOK /\ Sound(report)

`ConformanceInv` says that an error has been reported exactly when a rule is
broken (`LegalSoFar`), and as long as none is, that the state `Reflects` the
records: the session is in the state of its last transition and
`session_gap_pending` means a capture gap after it; a delivery's entry is its
transmissions, their last attempt and their first terminal answer; a stream
stands at its last *first* transmission, and an epoch newer than the stream's
means a gap behind that position; what is pending are the acknowledgements with
no delivery before them; the report lists a gap exactly when there is one.
After an error nothing of this is claimed, because nothing of it is needed: a
rule about a record looks at its past only (`SamePast`, `RulesStay`), so a rule
once broken stays broken, and `LegalGrows` reduces the rules of the longer
sequence to that of the newest record.

For each kind of record there are then two arguments.  What the reducer reports
is an error exactly when the rule of the record is broken (`SessionJudged`,
`RetryJudged`, `PositionJudged`, `DeliveryJudged`, `AckJudged`); and if it is
not, the tables go on to reflect the records (the lemmas named `...Follow` and
`...Follows`).  `RecordJudged` puts them together, `PreflightStep` and
`FinishStep` are the two steps that read no record; `PendingJudged` is the
argument of the latter.  From `ValidatorInv` follow `ErrorsComeWithTheirRecord`,
`VerdictsAreExact`, `AssurancesAreEarned`, `ReportsAreSound` and
`ValidatorTypeCorrect`.

`ConformanceInv` was checked with TLC on the instances of `replay_sessions` and
`replay_events` before it was proved.

### SafetyStoreProofs

Assumption: `StoreAssumption` (limits and generations are numbers, requests have
the store's shape, `None` is none of the data).  Nothing is assumed of the number
of connections, lineages or sessions.  Invariant

    StoreInv == StoreTypeOK /\ SessionsKeepTheirLineage
                /\ AdmissionsMatchSessions /\ LimitHolds /\ AdmissionsFollowGenerations

The argument has three layers.  `HolderSees`: the connection that holds a
transaction sees the database as it is, because it is the only one
(`StoreTypeOK` carries this).  `NextTables`: hence each step either leaves the
tables alone or is one of seven changes (seed, revoke, interrupt, resume,
create, admit, raise the fence), stated without connections and views.
`StepKeepsRows`, `OnlyAdmissionsCount`: rows are never deleted or bound to
another lineage, and only an admission adds to a count.  `AdmissionsMatchSessions`
(an admission is under the lineage and at most the generation of its session) is
what makes `AdmissionsFollowGenerations` inductive; together they let `LimitStep`
show that the number of the new admission is unused.  `FenceHolds`,
`RevocationHolds`, their conjunction `StopsHold` (the run's `StopsAreFinal`) and
`StoreImplementsGuard` follow for each of the changes.

`FenceIsNamed` (`AnswersNameTheFence`) needs one more invariant: an answer that
names a fence is about rows that exist (`FencesAreStored`), so that no later
step can create the session or the guard anew; only a committed `Admit` makes
such an answer (`AdmitAnswers`, `OthersNameNone`), and what is stored stays
(`StoredStays`).

### ConformanceRunnerProofs

Assumptions, which the JSON schemas state: the requirements of a catalog, the
vectors of a row and the rows of a profile are lists (`CatalogsHaveLists`), and
a subject is an implementation or a suite fixture (`SubjectsHaveKinds`).
`NothingStraggles`, `OneCatalog` and `ResultsAreTimely` do without them.  An
invariant for each theorem, because they concern different parts of the state:

- `NothingStraggles`: `NoStragglers` is inductive; every step that ends an
  exchange kills its group (`StragglersStep`).
- `OneCatalog`: `EditsAreCounted` counts how many edits it takes for the tree to
  differ from the snapshot and to agree with it again, and `ReportComesLast`
  says that the only report is the one `Finish` verified.
- `ResultsAreTimely`: `ResultsRestOnTimelyAnswers` alone is not inductive, since
  the result of a probe rests on an acknowledgement taken a step earlier;
  `ResultsFollowVectors` remembers it, and that there is one result per vector
  already begun.  `RecordStep` is the step that adds a result, `ResultsStand`
  every other one.
- `EveryPassIsEarned`: a report that is out verifies with the catalog the run
  loaded (`ReportsVerify`), its inventory has an inventory's members
  (`InventoriesAreRead`), its observations are what the probes said in time
  (`ObservationsAreTimely`), and `RunIsOne` keeps what was decided before the
  first exchange: the catalog is accepted, no fixture speaks for an
  implementation, the plan is the catalog's, and the report is of this run.
  `VerifiedPassIsEarned` says it of any report and any accepted catalog: one that
  is on the run's subject, names only the run's observations and verifies as a
  pass is earned under that catalog.  That every vector the matrix applies is in
  the plan needs the catalog: `RowsOfProfile` (each row is where its profile
  lists it, since matrix order and unique identifiers leave it no other place),
  `PlacesAreFinite`, `ListedAreNamed` (a list without repetition names what its
  places name) and `AppliedIsPlanned`.
- `NothingIsForged`: rests on the same invariants and on `CheckedIsAnEdit`: what
  a later verification accepted is an edit of the report, verifies with an
  accepted catalog, and names it or took two changes of the tree.  An edit that
  verifies as a pass is about the same subject and shows nothing that was not
  observed (`EditedPass`, `RemovedIsPart`), so `VerifiedPassIsEarned` applies.
  With the run's own catalog the edits change nothing (`EditsForgeNothing`): the
  inventory's binding determines the subject, the subject the plan, the plan the
  vectors (`BoundReportsAgree`); each observation counts for one result
  (`ObservedOnce`), so a pass put in on another observation is the result that
  was there before (`PutInIsNoChange`); an error among the results is reason
  enough not to pass (`ErrorsAreNoPass`).
- `BundlesArePlanned`: `NoConflict` follows because the rows that name a vector
  agree on when they apply (`NamingRowsAgree`), `ClaimIsPlanned` because the
  places of a claim and of a run are then the same.

### ConformanceCasesProofs

The documents, the records and the moves of the world are constants of the
party, so the theorems hold for any of them, any number of accepted documents
and any interleaving of offers, moves and judgements.  `FreshAuthorized` asks
nothing of them.  The other theorems are of the form `Spec /\ Environment =>
[]P`, where `Environment` has two parts:

- `Shaped`, of every offer: what the JSON schemas and the types of the records
  settle before a validator runs (a revision is a number, a path is a list, a
  manifest has finitely many actions, a record has the members the party
  writes).  In an MCP session, moreover, a client asks for a further page only
  while there is one, an answer is to a call, and the links of an answer lead
  into the application's store: `check.py` is handed the fetched resources and
  does not see how they were fetched.
- `Keeps`, of every move of the world: what was recorded of accepted documents
  changes by accepting another one only.  Without it the properties are false:
  nothing in `check.py` stores anything, so a caller that forgot the revision it
  accepted would accept an older one.

Neither is about acceptance, and a run shows that both can hold: `MCCases`
assumes them of the worlds it begins in (`MCWorldsAreHonest`, which TLC
evaluates), dishonest documents included.  The assumptions on the constants are
that `None` is no number (`NoneIsNoNumber`) and that the names of actions are
listed in an order and the limit of what is shown is a number
(`ActionsAreNamed`).

`Judged` (everything accepted passed its validator with the records of that
moment) is the invariant of all of them.  `ImpactNeverStale`,
`CoverageMeansPossible`, `WorstIsShown`, `EditsStayInside`, `FreshIsAuthorized`,
`ClosestIsRendered` and `ClaimsAreBacked` follow from it; the properties that compare documents need
what the records remember of the earlier ones: `AhpRecorded`,
`PurposeRecorded`, `ElicitationRecorded` and, for a listing, `Listed`.

What takes an argument is what the code computes in another way than the
property says it:

- `CoverageMeansPossible` speaks of the least closed set of actions, the code
  iterates as often as there are actions.  `ClosureStages` makes the iteration a
  function (`StepsExist`); `ClosureCloses` says that a stage that is not closed
  yet has grown each time and so the last one is closed; `ClosureIsLeast` and
  `NeedsIsClosure` say that it is the least.
- `WorstIsShown` compares risks, the code sorts by risk and name and cuts.  A
  sorted list is given by how much comes before each member (`InOrder`);
  in a strict order these counts are all the numbers up to the number of members
  (`CountsAreRanks` of `Induction`), so `OrderedLists`: the list has every
  member, and who comes before comes first.
  `RisksOrder` says that the sort key is such an order.
- `ClosestIsRendered` speaks of the longest language that is a range of a
  preference, the code drops subtags until it finds a language.  `LookupEnds`
  says what the loop has left after each step.  It needs that no valid tag has a
  singleton (`NoSingleton`): the code's step over a singleton subtag is never
  taken, because the preferences are validated first.
- `EditsStayInside` speaks of every value of the inputs, the code of the paths
  where they first differ: `ChangedCovers` finds the shortest differing
  beginning of any path to a difference.
- `OneAnswerPerRevision` concludes from equal hashes that messages are equal
  (`SameHash`), a hash being the value it is of.
- `ClaimsAreBacked`: the code pairs the receipts an answer names with the links;
  `OneReceipt` concludes that one link is to an application receipt, and no
  other.

### Only model-checked

Liveness and anything with ENABLED, so of the slice `LanesKeepMoving` and
`QueueKeepsMoving`: every invariant and every other action property the runs
check is also a theorem.  The three
disagreements of section 5 are counterexamples of TLC.

## 7. What is not modelled

- *Receipts and composition of the replay tool* (`validation/receipts.rs`,
  `receipt_resources.rs`, `composition.rs`): planned, see below.  Bundles in the
  model have no receipt records.
- *What the preflight checks accept*: JSON schema, canonical hashing, strict
  parsing and secret scanning are functions of one document.  The model keeps
  which checks fail and that a failed one stops the replay.
- *Replay summary counters, ordinals and messages of diagnostics*: no rule
  depends on them.
- *Slice evaluators, `mocks/behavior.py`*: stateless decisions over vectors.
- *`mocks/state.py`*: planned, below.
- *Of `conformance/check.py`*: strict JSON parsing, the schema registry and the
  JSON schemas (a document is well made or not), canonical hashing (a hash is
  the value it is of), the size limits (64 requests of an impact simulation, the
  bytes of a message; the model's documents are far below them), patches of
  arrays, the decoding of percent signs and the syntax of URIs, the list of
  operational fields (a carrier is absent, valid or not), `binding.error`
  answers, what makes a receipt locally valid (one flag), the command line.
- *The callers of the validators*: they are not in the repository.  What
  `ConformanceCases` and `McpSession` say of them is the least that the
  validators' contexts imply.
- *Scenario script, process management, check and harness*: a fixed sequence and
  single-shot adapters; the exchanges they make are modelled.
- *Linter, importer, publication, review*: batch functions over files, without
  interleaving or retained state.
- *Other adoption studies*: examples; `contextbuilder/runtime.py` is a candidate.
- Wire framing (one bounded line), TLS, file permissions and process environment:
  a bad line is the request the server drops or the runtime rejects.

## 8. The plan

Done, in this order: application and ledger; slice; report, session and event
reducers with the validator; safety store; proofs of the application, slice,
report, event reducer, whole validator and store; conformance catalog and runner,
with proofs; conformance documents, bindings and messages with the party that
judges them, with proofs.

Next, in this order:

1. `ReplayReceipts`: `check_receipt` with its chain heads, links and approvals,
   read with gaps, in the manner of `ReplayEvents`; a rule for the whole bundle
   in `ReplayConformance`; then `composition.rs` as an ordered decision over
   provider verdicts.
2. `JournalStore`: initialization of a scope (make directory, temporary file,
   rename) against readers, a second initializer and a crash at each step.
3. `ReplayCapture`: a session as it really runs, recorded by an exporter that
   loses stretches and declares them, feeding the validator: an honest record
   must never be judged invalid.
4. The lane evaluators of both lanes as operators, compared over all bounded
   inputs.
