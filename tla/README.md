# Presidium in TLA+

A verification project for Presidium, the governance layer on top of the Civitas
agent runtime. Paths below are relative to the repository:
`P` is `packages/presidium/src/presidium`, `C` is
`packages/presidium-contrib/src/presidium_contrib`.

- [1. The system](#1-the-system): components, state, interaction, what is hard
- [2. Modules](#2-modules): what models what, and how
- [3. Runs](#3-runs): what is checked, at which bounds, and what it shows
- [4. Proofs](#4-proofs)
- [5. Divergences found](#5-divergences-found)
- [6. Not modelled](#6-not-modelled)
- [7. Plan](#7-plan)

## 1. The system

Presidium decides whether an agent may do something: send a message, call a tool,
call a model, spawn a child. It keeps one record per agent (identity, grants,
status, lineage, trust), evaluates policies over the record and the request,
asks a person when a policy says so, and writes what happened to an audit sink.
Everything runs as coroutines on one asyncio loop; a coroutine runs undisturbed
between two awaits. The registries can outlive the process (SQLite, PostgreSQL),
everything else is in memory.

### Inventory

| Component | Source | State | Operations |
|---|---|---|---|
| Trust score | `P/trust/core.py` | stored value, ceiling, last positive signal | `value` (lazy decay), `record_event`, `set_value` |
| Lineage rules | `P/lineage.py` | none | child ceiling, grant narrowing, depth |
| In-memory registry | `P/registry/memory.py` | records, scorers, list of trust events | register, deregister, lookups, grants, trust events, override, status, identity |
| SQLite registry | `P/registry/sqlite.py` | two tables, scorers in memory, write lock, one connection | the same |
| PostgreSQL registry | `C/registry/postgres.py` | two tables, scorers per process, write lock per process, pool | the same |
| Approval services | `P/approval.py`, `C/webhook`, `C/slack` | pending requests and futures by id | `request_approval`, `decide`, `list_pending` |
| CEL engine | `P/policy/cel.py` | compiled rules by stage, cache of grant conditions | `load_policies`, `evaluate` |
| OPA engine | `C/opa/engine.py` | none | `evaluate` over HTTP |
| Tool and model providers | `P/providers/tool.py`, `model.py` | none of their own | check, check_grant, check_resource, post_check |
| Civitas adapters, gateway provider | `P/providers/civitas_adapters.py`, `gateway.py` | backends | governed call, spawn check, delegation |
| Message bus | `P/bus.py` | none of its own | `route` |
| Audit enricher | `P/audit.py` | TTL cache by agent name | `emit` |
| Runtime | `P/runtime.py` | the parts above | from_config, start, reload_policies |
| Windowed trust, cold start, telemetry | `P/trust/*.py` | window of outcomes | observe, score |
| Scoring | `P/scoring`, `C/trust/scorer.py` | none | score from history |
| MCP pipeline | `C/mcp_gateway` | hashes of tool descriptions | call with scans before and after |
| HTTP agents | `C/server` | none of their own | registry CRUD, approvals, check_grant |
| Services | `C/service` | none of their own | registry and engine as GenServers |
| SPIFFE | `C/spiffe` | current SVID, subscribers | sync, rotate |
| Identity, credentials, CLI, agentgateway client | `P/identity.py`, `P/credentials.py`, `C/cli`, ... | files | I/O and formatting |

How they interact. Providers, bus and gateway call `registry.lookup`, then
`engine.evaluate` with the record they got (a snapshot), then the audit enricher
(which looks the agent up again), then, for REQUIRE_APPROVAL, await the approval
service; only then does the action happen. Operators and HTTP agents call the
registry and `decide` from other tasks. The SPIFFE source calls
`update_identity` from its rotation callback, which a thread triggers. A tool behind
a gateway is listed, compared with what an operator approved, judged by OPA over the
network, run and judged again. Nobody but the registry holds a
lock, so every await in this chain is a place where the world changes.

### What is hard, and what correct means

- **Trust score**: decay is computed on read and baked in on write. Correct: only
  a positive signal raises what a reader sees; the ceiling is never exceeded; an
  event costs what it says.
- **Lineage, registries**: a child may be registered, re-registered under another
  parent, granted to, orphaned, in any order. Correct: no child holds a pair that
  no operator ever gave to a root, or shows more trust than an ancestor had when it
  delegated; orphans gain nothing; revisions count content changes.
- **SQLite registry**: read, await, write; one transaction shared by all tasks;
  scorers in memory next to rows on disk. Correct: no lost update, no window
  between check and write, what a call returned survives a crash, what a cancelled or
  failed one left behind is no worse than late, the journal matches the rows, no call hangs.
- **Approval**: a decision, a timer, a cancellation and a delivery race; ids may
  repeat. Correct: one approval lets one request through, the first answer stands,
  every request ends, what is listed is alive.
- **Enforcement**: a decision is taken on a snapshot and acted on after awaits, of which
  an approval may take minutes. Correct: what the agent may no longer do when a call
  begins does not happen, an act has its event, one approval lets one call act, a result
  that is denied to the agent as it is when it arrives is withheld, reload is all or nothing.
- **PostgreSQL registry**: several processes, each with its own lock and its own scorers,
  on one pair of tables. Correct: a process never undoes its own writes, nothing but
  `register` brings a row into being, the journal names agents that exist, ceilings stay
  below the lineage. It does not promise more: see section 5.
- **External gateway**: the tool, its approval and the policy each change by somebody
  else's doing. Correct: a tool is run only if what was looked at was approved, OPA is asked
  about exactly what is sent and is away for nobody's benefit, personal data is judged
  before it is masked and masked before it is returned.
- **Runtime, audit, SPIFFE**: a start half-way through, a cache filled by lookups that
  overlap, a sink that fails after it stored, a key replaced between two reads. Correct:
  what start() returns with is what the topology says, whatever ran before, events are neither lost nor older
  than the TTL, and the registry ends up with one SVID's key and algorithm.
- **Event scorers**: a score is folded anew from a buffer on every read, while weights are
  learnt. Correct: the past can be replayed, two copies of the code agree, learning is
  bounded and looks forward.

The list of hazards with their source lines, and the property that covers each, is in
`PROJECT.json` under `hazards`.

## 2. Modules

```
Trust  <-  Lineage  <-  MemoryRegistry   --implements-->  Delegation
                    <-  RegistryCalls  <-  SqliteRegistry
                                       <-  PostgresRegistry
Trust  <-  Scoring  <-  EventScorers
Policy, Approval    <-  Enforcement
Payload, OpaEngine  <-  ToolGateway
AgentRecords  <-  SpiffeBinding, AuditEnricher  <-  RuntimeLife

Lineage         <-  LineageProofs  <-  MemoryRegistryProofs, SqliteProofs, PostgresProofs
Approval        <-  ApprovalProofs
Enforcement, ApprovalProofs  <-  EnforcementProofs
ToolGateway, EventScorers        <-  GatewayAndScorerProofs
RuntimeLife     <-  RuntimeLifeProofs
```

**Trust** is `LinearTrustScore` and `tier_for_value` as operators on a record
`[stored, ceiling, signal]`. Trust is counted in units (`One` is 1.0; hundredths in
the registry runs), time in hours, so no rounding happens. A ceiling of `None` is
`One`, which is the same thing because values are clamped to 1.0 first.

**Lineage** has the records, the rules of `lineage.py`, and the record operations the
backends share. A (resource, action) pair is one element of `Pairs`; scope, condition
and expiry of a grant are not compared by the narrowing rule and are left out, and so
are owner, description, capabilities and metadata of a record.

**MemoryRegistry** is `InMemoryRegistry`: `agents`, `scorers`, `journal` are its three
fields, `now` the clock. No method awaits anything that suspends, so one method is one
step. Lookups are actions, because `_sync_trust` writes the trust into the stored record.
`lookup_by_id` returns the first match in dictionary order; the model allows any.
Two history variables carry what the properties compare with: `lineage[n]`, the trust of
each ancestor at its delegation, and `authority`, every pair an operator gave to an agent
without a parent. Calls that raise before they change anything are no steps; a call that
is refused after it looked its parent up has the effect of `Lookup(parent)`.

**Delegation** is what a registry promises about delegation, with neither storage nor
scorers nor clocks: `holds`, `reach`, `roots`, and three actions (`Endow`, `Delegate`,
`Diminish`). `MemoryRegistry` implements it under the mapping `holds` = the pairs in the
grants, `reach` = the ceiling of the scorer, `roots` = the records without a parent.

**RegistryCalls** has the calls of the registry protocol as records, and what a trust call
makes of a scorer and writes into the journal: both SQL backends share it.

**SqliteRegistry** is the same interface with the code cut at its awaits. A step is the
code from one resumption to the next database statement, together with that statement:
aiosqlite runs statements in the order they are submitted, so nothing can come
between. `conn` is the database as the connection sees it (uncommitted changes of all
tasks included), `saved` the database of the last commit, `queue` the asyncio lock with
its FIFO of waiters, `task[t]` the program counter and local variables of a call.

| Code | Actions |
|---|---|
| `register` without parent | `StartLocked`, `Insert`, `Commit`, `Finish` |
| `register` with parent | `StartChild` (SELECT of the parent), `QueueChild` (checks, then lock), `Insert`, `Commit`, `Finish` |
| `deregister` | `StartLocked`, `Select`, `Delete`, `Commit`, `Finish` |
| `add_grant` | `StartLocked`, `Select`, `SelectParent`, `UpdateGrantAdded` or `RefuseGrant`, `Commit`, `Finish` |
| `remove_grant`, `update_status`, `update_identity` | `StartLocked`, `Select`, `UpdateGrantRemoved` / `UpdateStatusOrIdentity`, `Commit`, `Finish` |
| `record_trust_event`, `set_trust` | `StartLocked`, `Select`, `UpdateTrust`, `Commit`, `Journal`, `CommitJournal`, `Finish` |
| `list_agents(trust_tier=...)` | `StartList`, `SyncRow` per scorer, `FinishList` or `SyncRaises` |
| environment | `Tick`, `StatementFails` and `CommitFails` (database locked, disk full), `Cancel`, `Restart` |

A task may be cancelled at each await. The statement it waits for is done all the same, since
aiosqlite runs it in a thread, and no code takes back what it wrote: the lock is free, and the row is in
the open transaction all tasks share. A commit that raises has the same effect, unless SQLite
rolled the whole transaction back (`KeepOrRollBack`), other tasks' statements included.

Each mutation ends with a re-read of its row, which changes nothing and is part of
`Finish`; `lookup`, `lookup_by_id` and `list_agents` without a tier change nothing at all.

**PostgresRegistry** is the same code once more with what PostgreSQL makes of it: no
statement opens a transaction, so each commits by itself; the lock (`queue[p]`) and the
scorers (`scorers[p]`) belong to a process; the upsert resolves a conflict on the name only;
`trust_events` references `agent_records`, so deletions and changes of an id raise. `task[t]`
is the coroutine, `ProcessOf[t]` the process it runs in. Two history fields of a row: the trust
of each ancestor when it delegated, and the process that wrote last.

| Code | Actions |
|---|---|
| `register` | `StartLocked`, or `StartChild` (SELECT of the parent) and `QueueChild`; `Insert`, `Finish` |
| `deregister` | `StartLocked`, `Select`, `Delete`, `Finish` |
| `add_grant` | `StartLocked`, `Select`, `SelectParent`, `Save` or `Refuse`, `Finish` |
| `remove_grant`, `update_status`, `update_identity` | `StartLocked`, `Select`, `Save` or `Refuse`, `Finish` |
| `record_trust_event`, `set_trust` | `StartLocked`, `Select`, `Save`, `Journal`, `Finish` |
| `list_agents(trust_tier=...)` | `StartList`, `SyncRow` per scorer, `EndList` |
| environment | `StatementFails` (did not run), `AnswerLost` (ran, the connection broke), `Restart(p)` |

**Scoring** is the library `scoring/functions.py` as operators: decay, window, filter, fold,
replay. `EventsAt(events, positions)` is what its list comprehensions make of a buffer, written without
`SelectSeq`, of which the provers have no definition. **EventScorers** runs `WindowedTrustScorer` and `LearningTrustScorer` side by side on the
same calls, because their code computes one value twice over. They begin alike only if they are given
one `initial_value`: without one the windowed scorer asks its cold-start strategy, the learning
scorer takes its own default (`ScorersInit` has both). The buffer holds each event with
the delta it was given when it was recorded; `readings` (what was shown at the end of each
hour) and `byHand` (the weights as last set by hand) are history.

**Approval** is `CallbackApprovalProvider` with its four modes and, as a fifth mode, the
webhook and Slack providers, which share the waiting and deciding code and differ in the
post that comes first. `stage[r]` is where call `r` is and, at its end, the status of the
request; `future[r]` its future; `pending` and `futures` the two dictionaries. `Expire` is
the timer of `asyncio.wait_for`: the packages require Python 3.12, where an expired
timer cancels the waiting task even if its future got a result in the same turn, so
`Expire` may overtake `Resume`. `Deliver` is the moment the message reaches the
approver, which is before the post returns.

**Policy** is `CelPolicyEngine` and `parse_policy_rules` as operators. A policy is the
sequence of rules of a file; `Truth(e, activation)` says what an expression evaluates to
("true", "false", "error") and `Broken` which ones do not compile, so the model has the
engine's own part: which rule of a stage decides (`Before`, `FirstHit`), what an error,
an expired grant, a condition that fails and a request nobody matches come to, and what
loading does. `Parsed` drops the mode of a rule, as `parse_policy_rules` does.

**Enforcement** composes `Policy` with `Approval` (an instance whose requests are the
calls). One agent makes calls of five kinds; `call[c].at` is the await a call is suspended
at, `record`, `verdict` and `result` its locals.

| Code | Actions |
|---|---|
| `check_resource`, `GovernedModelProvider.check` | `Read`, `MissesRecord` or `EvaluateBefore`, then `Passes`, `Refuses` or `Asks`, `CallbackOrMessage`, `PostEnds`, `TimerOrAnswer`, `GivesUp` |
| backend, `post_check_resource`, `post_check` | `BackendReturns`, `EvaluateAfter`, `ReturnOrNot` |
| `governed_spawn_check` | `Read`, `MissesRecord` or `EvaluateBefore`, `SpawnOrNot` |
| `handle_call` of the gateway agent | `FindById`, `Read`, `MissesRecord` or `EvaluateBefore`, `Reply` |
| `GovernedMessageBus.route` | `Read`, `MissesRecord` or `RouteOrNot` |
| errors and cancellation | `Raises`; `A!Cancel` in `CallbackOrMessage` |
| the rest of the world | `RegistryChanges`, `ReloadPolicies`, `LoadPolicies`, `Tick`, `Approver` |

An event reaches the sink in the step that resumes after it. `worlds` is the sequence
of what record, rules and clock were; the last one is the present, the earlier ones
are history, and `call[c].since` marks the one in which the call read its record. The
registry appears only as the records it may hold: how they come about is the matter of the
registry modules.

**ToolGateway** is a call that leaves through an external gateway: `GovernedMcpToolPipeline`,
and the gateway providers over `AgentGatewayClient`. **Payload** says what redaction, scan and
masking do to the leaves of a payload, by where a leaf is; `Unprocessed` are the payloads in which the
pipeline has not masked or redacted anything yet, which is what agents send and tools answer.
**OpaEngine** says what verdict an answer of OPA, a missing one, or none makes. `worlds` is the history of what the gateway serves under
the name, what is approved and which document OPA has; `call[c].since` marks the world the call
looked at. A verdict on a result is acted on as the code does: `deny` raises, `require_approval` lets
the result pass.

| Code | Actions |
|---|---|
| `pipeline.call_tool` | `ListTools` or `TakeDescription` (the caller's definition), `Examine`, `AnswerBefore`, `Decide`, `ApproverSays`, `ToolReturns` or `BackendFails`, `AnswerAfter`, `ReturnOrNot` |
| `GatewayToolProvider.execute`, `delegate_to_agent`, `GatewayModelProvider.chat` | `AskDirectly`, then the same with `AgentReturns`, `ModelReturns` |
| operators, gateway, OPA | `ApproveTool`, `Revoke`, `GatewayChanges`, `OpaChanges` |

**AgentRecords** is the registry as its users see it: records that change at one moment
within a call. A *stamp* tells contents apart and `ended` remembers when each was replaced, so
that an event can be asked how old what it says is. `moved` are the agents whose scorer in this
process has taken an event; `ShownTrust` is what a lookup shows, the scorer's value where there is one.

**SpiffeBinding** is `bind_identity_to_registry` over `SpiffeIdentitySource`: `svid` is
replaced by a thread at any point, even between the reads of key and algorithm (`ReadKey`,
`ReadAlgorithm`), during which the event loop does nothing else (`LoopIsFree`); `syncs` are the
scheduled runs of `_sync`, in order. `missed` is history: a rotation nobody was told of, a last
update that failed, a key from another writer.

**AuditEnricher** is `emit` between its awaits: `Emit`, `LookUp` or `LookUpFails`, `Resume`,
`SinkStores` or `SinkRaises` (after storing or not).

**RuntimeLife** composes the two with `GovernedRuntime`: `Start`, then `LoadKey` and
`RegisterConfigured` for one agent after the other, `StartReturns` or `StartRaises`, `Stop`,
`Crash` (with a registry that outlives it, or not), while HTTP clients register and deregister and
trust is reported (`ReportTrust`). A registration in memory makes a new scorer, one in a durable
registry keeps the process's scorer of the name (`Rescored`).

The **MC** modules hold the instances for TLC.
Definitions marked *Faulty variant* are plausible bugs; nothing uses them in the
specifications, they are what the properties are tested against.

## 3. Runs

| Run | Result | Distinct states | Asks |
|---|---|---|---|
| `memory_lineage` | pass | 456,490 | trust along chains of three agents |
| `memory_grants` | pass | 49,911 | grants along chains of three agents, refinement |
| `sqlite_grants` | pass | 216,729 | two tasks, grants and records, one crash, cancellation or failure |
| `sqlite_trust` | pass | 5,020,713 | two tasks, trust and listing, one crash, cancellation or failure |
| `sqlite_ceiling` | violation | | is the ceiling hard? |
| `approval` | pass | 124,899 | three requests, two with one id, all modes |
| `enforcement` | pass | 2,077,850 | a tool call beside a call of each kind, in a changing world |
| `postgres` | pass | 981,856 | two processes, three tasks, one crash, failure or lost answer |
| `postgres_lost_update` | violation | | does a write ever take back another process's? |
| `event_scorers` | pass | 3,587,096 | two scorers, begun alike or not, replay, learning |
| `tool_gateway` | pass | 1,539,824 | a call of each kind while tool, approval and policy change |
| `runtime` | pass | 1,568,465 | start after start, stop, crash, audit and SVID rotation around one registry |

### Properties of the passing runs

`memory_lineage`: `LineageBound` (no agent shows more trust than any ancestor had when it
delegated), `JournalSound` (only successes and overrides raise, a success by its gain at
most), `TrustRisesOnlyBySignal` (between two states a visible rise has a journal entry
that explains it), `TypeOK`.

`memory_grants`: `AuthorityFromRoots` (no pair comes from nowhere), `OrphansGainNothing`,
`RevisionTracksContent`, `ImplementsDelegation` (every step is a `Delegation` step or
changes nothing there).

`sqlite_grants`: `WritesBuildOnTheLast` (no lost update), `AddGrantHasNoWindow` (what
`add_grant` gives a child the parent has at that very moment), `ReturnedIsSaved` (when a call has
done its last commit, no grant, status, key, row or journal entry, of its own or of a call before
it, is waiting for somebody else's commit; and until a first call is cancelled or fails, neither
is one whenever the lock is free), `AuthorityFromRoots` on both sides of a crash,
`EveryCallReturns` (refused, cancelled and failing calls hand the lock on), `TypeOK` (which has the
lock's queue free of duplicates).

`sqlite_trust`: `CeilingBelowLineage` (the stored ceilings; the shown trust is another
matter, see section 5), `JournalMissesOnlySetbacks` (trust changes in rows and journal
entries differ by at most one per crash, cancellation or failure, and one under way).

`approval`: `OneApprovalOneRequest`, `ListedIsLive`, `FirstAnswerStands`,
`EveryRequestEnds`.

`postgres`: `CeilingBelowLineage` and `JournalPinsRow` (every journal entry names an agent that
is there, so a history also pins the id), `OwnWritesNotLost` (the lock of a process protects its
own writes, whatever the others do), `OnlyRegisterCreates` (a late save does not bring a
deregistered agent back). Deadlock is checked: no process's lock is left held.

`event_scorers`: `ReplayReproduces` (without a warm-up, `replay` gives back what was shown at
the end of each hour), `ScorersAgree` (windowed and learning scorer show one value if they began
with one initial value and while neither weights nor filter tell them apart), `LearningIsBounded`, `WeightsActForward`.

`tool_gateway`: `RunsWhatWasApproved`, `ActsOnOpasWord` (OPA was there during the call and some
document it had does not deny what was asked, credentials redacted; and if it wants an approval, the
call comes from its approver), `PersonalDataIsUndeniedAndMasked` (a result with personal data comes back
masked, and only if OPA, told of it, did not deny it). That a result to be reviewed is reviewed,
it does not say: the code asks nobody (section 5, item 4).

`runtime`: `KeyFollowsSource` (once nothing is under way, key and algorithm are of one SVID, the
current one, except for what `missed` says), `TrustInEventsIsRecent` (what an event says of its
agent was true less than a TTL before the call), `EventsAreKept` (a returned `emit` has its event in
the sink, twice only if the sink raised after storing it), `StartsAsConfigured` (an agent that
nobody else touched during the start is registered with the topology's content and its own key; the
trust it shows is the default of a new record, except over a durable registry in whose process its scorer
had moved, where it is what it was).

`enforcement`: `ActsOnCurrentAuthority` (an act, spawn or message is permitted by a record
and rules that the agent had since its record was read, or approved), `DeniedResultsAreWithheld`
(a result denied to the agent at all times since the backend's answer is not returned, whatever the check
before the act said; a `require_approval` on a result counts for nothing, in the code as here),
`NothingWithoutGrant` (under files each of
which denies what no grant covers before any other rule decides, whoever acts or gets a result
had a live grant; stated on the grants themselves, without the engine; that the files of the instance are
such is the assumption `FilesEnforceGrants`, which TLC evaluates), `AuditExplainsActs` (what the sink
holds tells why each act was let through), `ActsPerApproval`. What they do not
say is as telling: a record that changes while a call waits for its approver has no effect
on that call (`tool.py:228-237` looks at nothing again).

### Bounds, and why they are enough

Memory runs: three names with an id each, so that there is a chain root, child, grandchild
and a cycle can be closed by re-registering the root under its grandchild
(`LineageRequests`), or a second name can take the root's id (`GrantRequests`). Trust in
hundredths with the code's own deltas and thresholds; `MaxHours` 2, `MaxEvents` 1 or 2,
`MaxRevision` and `MaxGrants` 2 or 3. More of any of them repeats these situations; that no
size of instance breaks `LineageBound` is proved (section 4).

SQLite runs: two tasks, because every race here is between two calls; two names; trust on a
scale of 4, since only order matters to the properties. `MaxRevision`, `MaxEvents` and
`MaxHours` bound the state a call *starts* from. `MaxSetbacks` 1 is one crash, one cancelled call or one
failing statement or commit: after it the other calls run on, over what it left. A second one starts
from a state like those the first one leaves. `SqliteGrants.cfg` has no clock
(`MaxHours` 0) and `SqliteTrust.cfg` no grant calls: each would multiply the states of the
other's question without taking part in it.

Approval: two requests with one id and a third beside them; each answer once per id,
which lets an approval and a denial compete and two requests compete for one approval.

Enforcement: a tool call and, beside it, one call of each kind, both naming one resource
and sharing one request id. Two changes of the world (`MaxChanges`) suffice to withdraw and
give back, to change the record and then the rules, or to let a grant expire after one of
them. The three records have a grant that expires, one whose condition depends on trust, and
one without an end on an agent that is not trusted; the three files ask, refuse with an
expression that raises, and do not compile. Every decision, an error and every approval outcome are reached.
The mode of the approval service includes "none" by `attached`.

PostgreSQL: two tasks in one process and one in the other, so that both kinds of race exist;
a root, its child and the root under the child's id, so that every constraint of the tables is
met; each task makes calls of its own list (`CallsOfThree`), which together contain each kind.
The clock stands still: decay is in `Trust` and the memory runs.

Event scorers: a window of two events and two hours, four journal entries and three hours, so that
events leave the window by number and by age, learning happens twice, and a warm-up of two events
ends. Weights and caps are the code's. `HighStart` is an initial value given to both scorers; without
one, the pessimistic strategy has them begin apart and the neutral one alike.

Tool gateway: one call of any kind, since calls share nothing but the world; two definitions and the
blank one; two changes of the world, which suffice for a revocation between look and act and for a
tool that changes and changes back. The documents are one without rules, one that refuses
credentials, asks, and withholds personal data, one that wants results with personal data reviewed,
and one whose answers presidium does not know.

Runtime: two configured agents, one bound to an SVID, three SVIDs of which the last has a key type
the code does not know; `MaxStamps` 6 changes of contents, `MaxTime` 2 with a TTL of 2, one failure,
one failing sink, one crash. Binding, enricher and `start()` touch different fields of a record, or none
of each other's, so behaviours with all of them only multiply the states. `OneOfThree` keeps TLC to those that
rotate SVIDs, with three changes of contents; those that use the clock and the enricher, before the first crash
or failure and over the in-memory registry, with two, which is what it takes to have a content
replaced while it is looked up or cached; and those that do neither, with six: two complete starts of both
agents in one process, and between them a report of trust, a client's call, a sync or a crash (the
source is not used once something failed or crashed there: the first kind has that). Calls of
`emit` are alike, hence the symmetry.

`CHECK_DEADLOCK FALSE` stands in the configurations of `Approval`, `Enforcement`, `ToolGateway` and
`RuntimeLife` only: there, a finite number of requests, calls, SVIDs or changes come to their end and
the model stops.

### Fairness

`SqliteRegistry`: weak fairness of each task's next step. A coroutine whose statement has
come back or whose lock was released is resumed by the event loop, and sqlite statements
return or raise. Calls need not be made; crashes, cancellations and failures need not happen.

`Approval`: weak fairness of the timer or the resumption of a waiting task, of the step
after the timer, and of the end of a post (`httpx` is given 10 seconds). None for a
callback, which may never end, and none for approvers.

`MemoryRegistry` and `EventScorers` have no liveness: every method is one step. The other modules
have none either: apart from the approval, which `Approval` covers, a call waits for registry, sink,
OPA and backend, which lie outside; and a failed sync of an SVID is not tried again, so nothing
makes the registry's key catch up. `PostgresRegistry` has the lock of `SqliteRegistry`, and is checked for deadlock.

## 4. Proofs

Eight modules hold theorems that the TLA+ proof system checks for every value of the constants
which meets the named assumptions (`TrustAssumption`, `LineageAssumption`, ...). Those are what the
models need to make sense: thresholds and deltas in range, requests typed, ids from the set of ids,
policy files that are sequences of rules, a TTL above zero, at least one SVID. TLC evaluates each of
them on every run of a module that has it. Each proof is an invariant `IInv` that every step keeps,
with a lemma per operation, and then the promises, from `IInv` or from a step that starts in it. TLC
found each `IInv` to hold on the instances above before it was proved.

**Trust.** `LineageProofs` has the lemmas about the operators: what `Clamp`, `Decayed` and `Value`
return and bound, that neither event nor override touches a scorer's ceiling
(`RecordEventType`, `SetValueType`), that a child record is bounded by its parent
(`ChildBounded`), what appending and removing a grant do to the pairs, and which fields of a record
an update leaves alone (`OneFieldChanges`). `MemoryRegistryProofs`
proves `TypeCorrect`, `LineageIsBound`, `JournalIsSound` and `TrustRisesBySignal`.

`LineageBound` speaks of what readers see, which depends on the scorer, the clock and the
ceiling, so it is not inductive. `IInv` adds that no scorer's last signal lies in the
future (`ClockAhead`; without it decay would be negative and trust would grow) and that a
scorer's ceiling is the record's and is at most every value in the agent's lineage
(`CeilingsHold`). The last is what delegation preserves: `compute_child_ceiling`
takes the minimum of the parent's ceiling, which is below the parent's lineage, and of the
parent's trust now, which is the one value the child's lineage has on top. Every other
operation leaves ceiling and lineage alone. The two other promises need of it that the clock is
ahead: then decay only lowers what is shown, and an event moves it by its delta at most.

**Delegation.** `MemoryRegistryProofs` proves, too, `AuthorityComesFromRoots`, `OrphansHoldWhatTheyHold`,
`RevisionTellsSnapshotsApart` and `RegistryImplementsDelegation`. Whatever an operation does to
the tree is one of seven effects (an agent is rooted, adopted, removed, endowed by an operator, given
something its parent has, lessened, or nothing happened; `EveryStepHasAnEffect`), and each promise
follows from the effects. For the refinement, `CeilingsHold` gives that `reach`, the scorer's ceiling,
shrinks along the tree.

**SQLite.** `SqliteProofs` proves every safety property of the two SQLite runs, for any number of
tasks, names, calls, crashes, cancelled calls and failing statements and commits. What a property says between calls, the
invariant has to say at each await, so `IInv` begins with what a task's locals may be at each
program counter (`Types`), and then says:
- `Locks`: a task that has read under the lock, or written and not finished, is at the head of the
  queue, and one that has not asked for the lock is not in it. So two such tasks are the same task,
  and a crash, which empties the queue, leaves none.
- `ReadsAreCurrent`: what a task read under the lock is still in the table, apart from the trust
  (`Alike`), which the listing refreshes without the lock. From it follow `NoWriteIsLost`, and, since
  the parent's row that `add_grant` read is covered too, `GrantsAreHeldWhenGiven`.
- `Sound`: grants come from roots and ceilings are below the lineage, in `conn`, in `saved`, in the
  parent's row a registration has read without the lock and in the child it is about to insert. The
  parent may have lost grants or trust by then, or be gone: the bound is about what it had.
- `Durable`: after a call's last commit, while it still has the lock, `conn` and `saved` have the same
  content. Before the first setback they also do whenever no task is between its write and its
  commit; a cancelled call or a failed commit ends that, and the next commit brings the two together
  again. Refreshed trust may differ, and `Alike` does not look at it.
- `Journaled`: how many journal entries are due, counted in both databases, with the one a trust call
  under way still owes and the one each setback may have cost.

**PostgreSQL.** `PostgresProofs` proves what the run `postgres` checks, and `TypeOK`, for any number
of processes. `Locks` is the same argument once per process. Across processes nothing excludes, so
`ReadsAreCurrent` is weaker: what a task read is what the table holds *if its own process wrote the
row last*. That is as much as the code gives (section 5, item 2), and enough for `OwnWritesAreKept`.
`Sound` says of every record a task holds, however old, that it is below the lineage it was read with;
a save writes record and lineage back together, so no order of saves mixes them. That a registration
under way carries revision 1 gives `OnlyRegistrationCreates`; that its record has the id of its request,
which is the one the foreign key is asked about, gives `JournaledAgentsStay`, along with the key's
checks on `DELETE` and on the journal's own `INSERT`. No proof uses fairness.

**Approval.** `ApprovalProofs` proves `ApprovalsAreNotShared`, `PendingIsLive` and
`TheFirstAnswerStands` for any number of requests, whatever ids they share. Requests that ended
cannot be counted step by step, since a decision comes before its request resumes; what `IInv` counts is
futures that were given an approval (`Sent`), and `Placed` says that a request which ended approved has
such a future. `PendingIsLive` needs that an overwritten entry belonged to a request which shares the
id (`ListedLive`, `OwnIdListed`).

**Enforcement.** `EnforcementProofs` proves `SinkExplainsActs`, `ActsAreApproved`,
`CallsActOnCurrentAuthority` and `DeniedResultsStayWithheld` for any policy files, any meaning
of expressions (`Truth` is left open), any records, and any number of calls and changes. The invariant
says of each await what a call carries there: nothing written and nobody asked before the first event;
one event, which asks for approval, while its request is under way; and, at each place where a verdict is
held, that it is what rules in force since the record was read say of that record (`Judged`). History
only grows, so what was judged stays judged. That a verdict is one of the engine's three decisions needs
`FirstHitIsAHit`: in a file of any length some rule comes before all others that hit. `ActsAreApproved`
takes the invariant of `ApprovalProofs`, instantiated with the calls as requests.

`CallsImplementApproval` states the composition as an implementation: with calls for requests, every step of
`Enforcement` is a step of `Approval` or leaves its variables alone. `OneApprovalOneRequest`, `ListedIsLive`
and `FirstAnswerStands`, whose proofs use no fairness, therefore hold of governed calls.

`NothingIsDoneWithoutGrant` has a hypothesis about the policies: each file that compiles enforces grants
(`EnforcesGrants`: whatever is asked, if no active grant covers it, a rule that denies comes before all
rules that do not). It is a hypothesis of the theorem and no assumption of the module, since the other promises hold of
any files. The proof carries it from the files to the rules in force (`GrantsEnforcedStays`: a reload is
all or nothing, so rules in force are those of one file) and from there to the verdict
(`UngrantedIsDenied`), which `Judged` then ties to record, rules and clock of the call's time.

**Gateway.** `GatewayAndScorerProofs` proves in its first part `PipelineRunsWhatWasApproved`,
`CallsActOnOpasWord` and `ResultsAreUndeniedAndMasked`: until it acts, a call of the pipeline carries the
definition that was served when it looked (`Looked`), once examined that definition was approved since
(`Examined`), and the verdict it holds is a document's of the call's time or the hardest no there is
(`Answered`); and the same of the verdict on its result, which was asked for with the finding of the scan
(`Judged`). That a leaf which reads "masked" was masked by this pipeline needs arguments and results to be `Unprocessed`, which
`ToolGatewayAssumption` says; without it a tool could answer with the mask itself.

**Event scorers.** The second part of that module (the two parts share nothing) proves `ReplaysReproduce`,
`BothScorersAgree`, `LearningStaysBounded` and `NewWeightsActForward` for any window, weights, strategy,
rate and cooldown, any number of events and a journal of any length. `ScorersInv` says that both
buffers hold the same events, the windowed one's with the first weights (`SameBuffer`), that the clock is past
every reading and not before any event (`Timely`), and that what learning has added to a weight
fits the cooldowns up to the time it *last learnt* (`LearntInReach`). Where the two began is not part of it:
`BothScorersAgree` has the equality of the initial values as a hypothesis, as `ScorersAgree` states it. `LearningIsBounded` speaks of now and is
not inductive: the next lesson may come at any hour that is a cooldown after the last one.
An event recorded later is at no position that a replay of an earlier hour looks at
(`ReplayOfLonger`), and a reading is taken as the clock moves on, when all events are within the hour that
ends and a replay is the score itself (`ReplayOfAll`).

These proofs need to know that a score is an integer of the scale and that the average over a journal is
an integer, although both are folds, and the library's induction theorems take an operator, which no
prover here instantiates. The module has a first-order induction instead: `NaturalsByOne` says
of a *set* that if zero is in it, and with each number the next, all are, which follows from
the library's `WFMin`; `SubsetsByOne` is the same for the subsets of a finite set. `FoldExists` uses it
to show that a fold one element at a time is defined, so that the recursive functions by which the community modules
fold satisfy their equations (`ScoreType`, `LessonsSum`). What a fold computes is not needed: that both
scorers agree follows from their buffers being equal, not from what is made of them.

**Runtime.** `RuntimeLifeProofs` proves `EventsSayWhatIsRecent`, `EmitKeepsEvents` and
`StartReturnsAsConfigured`. Its `IInv` has that each registered agent's content is nobody else's and was not
replaced (`RecordsHold`), that what is cached was not replaced before the time of its entry
(`CacheHolds`; this is where the enricher's reading `now` before the lookup is on the safe side), and the same
of the locals of each `emit` (`DataHolds`). The module also proves `RegistryFollowsSource`: the last sync
under way reads the current SVID, and when there is none the record has it, unless `missed` says why not.

Only model-checked is liveness (`EveryCallReturns`, `EveryRequestEnds`): it rests on fairness and ENABLED,
out of the prover's reach. Every other property that a passing run checks is a theorem. Two things
the theorems do not cover: how much a score moves by which events (the fold itself, which TLC evaluates), and that
no state of `PostgresRegistry` or `SqliteRegistry` is stuck (deadlock, which TLC checks).

## 5. Divergences found

Two have a run whose counterexample shows it; `PROJECT.json`, `findings`, quotes the lines.

1. `P/registry/sqlite.py:344`, `:378` (`sqlite_ceiling`): after a restart scorers come back without
   their ceiling, and so does that of an agent whose `register` was cancelled, or failed to commit, before
   its scorer was made (`:245`). Registering a known name again also leaves its old scorer in place (`:245`), with the
   old ceiling; the in-memory registry replaces it.
2. `C/registry/postgres.py:432` (`postgres_lost_update`): two processes read a row, each saves all of
   it: the second takes the first one's change back, a removed grant returns, a suspended agent is
   active again. The class promises SERIALIZABLE isolation; no transaction is opened.

Seven more have a configuration of their own beside the runs: it checks the one property named, which
the code violates, and TLC shows how.

3. `P/registry/sqlite.py:219` (`SqliteWindow.cfg`, `DelegationHasNoWindow`): `register` of a child checks
   its parent before it takes the lock, so the child may be inserted with a pair its parent has lost by
   then; `CHANGELOG.md:319-325` has the check close this hole in all three backends.
   `C/registry/postgres.py:177` has the same shape.
4. `P/providers/tool.py:281` (`ResultReview.cfg`, `PersonalDataIsReviewed`): REQUIRE_APPROVAL on a result
   returns it and asks nobody. `docs/design/mcp-gateway.md:340-341` has such a rule, "Tool result contains
   PII — review before returning to agent", and FR-6.4 of `docs/design/policy-engine-requirements.md` demands
   that every REQUIRE_APPROVAL awaits a decision.
   `P/providers/model.py:149` does the same with the answer of a model.
5. `P/runtime.py:152` (`RuntimeTrustReset.cfg`, `TrustIsDurable`): each start registers its agents
   anew, with the default trust; over a registry that kept the row, the trust it kept is overwritten.
   FR-3.6 of `docs/design/agent-registry-requirements.md` has trust scores "durable across agent restarts". In one process the opposite happens: the
   scorer of a known name stays (`P/registry/sqlite.py:245`), so a second start leaves trust that moved
   as it was. `StartsAsConfigured` says both.
6. `P/trust/core.py:104` (`MemoryFailureDelta.cfg`, `FailureCostsItsDelta`): decay is baked into the
   value but its clock keeps running, so the same hours are charged again at each event and read.
7. `C/webhook/approval.py:69`, `C/slack/approval.py:95` (`ApprovalHeard.cfg`, `AnswerIsHeard`): a decision
   that comes before the post returns is lost.
8. `P/bus.py:72` (`MessageBlocked.cfg`, `OnlyHardBlocks`): a message is blocked by a DENY of any mode. In
   the other direction, REQUIRE_APPROVAL lets it pass.
9. `P/providers/tool.py:56`, `P/providers/model.py:55` (`AuditStage.cfg`, `EveryEvaluationAudited`): the event
   of an evaluation after the act says that it was before.

Seen while modelling, without a configuration of their own. What the model has, it has as the code
does it.

*Trust and registries*
- `P/trust/core.py:104`, `:132`: trust stored above the ceiling is invisible to readers and absorbs
  failures after an override.
- `docs/design/agent-registry-requirements.md` FR-1.2 has registration refuse a known name, FR-1.4 a
  revision that only grows, and its scenario a check of the public key; the code replaces the record,
  revision 1, whatever the key.
- `P/registry/sqlite.py:231-244` and every other write: a call that is cancelled between `execute` and `commit`, or
  whose commit raises, leaves its row in the transaction all tasks share, with the lock free. Readers see it;
  the next commit saves it, or a crash drops it, though its caller was told that it failed. No code
  rolls back. A `register` that ends so leaves a row without a scorer.
- PostgreSQL: a process writes trust from scorers that missed the other processes' events; an
  agent with one journal entry can no longer be deregistered (the foreign key raises).
- `P/trust/windowed.py:67`: the pinned hash of the specification is compared once, at construction.
  The buffers of both event scorers are never trimmed.
- `C/trust/scorer.py:57-73` accepts a cold-start strategy (`CHANGELOG.md:525`) but does not ask it for the initial
  value, which stays 0.5 where `windowed.py:52-56` begins at the strategy's: a pessimistic agent starts
  with the trust of a neutral one.
- `C/trust/scorer.py` does not look at `controllable`; `replay` knows no warm-up, and the command line's
  (`C/cli/trust.py:126`) leaves out the filter of the specification.

*Gateways*
- `C/opa/engine.py:117`: an empty result allows, while every failure denies.
- `C/agentgateway/client.py:220`: a tool that reports an error raises, so its result is never judged.
- `C/mcp_gateway/pii.py:91`, `redaction.py:41`: a list in a list is scanned but neither masked nor redacted.
- The pipeline compares the definition its caller hands in, if any, not what the gateway serves by then;
  and between the comparison and the run the gateway may serve another (`RunsWhatWasApproved` says what is left).
- `C/server/gateway_agent.py:127`: the reply of check_grant has no mode, so a caller cannot tell an
  advisory DENY. `C/server/registry_agent.py:14-16` promises that no exception is raised; a parent that
  cannot be resolved, grants too wide or a chain too deep do raise.
- `C/service/policy.py:70` rebuilds grants without condition, expiry and id, so a conditional or expired
  grant counts for a caller of the service; `C/service/registry.py:29` has a registry of its own.

*Runtime, audit, SPIFFE*
- `P/runtime.py:218-246`: a rule read from YAML loses its `enforcement`, which
  `docs/design/policy-engine.md:286-311` documents; `Parsed` has it.
- `P/audit.py:69` awaits the registry for an event whose agent is not cached and not for the next one,
  so the sink may get them in the other order; `docs/design/audit-enricher-requirements.md:80` has them
  in the order received.
- `C/spiffe/binding.py`: a rotation between the first sync and the subscription is not seen, and a sync that
  fails is neither reported nor tried again, until the next rotation. A second `start()` of the runtime puts the
  key file's key over a bound agent's. Two concurrent `SpiffeIdentitySource.start()` open two sources
  and keep one.

## 6. Not modelled

`PROJECT.json` lists every component with its status. For good:

- Identity files and signatures: cryptography and I/O. `load_or_generate` is part of `RuntimeLife`.
- Credentials (a stateless read of the environment or a vault), the command line (arguments and
  printing), error classes, protocols, re-exports: no state, no concurrency.
- The service layer: a GenServer handles one message at a time, so a message is one call of a registry
  or engine that is modelled where it lives; what its translation of dictionaries loses is in section 5.
- HTTP parsing, routes, replies and rate limits of the agents in `C/server`: formats. Their effects
  are `HttpRegister`, `HttpDeregister`, `Decide` and the check_grant calls of `Enforcement`.

Left out of what is modelled: opening and closing the database connections, the tier column (always
`TierFor` of the trust), reads without effect (`has_grant`, `verify_signature`), journal timestamps,
a rollback by SQLite under the statements of `list_agents` (a full disk) while another call is between its write and
its commit, cancellation in `PostgresRegistry` (at an await a cancelled call ends like one whose statement
did not run, `StatementFails`, or whose answer got lost, `AnswerLost`), floating-point rounding,
exponential decay, the regular expressions of the scanners, and time in
`PostgresRegistry`. Two first calls of the SQLite registry that both open a connection are a hazard no
property covers for that reason, and so is an approval callback that never returns, which nothing
in the code bounds. `PROJECT.json` says of each other hazard without a property why it has none: mostly
the code makes no promise there, and section 5 describes what it does.

## 7. Plan

Every component above is modelled, in part, or will not be, and every safety property the runs check has
a theorem. What remains:
- that `SqliteRegistry` and `PostgresRegistry` implement `Delegation` where they do: the grants of
  `add_grant` under the lock, and not the registration of a child, whose window section 5 describes;
- the two components of `GatewayAndScorerProofs` in modules of their own, should the induction over finite
  sets be needed by a third.
