# BridgeAI in TLA+

A verification development of BridgeAI: its backend (`src/backend/app`, Python,
FastAPI) and its web client (`src/frontend/src`, TypeScript, React). TLA+ modules
of the parts where requests, handlers and answers meet, TLC configurations that
check them on small instances, and theorems about them checked by TLAPS.

Contents: [the system](#1-the-system) - [what can go wrong](#2-what-can-go-wrong)
- [modules and code](#3-modules-and-code) - [runs](#4-runs) - [proofs](#5-proofs)
- [bounds](#6-bounds) - [fairness](#7-fairness) - [assumptions and what is left
out](#8-assumptions-and-what-is-left-out) - [done, and what
remains](#9-done-and-what-remains).

## 1. The system

One Python process (or a few, behind nginx) serves the API. Every request is an
asyncio task with a database session of its own: `core/database.py: get_db`
commits it when the request ends and rolls it back when an exception passes
through. State is kept in PostgreSQL (rows), Redis (rate limits, OAuth states,
few-shot pool, short-term memory), Milvus (vectors), MinIO (files) and in the
process (circuit breaker, MCP connectors, provider and plugin registries, WeChat
access token). The web client is a single-page application: its state is that of
React components, and the token in the browser's storage, shared by all tabs.

The backend:

| Component (code) | State | Operations | Interacts with | What makes it hard | Correct when | Module |
|---|---|---|---|---|---|---|
| Circuit breaker (`agents/circuit_breaker.py`) | per model: failure count, time of last failure, open flag; in the process | `is_available`, `record_success`, `record_failure`, `call_with_fallback` | chat pipeline, providers | calls of many chats in flight settle in any order; streams fail after they were recorded | flag, counter and clock agree; a working candidate is found; cooldowns and requests end | `CircuitBreaker` |
| Payments (`services/payment_service.py`, `api/v1/payment.py`) | `payment_orders.status`, `tenants.plan` | create an order, pay it by simulation, callback, direct upgrade | payment providers | repeated and lost callbacks, overlapping transactions, failures between two writes | an order is paid exactly when its plan was granted; money taken becomes a plan | `PaymentOrders` |
| Chat pipeline (`services/chat_service.py`, `api/v1/chat.py`) with billing (`services/billing_service.py`) | messages, usage records, the session they are written in | quota check, question, rounds of model and tools, reply, audit, billing, commit | breaker, gateway, memory, PostgreSQL | quota checked long before usage is committed; swallowed failures break the session; streams go on after `done`; disconnects | the overshoot of its own chats is bounded; reply and charge are kept together; users hear of failures | `ChatPipeline` |
| Knowledge bases (`rag/engine.py`, `api/v1/knowledge.py`) | documents, chunks; vectors in Milvus | upload, background ingestion, deletion of documents and bases, search | PostgreSQL, Milvus, MinIO, embedder | two stores without a common transaction; deletion races ingestion; crashes forget background tasks | a ready document is in both stores; deleted ones in neither; ingestions and deletions end | `KnowledgeIngestion` |
| MCP gateway (`mcp/gateway.py`, `api/v1/mcp.py`) | `_connectors`: live instances; `mcp_connectors` rows | register, unregister, execute, list; CRUD | chat pipeline, connectors | awaits between checking the registry and storing in it; unregistered before the row is committed | no closed instance is handed out; updates take effect; nothing stays open unregistered | `McpGateway` |
| Workflow executor (`services/workflow_executor.py`) | queue, visited set, steps of one execution | traversal, branches, loops, parallel nodes | providers, connectors | nodes executed by the traversal and by other nodes, cycles, edges to nowhere, failures inside branches | what is reached is executed, once, and nothing else; a failed step is the last | `WorkflowExecutor` |
| Rate limiter (`middleware/rate_limit.py`) | token bucket per key in Redis | check and consume | Redis | read and write in two pipelines; expiry; fails open | requests that do not overlap keep to the rate | `RateLimiter` |
| Few-shot pool (`engine/feedback_loop.py`) | a sorted set per agent in Redis | add, trim, load | chat pipeline | four Redis commands, nothing between them to keep others out | the pool settles at its cap | `FewShotPool` |
| OAuth and users (`api/v1/auth.py`, `services/auth_service.py`) | OAuth states in Redis, users | QR code, callback, register | Redis, WeChat | check-then-act on states and on unique columns | a used state serves nobody who comes later; users are unique | `WeChatLogin` |
| Memories, API keys, channels, collaboration, model router, chunker, parsers, providers, connectors, payment clients, object storage, plugins, filters, CRUD services, deployment | | clients of external systems, pure functions of text, single-row CRUD | | | | not modelled ([section 8](#8-assumptions-and-what-is-left-out)) |

The web client:

| Component (code under `src/frontend/src`) | State | What makes it hard | Correct when | Module |
|---|---|---|---|---|
| Chat page (`pages/Chat`, `api/chat.ts`) | conversations, messages, the streams being read | local ids are renamed by what a stream brings while the user goes on and React's updates wait | what is shown together is stored together; replies arrive; the input comes back | `ChatPage` |
| Workflow editor (`pages/Workflows`) | list, canvas, selection | handlers keep the selection and rows of the render they were made in | a graph is saved as its own workflow's; the list is the server's | `WorkflowEditor` |
| Knowledge page (`pages/Knowledge`) | bases, documents of the selected one, search | answers are shown whatever is selected by then | documents offered for deletion are those of the selected base | `KnowledgePage` |
| Agents page (`pages/Agents`) | cards, drawer | the drawer loads its form when it has slid in | no agent is saved with another's values | `AgentsPage` |
| MCP page (`pages/MCP`) | cards, dialogs | loads in two steps, a test under way | the cards are the server's connectors | `McpPage` |
| Settings (`pages/Settings`) | plan and orders; keys; team; two forms | the plan or the settings shown may be old; forms begin with defaults | payments raise plans; saving keeps what was left alone | `BillingTab`, `ApiKeysTab`, `TeamTab`, `SettingsForms` |
| Top bar (`components/Layout/TopBar.tsx`) | unread count, drawer, search box | a count with four writers, one of them a poll; a debounced search | the count settles at the server's; results are those of the text | `NotificationBell`, `SearchBox` |
| Session (`stores/useAuthStore.ts`, `api/client.ts`, login pages) | token in storage, its copy in the store | a 401 for an old token removes a new one; other tabs | pages end up shown to those who are signed in only | `WebSession` |
| Plugins, audit log (`pages/Plugins`, `pages/AuditLog`) | installed plugins and a test dialog; a page of entries | loads overlap; filters change under a load | what is shown belongs to what was chosen | `PluginsPage`, `AuditPage` |
| Dashboard, landing page, docs, widgets | | load once and show | | not modelled |

## 2. What can go wrong

`PROJECT.json` lists the hazards of this code at their lines, with the properties
that would catch them. The themes:

- *check, await, act* without a lock: quota (`chat_service.py:104`), orders
  (`payment_service.py:239`), registry (`gateway.py:111`), token bucket
  (`rate_limit.py:155`), few-shot pool (`feedback_loop.py:59`), OAuth state and
  users (`auth.py:91`), the settings of a tenant (`api/v1/system.py:69`);
- *two stores, one transaction*: Milvus and PostgreSQL (`rag/engine.py:136`);
- *swallowed failures*: a flush that fails breaks the session for whatever comes
  after, although the caller goes on (`billing_service.py:56`);
- *order of effects*: success recorded before the stream (`circuit_breaker.py:146`),
  `done` sent before the reply is saved (`chat_service.py:564`), a connector
  unregistered before its row is committed (`api/v1/mcp.py:178`), a change answered
  before it is committed (`core/database.py:26`);
- *forgotten work*: background ingestion lost with its process;
- *graphs drawn by users*: cycles, forks and edges to deleted nodes
  (`workflow_executor.py:174`);
- *stale closures and stale answers* in the client: a handler that awaits uses the
  selection of its click afterwards, and an answer is shown whatever was chosen
  meanwhile (`pages/Workflows/index.tsx:160`, `pages/Knowledge/index.tsx:64`);
- *copies edited by hand*: lists and counts changed by the page after each answer
  instead of being read again (`TopBar.tsx:171`);
- *names that change*: a stream renames the conversation it made and its messages
  while they are shown (`pages/Chat/index.tsx:286`);
- *a refusal that is late*: a 401 removes whatever token is stored by then
  (`api/client.ts:36`).

## 3. Modules and code

The unit of interleaving is what the code does between two awaits at which
something shared can change: all of it is one action. `PROJECT.json` maps every
definition to its lines.

### The backend

**`BreakerStates`** (abstract) - the three states of the breaker's docstring and the
moves between them. **`CircuitBreaker`** implements it: `circuits` is `_states`;
`pc`, `chain`, `pos`, `stream` are the local state of `call_with_fallback` in each
concurrent request. Choosing a candidate and starting its call is one step
(`Proceed`), settling a call, recording it and moving on another (`CallSucceeds`,
`CallFails`). `last_failure_time` is kept as the time since, up to the cooldown,
and `failure_count` up to the threshold: the code compares them with nothing
else, so the state space is finite without bounding requests or time.
`reliable`, fixed at the start, is the set of models whose provider never fails.
**`CircuitBreakerHistory`** adds what callers see: failures in a row, and the
requests let through an open circuit.

**`OrderLedger`** (abstract) - orders are opened and settled, settling grants the plan.
**`PaymentOrders`** implements it. A request is a transaction under READ COMMITTED
in three steps: the SELECT (`HandlePaymentSuccess`, `ProcessPayment`,
`UpgradePlan`), the UPDATE of the order (`WriteOrder`) and that of the tenant
(`WritePlan`), each waiting for the row lock and neither looking at what the row
holds by then; `CommitPayment` and `CommitUpgrade` make both visible and answer
the callback, whose answer may be lost. `Fail` rolls back. `Charge` is the
provider's side (external).

**`ChatPipeline`** - a chat is a record that goes through the stages of
`_run_pipeline`; its `rows` are what its session would commit. A flush that fails
(`Flush`) takes what was flushed with it and leaves the session `broken`: later
uses raise, which some callers swallow (`ExecuteTools`, `PostProcess`, `Bill`) and
others do not (`SaveQuestion`, `SaveReply`, `Return`). Loaded objects are expired by
the rollback, so that reading the conversation afterwards may raise as well. An
exception becomes `error` and `done` (`Raised`), after which `get_db` commits what
is left. `Cut` is a disconnect or the end of the process: a disconnect cancels the
pipeline at the await it is in, and where that is none of the database's `get_db`
commits what the session holds, such as a question without a reply. The quota
checked is that of the user's tenant and the tenant charged that of the agent, which
`_load_context` loads by its id alone: `chat` and `usage` are the chats whose user and
agent are of the tenant, and `others` is what else is charged to it, by chats of other
tenants' users with its agents (`GuestChat`) and by tool calls outside chats
(`ExecuteConnectorTool`), neither of which its quota holds back. Streaming and
synchronous chats share the actions and differ where the code does: the
unavailable and exhausted paths, memory, audit.

**`KnowledgeIngestion`** - `status` and `rows` are PostgreSQL, `vectors` is Milvus. An
ingestion goes from `queued` to `working` (the row updated, its lock held to the
end), `inserted` (vectors in Milvus, nothing committed) and the commit; it may
fail anywhere (`FailIngestion`), and recording that may fail too (`RecordError`). A
deletion lists the committed chunks and deletes their vectors (`DeleteVectors`), then
waits for the lock and deletes the rows (`DeleteRows`). `Crash` can happen in any
state.

**`McpGateway`** - one connector's row (`config`), the registry's entry for it, the
instances ever made and the requests that use, update or delete it. `Load` and
`Register`/`FindRegistered` are `_get_connector_or_404` and `_ensure_registered`,
`Connected` the end of `register_connector`; `Unregister`, `Disconnected`, `Write`
and `Commit` are `update_connector` and `delete_connector`. `overlaps` records
which races a run has had.

**`RateLimiter`** - the bucket of one key. A request takes the time (`Arrive`), reads the
bucket in a pipeline, works out what it holds, and writes it back in another; when
Redis fails it is let through. Tokens are counted in parts, so that the refill of
a tick is a whole number. A bucket not written for `Ttl` ticks is gone. What the
property counts are the requests let through that came since a tick `since`,
which may be chosen anew at every tick: a window of any length.

**`FewShotPool`** - the number of examples of one agent, through the four commands of
a store: `AddExample` (zadd), `Renew` (expire), `CountPool` (zcard), `Trim`
(zremrangebyrank). `StoreFails` leaves whatever was done, `PoolExpires` ends the
pool. Histories record how much too many a store counted, which store nothing has
overlapped (`poolAlone`), and that a store broke off.

**`WeChatLogin`** - `HandOut` is the QR code, `FindState` and `DeleteState` are the two
Redis commands of the callback, `WeChatAnswers` the exchange of its code,
`FindUser`, `InsertUser` and `CommitUser` the first login. An openid is unique, and
so is the mail address made of its first eight characters: `Clash`.

**`WorkflowExecutor`** - `queue`, `visited` and `steps` are those of
`execute_workflow`; `Skip` is the loop's `continue`, `ExecuteFails` and
`ExecuteSucceeds` a node with the edges that are followed. The type of a node is
chosen when it is executed, since nothing asks for it before; edges are any set,
also from and to ids that no node has. A `parallel` or `loop` node executes targets
itself (`Itself`), and the traversal comes to them as well. `taken` and `executed`
are histories.

**`Services`** puts the gateway and these four beside each other: they share no state,
so that a behaviour is of one of them, `part`, and the states are a sum and not a
product.

### The web client

A handler of a page is one step up to its `await` and one after it; what it uses
then is the closure of its click, kept in the request. A request is sent, served
and answered, and may fail before or after it is served. Each page's module has
its server in it: the rows the endpoints keep, of which ids are left. A row that the
code deletes softly (`is_active = False`) is one that is not listed any more: it is
found, changed and deleted again like any other. What a user
may do in a state is what the page offers in it: disabled buttons and open
dialogs are guards.

- **`ChatPage`** - a question is sent under a local id; its stream brings the server's
  ids (`meta`), text, and `done`. Updates that a stream's callbacks make wait in
  React's queue until the next render, functions in them read references when
  they are run: `queue`, `Render`, `Applied`. `Rendering[i]` is the page with the first
  `i` of them applied. What the server does for a question (`serving`) goes on whether
  the page hears of it or not: when the connection breaks (`StreamBreaks`), before the
  meta event or after it, the server may still store the exchange; after an error
  event, too (`ErrorEvent`: no model, or a stream that broke off, are followed by
  `done` and the save). It is stored when `get_db` commits, after the response
  (`Commit`).
- **`WorkflowEditor`** - list, canvas, saving, creating, deleting, running. A graph is a
  set of nodes and edges.
- **`KnowledgePage`**, **`AgentsPage`**, **`McpPage`** - cards, drawers and dialogs, with the
  requests behind them.
- **`BillingTab`** - plan, orders, `handlePay` with its two requests, and others who
  change the plan; **`ApiKeysTab`**, **`TeamTab`** - lists edited or read again;
  **`SettingsForms`** - forms saved as a whole, into which the server reads the stored
  settings (`ReadForSave`) before it writes the result (`WriteSave`): two commands to
  Redis, and other saves in between.
- **`NotificationBell`** - the poll every 30 seconds, the drawer, and the two handlers
  that mark notifications; **`SearchBox`** - the timer of 300 ms and its request.
- **`WebSession`** - token, store, place; logins, logout, other tabs, expiry, 401.
- **`PluginsPage`**, **`AuditPage`** - loads that overlap what they are asked for.

**`WebApp`** is the client: a behaviour visits one page, chosen from `Visits`. Pages
share no state and ask the server about different data, so that each can be
visited alone. Histories (`*Missed`, `kbCrossed`, `auditCrossed`, `testCrossed`,
`searchCrossed`, `agentsHasty`) say when a page could not know better: an answer
was lost, or came when something else had been chosen.

When a change is stored differs, as in the code. The endpoints of users and plugins
commit before they answer (`users.py:151,195,229`, `plugins.py:108,124`). Those of keys and
connectors flush, and `get_db` commits after the response: `KeysFlush` and `KeysCommit`,
`McpServe` and `McpCommit`, between which the answer may arrive and the list be read
again, without the change. Those of agents and workflows only flush, too; there the
page reads its list once, when it is opened, and edits it afterwards, so that nothing
is read between an answer and its commit.

The `MC*` modules give the constants their values, the `*Proofs` modules hold the
theorems.

## 4. Runs

| Run | Checks | Shows |
|---|---|---|
| `breaker_core` | `TypeOK`, `OpenAtThreshold`, `ReliableCandidateAnswers`, `CoolingModelIsLeftAlone`, `ImplementsBreakerStates`, `BreakerRecovers` | two chats on the default chain, streaming or not, one model not configured, every set of reliable providers; cooldowns and requests end |
| `payment_orders` | `TypeOK`, `PaidIffGranted`, `AnsweredIsPaid`, `ImplementsOrderLedger`, `ChargedBecomesPaid`, `RequestEnds` | an upgrade and a downgrade order, two requests at a time, lost answers, one failure |
| `chat_pipeline` | `TypeOK`, `QuotaOvershootBounded`, `RepliesAreBilled`, `UnansweredIsReported`, `EndedStreamsAreDone`, `ChatEnds` | two chats at a time, two rounds each, a database failure, disconnects, chats of other tenants' users and tool calls outside chats |
| `knowledge_ingestion` | `TypeOK`, `StatusIsTrue`, `PurgedStaysPurged`, `DocumentsSettle` | a document with and one without text, two deletions at a time, any number of crashes |
| `services` | `ServicesTypeOK`, `RegistryIsSound`, `RacesAlone`, `AdmittedWithinRate`, `PoolSettlesAtCap`, `LoginsHold`, `RunsWhatIsReached`, `ServicesEnd` | three requests at a connector and one update; requests at a bucket, stores to a pool and callbacks of logins that overlap at every step; every workflow of up to three nodes |
| `web_app` | `ShownTogetherStoredTogether`, `RepliesArrive`, `SavesAreOwn`, `ListsAreStored`, `AnswersBelong`, `InputComesBack`, `PaymentsRaisePlans`, `SavesKeepSettings`, `UnreadCountSettles`, `PagesAreSignedIn` | every page with its server, a few clicks, requests that overlap, are late or get lost |

Six runs show where the code does not do what it says of itself. TLC finds each
property violated:

| Run | Property | What happens |
|---|---|---|
| `breaker_half_open` | `HalfOpenAdmitsOne` | after the cooldown every request is let through until one settles; `circuit_breaker.py:38` says one |
| `breaker_streams` | `ConsecutiveFailuresOpen` | a stream counts as a success when its generator is created, and its failure is never recorded: with streaming chats, the default, no circuit ever opens; `circuit_breaker.py:4-5` |
| `payment_idempotent` | `RepeatedCallbackIsIgnored` | two requests that pay one order both load it as pending; the second grants the plan again, over an upgrade made in between; `payment_service.py:241` |
| `chat_done` | `NothingFollowsDone` | saving the reply after `done` may raise, which sends `error` and another `done`; `api/v1/chat.py:69` |
| `knowledge_deleted` | `DeletedLeavesNoVectors` | vectors that no committed chunk row refers to (ingestion under way, or failed after the insert) survive the deletion of their document; `rag/engine.py:237` |
| `billing_charged` | `ChargedAsShown` | the button names the total of the page's prices (299 and 999, less a discount), the server makes the order with its own (99 and 499 times the months); `pages/Settings/index.tsx:661`, `payment_service.py:24-28,76` |

What the properties admit is part of what they say. Requests that overlap at a
bucket may exceed the rate, and stores that overlap at a pool take away the good
examples each of them counted too many: the properties bound it, and say that it
takes an overlap. Of two people whose openids begin alike the second is refused,
and stays refused (`LoginsHold`). A tenant's quota is overshot by its own chats by a
bounded amount; what guests of its agents and tool calls outside chats are charged
with has no bound, and only makes the check refuse sooner
(`chat_service.py:104,586,798`). Of the web client:

- `ShownTogetherStoredTogether`: an exchange whose connection broke before the meta event
  may be stored in a conversation whose name the page never learns
  (`api/chat.ts:138`, `pages/Chat/index.tsx:196`), and the next question begins another;
  and a question asked before the exchange before it is committed may be stored
  elsewhere. Both are excepted, and both happen (with three questions the second
  forks what is shown as one).
- `SavesKeepSettings`: a save that the server begins while another runs undoes what that
  one writes in between, also in the other form's fields (`system.py:69,74`); a setting
  that was not read, or not anew, is saved as it is shown; one never set is saved as the
  default; an empty name of the platform, or language, is shown as the default and saved
  as such.
- `ListsAreStored`: a list is not what the server has after a load failed or an answer was
  lost; after a list was read between the answer to a change and its commit (keys,
  connectors); after a list was shown that was read before one shown already (keys,
  connectors, plugins); after an answer that edits the list arrived while a list was on
  its way; or after the answer to a creation, or to an older change of the same row,
  arrived behind that to a later one. Each `*ListIsStored` names those of its page, and
  each of them can happen; `*Missed` records that one has.

Met in the code, and stated by no property: the docstring of the tiers speaks of
60 requests a minute, but a full bucket and what comes in admit 120 in a first
minute (`rate_limit.py:5-8, 27-31`); the history a question is sent with holds
the question already, which the server appends once more
(`pages/Chat/index.tsx:171`, `api/v1/chat.py:63`); a conversation that came with the
list has no name in `realConvIdRef`, so that going on with it begins another on the
server (`pages/Chat/index.tsx:196`); the temporary password of an invited user is only
in the answer's message, so that the dialog that should show it never opens
(`users.py:157`, `pages/Settings/index.tsx:1035`); a WeChat callback without a code says
that it goes back to the login, and does not (`pages/WeChatCallback/index.tsx:29`).

Every property of a passing run has a mutant in `PROJECT.json`: a definition next to
the original, changed the way a bug in that code would change it, under which TLC
finds the property violated.

Deadlock is checked but in `services` and `web_app`: a workflow completes, instances
run out, a user may leave a page alone. In `knowledge_ingestion` the check says
nothing, as `Crash` is always possible. There and in `services`, liveness
properties stand for it.

## 5. Proofs

All for every value of the constants, from the `ASSUME`s of the modules alone.

| Module | Theorems | Argument |
|---|---|---|
| `CircuitBreakerProofs` | `TypeCorrect`, `ThresholdDecides`, `ReliableCandidatesAreFound`, `CoolingIsRespected`, `BreakerKeepsItsStates`; `CooldownsEndWithTheCalls`, `CallsGoDownTheList` | `OpenAtThreshold` is inductive with the types, and with it each of the four things a step may do to the circuits is a step of `BreakerStates`. A reliable model is never charged with a failure, so its circuit never opens; what remains is that the loop of a request has passed unreliable or absent candidates only, which holds of the position of every call (`ReliableInv`). A clock is set back only by a failure that ends a call which was in flight when the circuit opened |
| `PaymentOrdersProofs` | `OrdersTypeCorrect`, `PaymentsAreAtomic`, `NoPaymentIsDropped`, `OrdersImplementLedger` | the invariant adds that a request works on an order that was created, and an order that is charged exists (`KnownOrders`); refinement step by step |
| `ChatPipelineProofs` | `PipelineTypeCorrect`, `QuotaOvershoot`, `RepliesBilled`, `StreamsEndWithDone`, `UnansweredReported`; `ChatsRunOut` | the quota needs a sum over a tenant's own chats (what `others` are charged with only makes the check refuse sooner): the usage committed plus what chats in flight may still commit, where the set of chats that passed the check grows only while usage is below the limit (`QuotaInv`, with cardinalities of finite sets); billing needs what the rows of a session look like at every stage (`ChatInv`), the stream's end a second one (`EndInv`). What a chat has `Left` counts the tool rounds and the stages of the last one |
| `KnowledgeIngestionProofs` | `IngestionTypeCorrect`, `ReadyIsSearchable`, `PurgesLast`; `JobsRunOut` | who holds a document's lock, and what a deletion that listed the chunks knows: that the ingestion is over for good (`JobInv`, `RequestInv`) |
| `ServicesProofs` | `GatewayTypeCorrect`, `RegistrySound`, `OnlyAfterRaces`, of the gateway alone; `ServicesTypeCorrect`, `WithinRate`, `PoolSettles`, `LoginsAreSound`, `RunsReached`, `WorkflowsRunOut`, of the services | `UpdateInv`: while no update overlapped a registration, nothing is registered while a row is written and whatever is registered has the committed configuration; `StrandedInv`: while no two registrations did, what is open is registered. `RateInv`: while requests do not overlap, what was let through and what is left stay within the rate, and a bucket that expires would be full by then (this uses the assumption `(Ttl - MaxDelay) * Rate >= Capacity`). `PoolInv`: what stores that have counted will still remove is a set of pairs, at most `mostExcess` for each of the others, and what is left after them is enough. `LoginInv`: an inserted user clashes with nobody. `ReachInv`: visited and queued ids together hold the start nodes and the targets of the edges followed, and lie in every set that is closed under them; `TimesInv`: how often a node was executed is counted by the executed nodes that lead to it. `WorkLeft`: an id joins the queue over an edge of an id come to for the first time, so that what is queued and the edges of ids not come to run out together, cycles included. A step of the whole is a step of a part or leaves it alone |
| `PagesProofs` | `GraphsAreOwn`, `AgentsAreOwn`, `ShownBelong`, `ResultsBelong`, `FormsKeepSettings`, `PaymentsRaise`, of single pages; `SavesBelong`, `AnswersAreOfChoices`, `NobodyWaitsForNothing`, of the client | what the requests in flight were asked for, and that the page is still at it or has been marked as crossed (`WfInv`, `AgentsInv`, `KbInv`, `SearchInv`, `AuditInv`, `PluginInv`); what a form shows of what was read, and that a save in flight of the page's own writes just what was shown so (`FormInv`); that a payment is for more than the plan shown (`BillInv`); that requests of forms have numbers of their own, which a handler's next request takes over, and that tokens come with the answers to logins only (`SessionStands`). The client's theorems follow as those of the services |
| `ListsProofs` | `ListsAreTrue`, of the client | of each of six pages: where list and server differ, a change of that row is uncommitted, or an answer is on its way whose handler changes the list just so, or a list that will show it (`WfSynced`, `AgentsSynced`, `McpSynced`, `KeysSynced`, `TeamSynced`, `PluginsSynced`). That needs ids that never come back (`*Fresh`, `*Given`), deletions that are final (`*Gone`), rows for what is saved (`*Known`); for keys and connectors, that an answer which came before its change is committed is not undone by what is shown or read since (`KeysTold`, `McpTold`), and for the others, which of the changes of a row was the last (`*Last`, `*InOrder`, `*Lost`) |
| `ChatPageProofs` | `ChatPageTypes`, `RepliesAlwaysArrive`, `ShownIsStoredTogether`, `InputIsLent`, of the client | what a step does to `Rendered`, the page as it would be if React rendered now; see below |

The chat page's theorems speak of what is shown when the updates that wait are
applied in turn, however many they are. `Rendered` is therefore a recursive function,
`Rendering`, over the queue. That such a function exists and is unique, and that an
update appended to the queue is the last one applied, is shown by induction on the
length of the queue: the library's induction theorems take an operator, but one
about sets of numbers (`SetInduction`) follows from the least element of a
non-empty set (`WFMin`), and it suffices here. A render leaves `Rendered` as it is,
and a callback applies one update to it, although the functions in the queue read
references that change: a stream's references stand from its first event on
(`HeardStands`), and no update waits for a stream before that (`QueueFits`, part of
`ChatInv`). On this rest two invariants, which TLC checked beforehand.

- `RepliesStand`: from the question on, a reply of the right name stands in the
  question's conversation, streaming only while its stream is not over, with
  words once they came, unless its answer came to be renamed late. For `RepliesArrive`
  it has to hold while updates wait and of streams that go on, and needs that what the
  server answers to `getMessages` are finished exchanges under names of its own
  (`AnswersKnown`).
- `Orderly`, while nobody has asked before the exchange before was committed or given
  up: of one question at most is that to come (`OneUnsaved`); an exchange whose
  meta event came and that is stored, or may be, is shown in its conversation only
  (`AliveShown`), and one just asked where it was asked (`SentShown`);
  the server's names of conversations lead to themselves (`NamesStand`), and the
  server was asked for the name the page still has (`AskedStands`). Without the last
  two `ShownTogetherStoredTogether` is not inductive: a `meta` event may rename a
  conversation under what is stored in it.

Every invariant and action property of the passing runs is a theorem. Only
model-checked is what holds under fairness (`BreakerRecovers`, `ChargedBecomesPaid`,
`RequestEnds`, `ChatEnds`, `DocumentsSettle`, `ServicesEnd`, `InputComesBack`,
`UnreadCountSettles`, `PagesAreSignedIn`), which TLAPS does not reach. Of most of
them the half is proved that is about the code and not about its scheduling, for
every size: that what has to end does not go round, so that fairness is all it
still takes, and that nobody waits for something that will not come.

| Property | Proved of it |
|---|---|
| `ChatEnds` | `ChatsRunOut`: a chat has at most `2 * MaxToolRounds + 7` steps left, and each step of it, or its being cut, leaves it fewer |
| `BreakerRecovers` | `CooldownsEndWithTheCalls`: a cooldown starts over only when a call that was in flight fails, which uses that call up; `CallsGoDownTheList`: a request moves down its list and never back up |
| `DocumentsSettle` | `JobsRunOut`: a document in `processing` has a job that is alive, or one that was lost; a job goes through its stages in one direction |
| `ServicesEnd` | `WorkflowsRunOut`: what is queued and what may still be met grows less with every step, until the run ends, whatever cycles the graph has |
| `InputComesBack` | `InputIsLent`: the input is disabled only for a stream that is open, and a stream and what the server does for it have fewer steps left after each of them |
| `PagesAreSignedIn` | `NobodyWaitsForNothing`: a page behind the guard has a token in the store, whoever waits on the login or callback page waits for a request or a timer of the page's own |

## 6. Bounds

- *Breaker*: two requests are enough for a late success or failure to meet an open
  circuit; thresholds and cooldown are small, but the threshold (3) is the code's.
  Requests repeat for ever.
- *Payments*: two handlers, since a conflict is between two transactions;
  `MaxFaults = 1` lets one request fail at any point after its SELECT. Callbacks
  and answers that are lost are not bounded.
- *Chats*: two at a time, `MaxToolRounds = 1` (the code: 100) gives a round after a
  round; limits are so small that the quota is reached and overshot. In the code
  a chat keeps a database connection, so that at most 30 run in a process
  (`pool_size=20, max_overflow=10`): the value of `Chats` that the theorem
  `QuotaOvershoot` speaks about. `MaxFaults = 1`. What is charged to others than the
  tenant's own chats is kept up to the limits, above which it makes no difference.
- *Knowledge*: two documents (with and without text), two deletions; crashes and
  failures are not bounded. Uploads do not repeat: a document is an upload.
- *Gateway*: three requests, so that two registrations and an update overlap; two
  instances, so that one can be stranded while the other is replaced; one update
  of the configuration, which later requests may or may not see. Once all
  instances are stranded, making one fails.
- *Rate limiter*: two requests at a time, buckets of two tokens (`Capacity = 4`,
  `Unit = 2`), half a token a tick; buckets expire after five ticks, requests take
  one at most, and the clock stops at six: full, empty, refilled and expired again.
  In the code a bucket is full again after 60 s and expires after 120 s, so that
  the theorem holds of requests that take up to 60 s to get through to Redis.
- *Pool*: three stores at a time, a cap of 7 (the code: 20), since the excess of
  the first and the removals of all three have to fit under it; `MaxPool = 11`
  bounds what stores that broke off pile up.
- *Logins*: three callbacks, two states, three people of whom two have openids
  that begin alike. States are handed out once.
- *Workflows*: every graph of up to three nodes, with edges between any two ids,
  to themselves included; `MaxIterations = 1`, as the rounds of a loop are alike.
- *Pages*: clicks are bounded page by page (`Max*Clicks`, `MaxEdits`, `Max*Steps`: two
  to six), enough to begin, overlap and repeat each handler; ids are two or three,
  of which some exist at the start. The chat page has two questions, one
  conversation of its own, one click beside them and one late render: the server
  can commit the first question while the page is already at the second, and the
  second then goes out with the conversation's name or without. The bell has two
  polls in flight, as in the code; the session two tokens. A page has between
  2,900 and 770,000 states.

## 7. Fairness

- *Breaker*: the clock advances; a call in flight settles, because every provider
  client has a timeout (120 s, Ollama 300 s). No request has to begin.
- *Payments*: strong fairness for the steps that wait for a row lock, which
  PostgreSQL grants in order of arrival; strong fairness for callbacks, which the
  providers repeat for a day or more; failures are bounded. Users are not fair.
- *Chats*: a chat in progress goes on (timeouts of providers, tools and database).
- *Knowledge*: an ingestion goes on while its process lives; a deletion that waits
  for a lock gets it. A crash needs no fairness and may come at any time.
- *Services*: connecting, calling and disconnecting end (timeouts of connectors);
  a workflow is executed without a pause. Nothing is asked of buckets, pools and
  logins.
- *Client*: React renders what is queued; a stream goes on or breaks off; timers
  fire; the server answers or a request fails, as axios gives up after 30 s. Users
  are not fair.

## 8. Assumptions and what is left out

- PostgreSQL under READ COMMITTED: a SELECT sees committed rows, an UPDATE by id
  waits for the row's lock and overwrites, a failed statement aborts its
  transaction.
- The session of a streamed chat lives until the stream ends, as in FastAPI from
  0.118 on. `requirements.txt` allows 0.115 to 0.117, where the exit code of
  `get_db` runs before the body is streamed; nothing a chat writes would be
  committed there. It is listed as a hazard and not modelled.
- One process. With several, the breaker and the gateway are one each, and the
  theorems hold of each; Redis and the database are common, and there requests
  of different processes overlap like those of one.
- Agents can be loaded by users of any tenant, as in the code: what they are charged
  for with another tenant's agents is `others`, of any amount. A synchronous chat
  that fails commits nothing; a stream's session commits what it holds, also when
  the client went away at an await that is none of the database's.
- A commit that fails after the answer was sent is left out of the pages' lists (keys,
  connectors, agents, workflows): the page would show what the server has not, until
  it reads its list again. The chat page has it: `serving` may end without `Commit`.
- The deletion of a knowledge base takes its locks in one step. In the code it
  takes them statement by statement, and can deadlock with an ingestion that
  inserts chunks of the base in between; PostgreSQL then ends one of them, which
  is `FailDeletion` or `FailIngestion`.
- A behaviour of the client visits one page; what leaving a page does to its
  requests is left out but for the session's. Lists are sets: orders do not matter.
- Text is left out everywhere: prompts, messages, chunks, answers, labels and
  conditions of workflows, names, prices but for the totals of orders.
- Of modelled pages are left out: the choice of an agent, tool calls, analyses and
  ratings in the chat; voice input and attachments of the input bar; positions and
  configurations of nodes; the agent editor's templates and lists; fields of the
  forms beyond the kinds of values they hold; the tool and arguments of a plugin's
  test; page sizes; the switch of the language.
- Not modelled at all: clients of external systems (LLM wire formats, WeChat Pay
  and Alipay signatures, MinIO, database and HTTP connectors), whose outcomes are
  choices of the modules that call them; memories, written to Milvus before their
  rows are committed, which is `KnowledgeIngestion` over again; channels, whose only
  state is a cached token, and whose redelivery is outside this repository;
  collaboration, which keeps nothing and whose parallel tasks have no caller; the
  model router, the chunker and the context parser (pure functions of text that
  no other part relies on); industry plugins (static data and stateless tools);
  content filter, security headers and tenant middleware (stateless); CRUD
  services of agents, notifications, audit and users (single-row writes; the
  pages' modules have what they call of them); dashboard, landing page and docs;
  deployment files.

## 9. Done, and what remains

Done, in this order: circuit breaker, payments, chat pipeline, knowledge ingestion,
MCP gateway; then the web client, page by page, and as a whole; rate limiter,
few-shot pool, login with WeChat and workflow executor, with the gateway as
`Services`; each as module, run, mutants and, where said above, proofs.

What remains, most important first:

1. Memories, beside `ChatPipeline`, with its session and Milvus.
2. What `RequestEnds`, `ChargedBecomesPaid` and `UnreadCountSettles` rest on, and what
   `ServicesEnd` does in the parts other than the executor, as theorems like those at
   the end of section 5.
