# IAiC Core: verification

TLA+ models of [IAiC Core](../src/README.md), a JavaScript library in which a host runs AI
agents as durable Tasks over PostgreSQL. The models are translated from the source; every
definition's lines are in `PROJECT.json` under `map`.

The question they answer: what do the durable tables promise when hosts crash, sessions are
lost, replies get lost or come late, owners cancel and retry, access is revoked in the middle
of the work, and two hosts meet?

1. [The system](#the-system): components, state, interaction, what is hard.
2. [The modules](#the-modules): which models which part, and how it corresponds to the code.
3. [The runs](#the-runs): what TLC checks, within which bounds, and why they suffice.
4. [The proofs](#the-proofs): what holds for all values of the constants, and why.
5. [Findings](#findings): where code and documentation disagree, and remarks.
6. [What is not modelled](#what-is-not-modelled), and [the plan](#the-plan).

To repeat: `tlc -config X.cfg M` for the runs of `PROJECT.json`, and `tlapm M.tla` for
`TaskStoreProofs`, `MeteredModelProofs`, `ServiceProofs`, `SuiteProofs`, `RecordProofs`,
`ContentProofs` and `Sums`.

## The system

Every component is a class over one PostgreSQL schema, and does its work in short
transactions. Nothing is shared in memory between hosts. A host is a Node process: between
two `await`s it is atomic, and everything the database does happens between them.

### The Task core

| Component | State | Operations | Correct when |
| --- | --- | --- | --- |
| Task store (`tasks/store.js`) | Tasks, calls, event log, transition receipts | owner: create, cancel, resume, provide input, switch model, resolve call; observers: wake, receive delegation; executor: claim, prepare, dispatch, settle, finish, delegate, recover | the call table never lies about the world; no Task runs on with a call in doubt; an observation ends only its own wait; inputs arrive once |
| Executor ownership (`tasks/ownership.js`) | advisory lock of a database session, one ownership row (generation, token, state) | acquire, take, assert, drain, release | one executor at a time; a live one is never fenced; a drained one is succeeded |
| Agent runtime (`agent/runtime.js`) | executor object and loop position, per process | tick, one Task loop, drain, stop | it does what the store admits, on every error path |
| Dispatcher (`capabilities/index.js`) | none | invoke | an uncertain write is reported as uncertain |
| Token ledger (`billing/token-ledger.js`) | accounts, calls, entries, results, issuances, reconciliations | grant, issue, reserve, settle, mark unknown, release, reconcile | an account pays for what was used; nothing is given back that may have been used |
| Metered model (`billing/metered-model.js`) | position of a model turn | next, recoverResult | a response that was paid for is read once; one open request per Task |
| Budgets (`budgets/allowance.js`) | budgets | create, revoke, admit | calls of many Tasks never take a budget over its maximum |
| Reconciliation (`billing/reconciliation.js`) | none | reconcile | every hold can be resolved |

### Services around it

| Component | State | Correct when |
| --- | --- | --- |
| Deferred and recurring jobs (`deferred/`, `recurring/`, `triggers/`) | intents and rules with leases, occurrences | one Task for what came due, whoever loses a lease |
| Handoffs (`handoffs/`, `agent/delegation.js`) | contract, parent and child Task | what a parent is told of a child stays true; children end with their parent or deadline |
| Grants of delegations (`collaboration/`) | grants, their Tasks and admissions | limits of a grant bound the work; a closed grant ends it |
| Capacity and rates (`agent/capacity-store.js`, `rate-store.js`) | slots, windows | the provider's load stays bounded |
| Payments (`payments/`) | charges and refunds of an invoice | money moves once, answers lost or late |
| Notifications and wakes (`notifications/`) | jobs with leases and histories | "delivered" and "failed" are so |
| Events (`events/`) | feed, cursors, consumers | a cursor passes no event that was not scheduled |
| Inbox (`inbox/`) | items, projections | pages hide nothing; delivered stays delivered |
| Devices (`devices/`) | receipts | a closed receipt does not contradict the device |
| Execution journal (`execution/`) | executions, containers | a verdict means the container is gone |
| Releases and observation (`releases/`, `observation/`) | channel, monitor cycles | a protection that is reported took place |
| Support (`support/`) | Issues, follow-ups, conversations | a resolution that is told rests on the revision verified |

### Records

What the host keeps around its Tasks: accounts, memberships and personal keys; definitions,
identities, mandates and policies, which the Runtime asks again and again; access profiles of
Contexts; the model a Task is routed to; sessions, channels and support conversations;
memories and Workspace documents with their lineage; ingested knowledge; the presence of
executors; deployments; evaluation runs; reviews and plans; peers of other organizations;
the framework's feedback queue, which is files in Git; and the pages and summaries in which
all of this is shown. Most operations are one transaction, but their callers check and act in
several, and that is what goes wrong.

### How they interact

- `AgentRuntime.tick` acquires the executor, runs the observers (handoffs, delegations,
  result waits), and claims and works one Task; every write goes through
  `TaskExecutor.transaction`, which asserts ownership first.
- For a model turn the loop calls `meteredModel.next`, which reads and writes the ledger
  in several transactions around one provider call. The loop races it against a deadline:
  the loser goes on in the background, its signal aborted.
- For a tool call the loop prepares, dispatches, invokes and settles, in three
  transactions around one effect in the world.
- Owners, observers and the billing worker write to the same rows at any time, from any
  host.
- Services create Tasks through `TaskStore.create` under a key of their own row and read them
  back; no transaction spans a service's row and a Task. Nor do services share tables with
  each other, but that recurring jobs emit deferred intents and that support speaks through
  notifications.

### What is hard

The hazards are in `PROJECT.json`, each at its line. The main kinds: a crash between
dispatch and settle; a tool, model attempt, driver or container that outlives the caller that
gave up on it; a session or lease lost by a process that does not know it yet; an observation
or an answer that comes after the state moved on; a request repeated because its answer was
lost; the acknowledgement of a commit lost; a refused transaction in an error path; a drain
that meets a lost session; sums (balance, budget, windows) checked while others change them;
authority read in one query and used after the next; a read made of several, in a world that
moves between them.

## The modules

| Module | Models | |
| --- | --- | --- |
| `TaskPromise` | what the Task module promises | abstract: stages, effects, and the world |
| `TaskStore` | `tasks/*`, the loop of `agent/runtime.js` around tool calls | refines `TaskPromise` |
| `TokenLedger` | transactions of `token-ledger.js`, `allowance.js` | operators over the tables |
| `MeteredModel` | `metered-model.js`, its use by the loop, the billing worker | over `TokenLedger` |
| `DueWork` | `deferred/`, `recurring/`, `triggers/task-completion.js` | three loops in one |
| `EventFeed` | `events/` | publishers, pages, two consumers |
| `Handoffs`, `Grants` | `handoffs/`, `agent/delegation.js`; `collaboration/authority.js` and what uses it | |
| `Admission` | `agent/capacity*.js`, `agent/rate*.js` | slots and windows of a provider |
| `Payments`, `Outbox`, `Inbox` | `payments/`, `notifications/`, `inbox/` | external answers get lost |
| `Releases` | `releases/`, `observation/` | channel and monitor cycles |
| `Sandbox`, `Devices` | `execution/`, `devices/` | containers and drivers go on |
| `Support`, `Conversations` | `support/` | Issues and who is told; feedback and replies |
| `Access`, `Accounts` | identities, mandates, definitions, policies; accounts and personal keys | what authority means at each step |
| `AccessProfiles`, `Routing` | `context/access-profiles.js`; `agent/model-profiles.js`, `assistants/` | |
| `Memories`, `Workspaces`, `Papers` | `memory/`; `workspace/`, `provenance/`; reviews and plans | `Workspaces` extends `Memories` |
| `Knowledge`, `Registry`, `Subscriptions` | `knowledge/`, `operations/`, `subscriptions/` | old facts come late |
| `Sessions`, `Channels`, `Peers` | `sessions/`, `channels/`, `collaboration/peer/` | work asked for twice |
| `Deployments`, `Evaluations`, `FeedbackQueue` | `developer/`, `evaluation/`, `framework-feedback/` | |
| `Views` | `tasks/listing.js`, progress, artifacts, rosters | pages of what changes |
| `MCTaskStore`, `MCMeteredModel` | small instances | |
| `MCServices`, `MCLoops`, `MCRecords` | small instances of all services, loops and records, and what they promise together | compositions |
| `Sums` | | lemmas about sums over finite sets |
| `TaskStoreProofs`, `MeteredModelProofs`, `ServiceProofs`, `SuiteProofs`, `RecordProofs`, `ContentProofs` | | theorems |

Each module's header says what it reduces. In all of them an action is one committed
transaction, one query, or one step of a process between two; a process keeps in its own
variable what it read, and acts on it later. Operators ending in `Mut` are altered forms of the
definition below them: no action uses them. They show that the properties can fail, and
`PROJECT.json` pairs them with properties under `mutants`.

### TaskStore

`tasks`, `calls`, `receipts` and `ownership` are the tables. `log` and `inputs` project the
event log to what the code reads back from it: whether the latest event is a `result_wait`,
how many there were, which of them the latest `result_ready` names, which event entered the
pause, and how often a text was delivered under a request key. `lock` is the advisory lock.
`proc[p]` is the executor object and the loop position of a process, and `outbound` and
`performed` are the world: calls some tool may still perform, and those it has performed.

`Owner` collects what any host does for owners and observers, `Session` the tick, `Work` the
Task loop, `Tool` the two ends of an invocation, `Mishap` what goes wrong: a lost session (the
database frees the lock at once, the process notices at its next transaction), a crash, a
stop, a refused transaction. The tool's effect (`Perform`) is a step of the world: it may come
after the caller crashed, cancelled or recovered.

Reductions: an executor token is named by its generation, as both are fresh at each takeover;
waiting reasons are grouped by what may end them; model turns and permission checks are
the choices they lead to (`Access` has the checks); event kinds no guard reads are left out.

`TaskPromise` has no executor, session, token or reason. It says that one Task works at a
time, that only a working Task sends an effect, that the world performs an effect only while it
is in flight or in doubt, that an effect recorded as void never happens, and that a Task is
queued again or succeeds only with nothing in doubt. `Promise == INSTANCE TaskPromise WITH`
the obvious mapping of statuses; a takeover is one `Interrupt`.

### TokenLedger and MeteredModel

`calls` is the call table with the amount of its settlement entry; `results` the retained
responses; `issued` the issuances; `revoked` the revoked budgets. Every ledger method locks
its account row first, so each is one step. `Available`, `Held` and `Charged` are the sums
that the code asks SQL for. Budgets belong to one account, so their admission is under the
same lock.

`turn[t]` is the attempt the loop of a Task waits for, `attempt[r]` where an attempt stands,
`receipts[r]` how many `metered_result` events name it. A turn goes through `Begin` (a
retained response goes first), `Check` (open holds), `Admit` (reserve), `Send`, and one of
`LoseUsage`, `Retain` and `SettleUse`, `SettleFails`, `Doubt`; or ends early in `Withdraw`.
The look for a retained response and the look for open holds are two steps, as they are two
queries. `TimeOut` and `LoseExecutor` free the turn and leave the attempt running, aborted
or not (a failed session does not abort the work of its process, `store.js:223`); `Stop`
ends it, and what it committed stays. A lost acknowledgement is the commit and then a
`Stop`, but for settlement, whose failure the code handles (`SettleFails`).

Provider and billing worker are external. The provider performs a request at most once and
says truthfully that it was not called. The worker's evidence is true: use is measured only
if there was use, and non-acceptance is claimed only if the provider refused, or never got
the request from an attempt that is over.

### The suites

The parts of `MCServices` share no tables, nor do those of `MCRecords` and of `MCLoops`. A product
of independent parts has the product of their states and no more to say than each part, so a
behaviour of a suite has a `focus`, chosen in its initial states: only that part moves. The
states of a suite are those of its parts side by side, and its properties are what the parts
promise. Where a part's initial states are several, the other parts keep one of them.

Three parts of `MCRecords` meet what goes on elsewhere in the system. `Routing` has the states of
a Task as far as they decide who may do what: an owner's `SwitchModel` of a waiting Task, the
executor that takes it, recovers it, or lost its session and goes on with the call it had begun. (A
cancelled Task is the `TaskStore`'s matter: here it ends, or waits.) `deployed` is per host, since a
host keeps the profiles it was started with. In `Workspaces` a source is the current head of its
document: `IsHead`, as `provenance/workspace.js:40` compares what `read` of the path gives with the
reference. So a document that is superseded ends what was derived from it. Its initial states are two, nothing
written, or a chain that three writes leave (memory, document, document of that), so that short runs
reach walks over two levels. In `AccessProfiles` any port of the host may throw (`PortFails`), a
receipt may not fit (`ReceiptFits`), and `told` keeps apart what the caller sees as one status: `failed` (a
port threw, also for a Context that had been changed) and `unknown` (no receipt was found
after an answer was lost).

What the parts assume of the outside is in their headers, because it is what the code asks of a
host: a payment provider decides a request once under its key; `not_sent` of a channel or
adapter proves that nothing may still arrive; `docker rm -f` that exits with 0 has removed the
container; a driver's hard link creates a file or finds it taken; `appendRevision` of a Context is
one transaction; the main branch of the feedback repository takes what its verification passes.
Two of these are assumptions a reader should know of. `docker.js:61` confirms a removal on exit code 0
alone, and `Sandbox` takes that code as Docker documents it; were a client to exit with 0 for
a container that is not there yet, a run whose client was killed could be confirmed too early, and
`VerdictMeansGone` would not hold. In `FeedbackQueue` people resolve a conflict of one path
by giving up the clone's side, change no record by hand but through the tool, and merge a branch that is up to
date: Git and its rules are not in the repository's code.

## The runs

| Run | Instance | Distinct states | Shows |
| --- | --- | --- | --- |
| `task_store_effects` | 2 processes, 2 Tasks, 1 call, 1 mishap, 1 refusal | 1,129,629 | `TypeOK`, `NoWorkOnDoubt`, `LiveSessionOwns`, `ImplementsPromise` |
| `task_store_waits` | 2 processes, 1 Task, 2 calls, 1 key, 2 versions, 1 mishap, 1 refusal | 620,751 | `EffectsAccounted`, `InputDeliveredOnce`, `OwnEvidenceEndsWait` |
| `task_store_liveness` | 2 processes, 1 Task, 1 call, 2 mishaps | 170,889 | `DispatchedCallsSettle`, `QueueNeverStalls`, `DrainHandsOver` |
| `metered` | 2 Tasks, 3 requests, 2 payments, budget 3, use 1 or 3, 2 mishaps | 1,992,802 | `TypeOK`, `ChargesMatchUse`, `ResultReadOnce`, `OneOpenRequest`, `MoneyBounded` |
| `metered_liveness` | 2 Tasks, 2 requests, 2 mishaps | 25,394 | `HoldsResolve` |
| `services` | 13 services, mostly 2 processes and 1 or 2 mishaps each | 838,345 | `ServicesTypeOK`, `NoEventSkipped`, `MoneyMovesOnce`, `OutboxTellsTruth`, `LimitsHold`, `VerdictMeansGone`, `DeviceReceiptsTrue`, `OutcomesHold`, `HandoffsHold`, `DueWorkHolds` |
| `loops` | due work, grants, handoffs and support, 1 mishap each | 101,265 | `DueWorkSettles`, `ClosedGrantsEnd`, `HandoffsEnd`, `ResolvedIsTold` |
| `records` | 17 parts, mostly 2 callers each | 613,158 | `RecordsTypeOK`, `RevocationBites`, `LatestRules`, `WhatIsToldHolds`, `WorkHappensOnce`, `ApprovalsBind`, `SourcesGovern`, `KeysHonest`, `IdsKeepMeaning`, `TaskKeepsModel` |
| `task_store_wait_lost`, `task_store_write_failed`, `metered_unread`, `wake_attempts` | smallest that shows it | | the [findings](#findings) |

What the named properties of the suites consist of is in their definitions: `LimitsHold`,
`OutcomesHold`, `HandoffsHold` and `DueWorkHolds` in `MCServices`, `LatestRules`,
`WhatIsToldHolds`, `WorkHappensOnce` and `ApprovalsBind` in `MCRecords`.

**Bounds.** They are the constants whose names begin with `Max` or `Last`, and the sets of
processes, keys, rows and requests. Two processes are enough for every race over one row: a
third could only repeat what the second did. Two Tasks compete for the one executor and the
budget. Two calls of one Task are the least for a wait that follows another while the first
one's observer is away; one suffices for effects since guards quantify over the calls of one
Task. Three requests give one attempt in the background, its successor, and a successor of
that. Use 1 and 3 against holds of 2 and 1 falls short of and exceeds a hold; a budget of 3
admits one hold of 2 and not two. Two mishaps let an executor be lost while it drains, or twice;
one lets a worker lose its lease or stop between two steps while another takes over. Revisions,
versions and sequence numbers go to 2, that is, one change after the one somebody read, and to
3 where a second one matters (documents read through a list, feedback edits to 5). Three runs of
access profiles are a preview, an application, and a second application of a plan that has changed its
Contexts already. Three requests for personal keys let two rotations of one key both reach the
insert. The policies of `records` are the user's own profile alone, or two profiles of the host; two
mishaps let a session be lost and the model be switched.

Some bounds are small because a theorem covers what they leave out: personal keys, routed Tasks
and access (`KeysHonest`, `TaskKeepsModel`, `RevocationBites`) hold for every number of rows and
callers, and so do the properties of due work, admission, grants, money, effects, late facts, repeated
requests, approvals, timelines, pages, ids and lineage ([below](#the-proofs)). Every invariant that a
passing run checks is a theorem, and so is every action property.

`metered` has two Tasks of opposite policies: one that keeps several results without a budget,
one that waits for pending usage within it. In `services` one rule has two occurrences, two pumps
recover one wake, three items come on pages of one, and the clock of the rate limits passes from
one window to the next. `Support` in `loops` has an Issue whose reporter cannot be told, so that
the line of pending events must not stall behind it.

Symmetry is used in runs without liveness properties: among requests in `metered`, among alike
processes in `services` and `records`. Only one part moves, so the processes of the parts may
change places together.

Deadlock is not checked: with all Tasks ended, all requests used and all mishaps spent, the
system really rests.

**Fairness.** In `TaskStore`: `Session(p)`, as `AgentRuntime.start` ticks every second and a
supervisor replaces a retired host (what `agent/EXECUTOR_HANDOFF.md` asks of the host);
`Work(p)`, the loop; and `Tool(p)`, as an invocation ends. Owners, observers and mishaps get
none, and no strong fairness is assumed. Refused transactions are excluded from the liveness
run, because the queue can then really stall until a restart: if the last catch block
(`runtime.js:330`) fails on a live session, the Task stays `running` and `claim` answers null.
Among Tasks the code promises nothing: the queue is ordered by creation (`store.js:247`), and an
older Task woken again and again goes first. In `MeteredModel`: an attempt takes its next step,
the provider answers or refuses, and the host's billing worker does its rounds
(`billing/RECONCILIATION.md`).

In `loops`: workers go on with what they claimed, the tick of a host polls every open row, and
leases and deadlines are wall-clock times, so they pass. Claims get strong fairness because a
claim is disabled while another worker holds the lease, and takes the row that has waited
longest: an attempt puts a row behind the others. Support's worker is scheduled by the host,
and the time of the next retry comes. No fairness is assumed of owners, operators or mishaps.

## The proofs

All in TLAPS, from the named assumptions on the constants only: constants are numbers, functions
of the right sets, and the null values are outside of them. Sums and pages need finite tables, so
the assumptions of `TokenLedger`, `Payments`, `EventFeed` and `Inbox` say that requests, payments,
refund keys, event keys and items are finite sets.

### Tasks and effects

**`TaskStoreProofs!TypeCorrect`**: `Spec => []TypeOK`. Inductive as it stands, because the
row sets relate their fields: a reason exactly while waiting, no event served that was not
appended, a Task in hand exactly while working. One lemma per shape of row update, then one
step per action.

**`SessionsOwn`**: `Spec => []LiveSessionOwns`. Inductive beside `TypeOK`. A session gets into a
live phase only by taking the free lock and then the row; while it lives nobody else can take
the lock, hence nobody moves the row to a new generation; a drain keeps generation and token;
whatever takes the lock away takes the session with it. Work, tools and owners touch none of the
three, which one frame lemma says.

**`InputsOnce`** and **`WaitsAnswered`**: an input that was delivered has a receipt under its key
(`InputReceipted`); the latest event is a `result_wait` only if that event entered the pause
(`WaitIsPause`).

**`CallTableTrue`** and **`DoubtStopsWork`**: `EffectsAccounted` and `NoWorkOnDoubt`
are inductive together with `InCourse` (a dispatched call is the call in hand of a process whose
session was live when it was dispatched, and its Task is running or cancelled) and `Created` (a
call belongs to a Task that exists). Owners, the world, sessions and the loop get a lemma each
on what their steps leave alone.

**`StoreKeepsPromise`**: `Spec => ImplementsPromise`, the refinement. Every step is a step of
`TaskPromise` or changes nothing that it sees: `RecordOf` says what a change of one call row is
above, `TaskMove` what a change of one Task row is.

### Money

**`MeteredModelProofs!TypeCorrect`**: by lemmas on the rows that the transactions write, and on
`Move` and `Finish`.

**`UseIsCharged`**: `ChargesMatchUse` says nothing of an attempt under way, so it is not
inductive. `Order` adds what keeps it true: nothing was sent before an attempt is held; a held
one is reserved, so the runtime's release cannot meet a finalised call; only what was performed
is settled or doubted; a sent request is unresolved until the provider decides, so the worker
cannot release it. Lemma `OneCall` reduces each step to the row of the one call it is about.

**`ResponsesReadOnce`**: strengthened by `Waited`: the attempt a Task waits for is live, of that
Task, and unread. Hence what recovery takes is never the attempt somebody waits for.

**`MoneyIsBounded`**: held and charged stay within what was issued, but for what calls used above
their holds; the same of budgets. The sums of an account change with one row: what a step adds
to the held sum was available when it was admitted, and what a settlement adds to the charged
sum it takes from the held one or counts as excess. It rests on `Sums`.

**`RequestsAreAlone`**: one request of a Task is open, unless its policy or a lost executor says
otherwise. `Signals` says what an attempt still running in the background has been told;
`WayIsClear` what was seen between the look for open holds and the reservation, and which
attempts could still change it.

**`Sums`**: the community modules define the sum over a set by a recursive function whose order
`CHOOSE` fixes. The lemmas show that it exists on every finite set, that the order makes no
difference (by least counterexample: take the smallest set with two different totals), and how
a sum changes with one term.

### Services

**`ServiceProofs!ReceiptsAreTrue`** (`DeviceInv`): what the caller, the driver and the receipt
know of each other, per action; at most one receipt of a device is open.

**`VerdictsAreFinal`** (`SandboxInv`): where a client stands says what the daemon may still do
for it; an inspector about to write a verdict has seen the container gone; a container that is
gone stays gone.

**`OutboxIsTrue`** (`OutboxInv`): the attempt number of a note identifies its sender; a sender
that still holds a claim knows the note's state; what was found `not_sent` has no send
outstanding.

**`MoneyMoves`** (`PayInv`): a caller in the middle of a dispatch has claimed the row alone; a row
that was dispatched is never prepared again; the refunds reserved against a charge fit in it,
as a sum.

**`EventsAreScheduled`** (`FeedInv`): a transaction that holds the lock of the scope excludes the
others, so numbers become visible in order; a consumer's page is what it read behind the cursor
then, and nothing can be published into it later.

The following are theorems of `ServicesSpec` itself: a step of it is a step of the service in
focus, or leaves that service's tables alone.

**`SuiteProofs!DueWorkAddsUp`** (`DueInv`): each emitter, dispatcher and rule row is related to
the intents it made: a worker that lost its lease has either done the idempotent thing or not,
and the row's number tells which. `IntentInv` gives each intent its Task and each Task its
intent. The last conjunct of `DueWorkHolds` is an action property and follows from the same
invariant.

**`LimitsAreKept`** (`GrantInv`, `AdmissionInv`): each call that an executor pursues was admitted
against the grant (`CallInv`). A call at the provider has a slot (`TurnInv`), active slots are at
most the limit (`SlotInv`), and the requests and tokens of the current window are those its
rows add up to, at most the rate (`WindowInv`), as sums of `Sums`.

**`HandoffsAreKept`** (`HandoffInv`): `RowTrue` relates a row to its child and to the calls the
child was admitted for. A host works on what it read some steps ago: `SeenTrue` says what stays
true of that while other hosts write the row, and `HostKnows` what each place of a host's program
may rely on. The hard part is a report that there will be no child (`NeverCalls`): the row is
closed, or its deadline has passed and no host stands between its last check of the deadline and
the activation. `GoesOn` collects how rows and children may move, so that each step is checked
once against what the others know.

**`OutcomesAreTrue`** has one invariant per part. `ReleaseInv`: a receipt of a rollback names the
assessment of its cycle, which does not change any more, and a release that is disabled and not
selected (`ReceiptsStand`); so whoever is about to complete a cycle that protects has seen one that
stands (`MonitorTrue`, `CompletedTrue`). `SupportInv`: a resolution is of a revision that was reported or
observed before (`IssuesTrue`); a worker acknowledges what was told, or has nobody to tell
(`FollowersTrue`); a manager that stores a reading has opened the event (`ManagersTrue`). `InboxInv`: the
one producer that holds the lock has a number above all that was committed (`Newest`); that is
why a page, which is the newest of what lies below its cursor, skips nothing. `ProjectionInv`: who
reports a delivery knows of one.

**`ServicesTypeCorrect`** puts the invariants of all thirteen services side by side: lemma `EachAlone`
says that a step of the suite is, for each service, its own step or none.

### Records

**`RecordProofs!RevocationsBite`** (`AccessInv`): the runtime asks member, mandate, agent and policy
in a fixed order (`CheckPlace`). An authority that was asked in this round has not ended before it was
asked (`Asked`), so at most one tool runs on it after its end (`OnceLate`), and the tool that was
found was among those named (`Named`).

**`KeysAreHonest`** (`KeysInv`): keys are numbered in the order of issue, a replacement after what
it replaced (`InOrder`); of all that replaced each other one is current (`OneCurrent`); `Ended` is
for good. The three together are needed: rotation reads a current key, and only the order
excludes that its replacement exists already.

**`ModelsAreKept`** (`RouteInv`): a gateway stands for a model as its host runs it (`Built`); which steps
belong to an admission and which to an execution (`Shaped`); an executor that has a Task finds it
running, under the model it resolved (`Executes`), and is the only one (`OneExecutor`), so that a
switch, which asks for a waiting Task, cannot pass it by; and what the checks of a call found held
since it began (`Held`), which is all that is left of an executor that lost its session.

The next three are theorems of `RecordsSpec` itself: each component of the suite has its own
invariant, and a step of `RecordsSpec` is a step of the component in focus.

**`NothingNewerIsReplaced`**. `SubscriptionInv`: all that was ever applied under a scope lies below
its sequence, the last is what is installed, and its revisions have no gap (`LatestOf`). An
applier relies on nothing it read before: the transaction that installs compares again.
`KnowledgeInv`: an ingestion reads the revision first and the version after, so a call whose
revision is still the current one was begun after the last erasure and has read no older version
than was installed last (`CallFits`); a later call changes the revision. `RegistryInv`: accepted
reports are in order (`InTurn`), the presence is the last of them or of a later generation that has
not reported (`PresenceIsLast`), and what a look gathered was the last when it was gathered
(`LookIsTrue`).

**`AskedTwiceIsDoneOnce`**. `ChannelInv`: an event takes the identity it is first recorded under and
keeps it, so that the Tasks of a message belong to that identity (`EventWorks`), and each place
of a delivery's program knows how far its event has come at least (`DeliveryGoes`): the steps of
other deliveries only move events forward. `DeployInv`: whoever may start next is alone, because it
made the claim (`ClaimedOnce`) or, without activations, the one container there ever was
(`CreatedOnce`). `PeerInv`: what a delivery and a formal action have reached is at least what their
rows tell (`DeliveryTrue`, `FormalTrue`).

**`ApprovalsStayBound`**. `ProfilesInv`: only what changes a Context is appended, once for a plan and
Context and never twice from one revision, because a revision that was replaced lies below the
Context's own (`AppendsTrue`); each place of a caller's program knows its receipt, or that there was
none when the call began; a Context that the plan had changed by then never gets past the look for
its receipt (`RunTrue`). `PapersInv`: what was answered is what stands, a review that
is about to be inserted names a review that stands already, and so no set of reviews is a `Circle`;
a call of a Task that has ended is the one that was under way (`PlanStands`). `EvaluationInv`: a
score other than 0 belongs to a graded case, on both sides of the comparison; that a total without
a lower case is no lower is a lemma of `Sums`. `PeerTermsInv`, on top of `PeerInv`: terms that ended
stay ended, and a message that was barred then is not admitted by a later worker (`BarredStays`); each
key has one message, written after all that came before (`WrittenInOrder`).

The last four are in `ContentProofs`, and are theorems of `RecordsSpec` too.

**`ContentProofs!ToldIsTrue`**. `SessionInv`: the timeline is numbered without gap or fork
(`Numbered`), and a start rests on what it pinned, with its link behind it (`StartTrue`): so what was
there at a number never changes. `ConversationInv`: the snapshot of a conversation is the result of its
last turn, and names for each field who gave it last (`SaidTrue`). `PageInv`: what was shown lies before
the cursor, once, and everything before the cursor that stood still was shown (`ShownTrue`); in the
middle of a page, what was found extends that (`WalkTrue`). `ProgressInv`: a reader relies on a Task that
ended, which is for good, and a call that succeeded was performed (`CallsTrue`).

**`IdsAreKept`** (`FeedbackInv`): what landed is a valid tree, and no clone loses an id it has merged
(`StillTells`). A merge takes of each file the side that changed, and main's where both did; an id
that then stands at two places does not pass the validation.

**`SourcesDoGovern`** (`LineageInv`): heads count the versions (`HeadsCount`), what a version was derived
from was written, and so was all it rests on (`VersionsRest`), and `GroundsHold` says that the grounds of a version, all that
it rests on through every chain, contain the grounds of each source. As the walk compares with current
heads, a source that it finds alive is one whose own sources it will ask about next. A walk that will
find a source gone or replaced still has one to do on which the end depends (`VisitKnows`): that is what makes a walk that finds
nothing an answer, though sources end while it runs.

**`RecordsTypeCorrect`** (`RecordsInv`) puts the invariants of all seventeen parts side by side, each with
the bounds it keeps to (`AccessWithin`, `KeysWithin` and so on). Some bounds are not of one assignment:
`JobWithin` says that what a Task has performed, what is left of its batch and the tool in hand are
together within its budget, which the code checks at two places (`remainingToolCalls`); a request to apply
was begun below the last revision; a process serves no generation that was not started; the revision of an
ingested source counts installs and erasures; an escalation that was recorded has its human task.

They rest on few assumptions: `KnowledgeAssumption`, `DeploymentsAssumption` and `PapersAssumption`
say that what stands for "nothing" is none of the values there may be, `FeedbackAssumption` the same of a
report; `SessionsAssumption` and `WorkspacesAssumption` that keys of different tables are different;
`ProfilesAssumption` that the first version of a profile is a version, `EvaluationsAssumption` that the
cases are finitely many and the best score is a number; `ConversationsAssumption`, `ViewsAssumption` and
`SupportAssumption` that bounds and page limits are numbers, and where it matters not 0. The types also
need the bounds of the other parts to be numbers (`AccessBounds`, `ChannelsBounds` and so on): no other
theorem uses these.

### Model-checked only

- Liveness (`DispatchedCallsSettle`, `QueueNeverStalls`, `DrainHandsOver`, `HoldsResolve`,
  `DueWorkSettles`, `ClosedGrantsEnd`, `HandoffsEnd`, `ResolvedIsTold`), which needs `ENABLED`.
- What a recursive definition computes on every input (the walk over a document's sources is a
  process of steps here, so it needs none), and whatever needs induction over data.

## Findings

- `ResultWaitRediscoverable`, run `task_store_wait_lost`. A model switch during a result wait
  appends `model_changed`; the observers look at the latest event and never find the wait
  again. `agent/README.md:113` says that a lost observation can be rediscovered.
- `PerformedWriteNotFailed`, run `task_store_write_failed`. When the settle of a verified
  result is refused while the session survives, the catch block settles the call as failed.
  `capabilities/index.js:119` says that a failed response does not prove no side effect.
- `UnreadFirst`, run `metered_unread`. An attempt past its deadline retains its response
  between the two ledger reads of its successor: the successor sees neither a response nor an
  open hold, and calls the provider. `billing/RESULT_CONTINUATION.md:22` says that
  retained results are read first, without calling it.
- `WakeAttemptsBounded`, run `wake_attempts`. Two pumps recover one failed wake: both count its
  attempts before either retries, and the retry asks only that the wake has failed
  (`task-wake.js:79-84`, `store.js:73`). `notifications/TASK_WAKE.md:82` says that automatic
  attempts are bounded.

`OneOpenRequest` has one exception, which the code does not rule out: an executor that lost
its session goes on with its model attempt, and can take a hold and call the provider beside
its successor. Its answer is accounted for (`ChargesMatchUse`) and cannot be read twice.

Remarks met while modelling, which no property is about:

- The branch of the loop head that pauses a Task whose history has a running or unknown call
  (`runtime.js:174`) is never taken, as `NoWorkOnDoubt` shows; no code writes the Task status
  `failed`; and the guard against cycles in `provenance/workspace.js` cannot meet one, because a
  version names only versions that were there before it.
- A tool that never returns blocks the tick (`runtime.js:315`): deadlines stop model calls only.
- Handoffs: a parent that resumes a moment after its child was reported may race the check that
  the comment at `runtime.js:118-123` relies on; the same of the comment at
  `handoffs/service.js:139`. Both are harmless for the properties above.
- `workspace/plans.js` checks that the Task of a plan has not ended before it writes, not with
  the write: a plan may be replaced just after its Task ended.
- `tasks/controls.js:7,17`: receipts are off by default, and without them a repeated request is
  served again. The model takes them on.
- A plain deployment without activations: two processes may both confirm, and one start a
  container again that was removed by hand meanwhile. `LaunchedOnce` is about activations.
- Peers: the retry of a delivery checks and writes in two transactions, as for wakes.
- A support follow-up reads the receipt of the reporter before and after; a read that is
  recorded in between gives a binding mismatch (`follow-up.js:29-32`), and the next call
  succeeds.
- A feedback record's `duplicate_of` is checked by its pattern only, never against the queue.

## What is not modelled

`PROJECT.json` has a reason for each component. Whole components left out are skills, protocol
adapters and package entry, scripts and tests. Left out inside the modelled ones:

- In the Task module: context assembly, trusted context and pages of calls. They read, or choose
  among outcomes the model already offers.
- In the ledger: evidence and its bounds, so also the refusal of a repeated operation with
  other evidence (no caller repeats one); the model and profile a response is bound to; the
  list of executors of a budget; price arithmetic (use is one rated number). Amounts are
  unbounded integers, as the code uses `BigInt` and `numeric(30,0)`.
- In the services: contents, schemas, digests and formats; principals and authorisation, where
  they only refuse (`Access` and `Accounts` have them where they matter); artifacts and terms of
  a handoff; notices of support for other states than `resolved`; marks of the inbox; information
  requests, evidence and rates of peers.
- PostgreSQL itself: a transaction is atomic, row locks and the advisory lock work, and a
  session's end frees its lock.

## The plan

No theorem of the plan is left. Models, if more is wanted: the artifacts of a handoff with the authority
over them, notices of all states in `Support`, and skills once their catalogue changes while it is read.
