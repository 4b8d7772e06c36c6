# Formal verification of batta-ai

batta-ai keeps a model of a company's software (repositories, services,
features, data flows, threat models), fills it by scanning repositories and
clouds with language-model agents, and runs security reviews of planned changes
against it, for coding agents over MCP and for Jira work items on its own.

This directory holds TLA+ models of the parts of it whose correctness depends
on the order of things, configurations that model-check them with TLC, and
proofs about them that TLAPS checks. `PROJECT.json` is the index: for every
definition the lines of the source it stands for, for every run the properties
it checks, for every property a plausible bug that breaks it, and the hazards
the properties are for.

Contents: 1 the system, 2 the modules, 3 the runs, 4 bounds and fairness, 5 the
proofs, 6 disagreements between code and comments, 7 what is not modelled,
8 how to run, 9 the plan.

## 1. The system

Everything is TypeScript in five packages: `core` (the agent runtime),
`data-indexer` (scans), `shared` (services, persistence, types), `api` (REST,
MCP, chat, background reviews) and `ui` (portal). Paths below are relative to
`src/packages`.

One API process serves everything. It is single-threaded, so code runs
undisturbed from one `await` to the next, and anything may happen at an
`await`: another request, a background job, a failed query, a restart.
PostgreSQL holds what must survive; scan records, running agents, checkpoints
and conversations live in memory. Hardly any operation uses a database
transaction: an update reads a row, changes its JSON payload in memory, and
writes the whole payload back.

### 1.1 Components in the models

**Security reviews** (`shared/src/services/security-review.service.ts`,
`security-review-jira-export.service.ts`,
`persistence/repositories/security-review.repository.ts`)

- State: a `security_reviews` row: status, the snapshot of the policy's
  questions and task rules taken at the start, answers, derived tasks with
  their Jira keys, attestations.
- Operations: `startReview`, `submitAnswers` (derives the tasks),
  `acknowledgeTasks`, `submitAttestations` (and, after it, a background export
  by `setImmediate`), `exportTasks`; each reads the row, checks it, and calls
  `repository.update`, which reads it again, merges, and writes.
- Interactions: called from MCP and REST; reads the policy template; calls Jira.
- Hard: two operations between the two reads of one; an export that holds a
  copy of the tasks while it awaits Jira; a policy edited under a review.
- Correct when: the status follows pending, answered, acknowledged, attested;
  an attested review has an attestation for all of a task list; the tasks come
  from the review's own snapshot; a Jira key belongs to an issue that exists;
  an answered review is never unanswered again.

**Work item reviews** (`shared/src/services/work-item-review-runner.ts`,
`api/src/controllers/securityReviewController.ts`)

- State: the same row with `agentStatus`, `agentError`, `jiraExportError`; and,
  in memory, the runs that are under way.
- Operations: dispatch, run (mark running, ask the agent, submit answers,
  acknowledge, mark completed or failed, export), retry, manual export.
- Hard: a run is five read-merge-write updates one after the other; queries
  fail between them; a restart loses the run and keeps its mark; a retry is
  admitted by a flag that is set late.
- Correct when: a review marked completed has its answers, the tasks derived
  from them and the acknowledgement; a retry never replaces stored answers; a
  run ends; one run at a time.

**Policy templates** (`shared/src/services/policy.service.ts`,
`ui/src/pages/policies/`)

- State: a template of each type in `policy_templates`, with a version and an
  active flag; the editor pages' copies of them.
- Operations: listing (which first creates the templates that are missing),
  saving, resetting to the defaults, opening and editing in a page.
- Hard: reading before inserting in every listing; a version read in one query
  and written in another; a reply that meets an editor that has moved on.
- Correct when: each type has one template; a saved template has rules for the
  questions it asks; a reset restores the defaults.

**Agent-led repository indexing**
(`shared/src/services/repository-indexing.service.ts` and
`repository-indexing/`)

- State: an `indexing_runs` row per session (stage, completed stages, the ids
  persisted so far, drafts), and the stored entities.
- Operations: `startOrContinue`: find, resume or create a session, validate a
  submission, persist its stage, advance, `saveMeta`.
- Hard: `saveMeta` replaces the row by the copy the call started from, also for
  a refused submission; a stage stores several entities without a transaction;
  a session id may name any run; two first calls create two sessions.
- Correct when: a session that shows as completed passed the completeness
  check with what it records; what it records is stored; its stages are in
  order; one agent's session never moves back; indexing ends.

**Scans** (`data-indexer/src/orchestration/`,
`data-indexer/src/pipeline/repository-task-processor.ts`,
`data-indexer/src/integrations/repository-setup.ts`)

- State: scan records with their stages (memory), `indexing_runs` rows with the
  commit the next incremental run starts from, clones on disk, the entities.
- Operations: start or stream a scan, discover repositories, take each through
  extraction, cloud discovery, correlation and feature extraction, end the
  scan; and, beside it, `deleteAllAssets`.
- Hard: stages are moved by callbacks and again after the task returned; errors
  are thrown, recorded in a summary, or swallowed, depending on the stage; the
  baseline moves separately from the entities; a restart forgets the scan.
- Correct when: a completed scan shows nothing failed or running and stored
  what it discovered; the baseline is never ahead of the stored entities; a
  scan ends.

**Code indexing and correlation** (`data-indexer/src/pipeline/stages/code-*`,
`data-indexer/src/analysis/service-relationships/`)

- State: rows of modules, services and artifacts and the links between them,
  added and overwritten, never removed; the run's baseline commit.
- Operations: extraction of a clone whole or from `git diff since..HEAD`,
  transformation (which service owns a file, which services an artifact names),
  persistence; then agents that read artifacts and services in order of their
  dependencies and bind them to each other and to cloud resources.
- Hard: an incremental scan reads only what changed, and what it leaves out
  must be in the store as the new commit has it; the clone may move while it is
  read; dependency cycles and shared dependencies; four steps that each narrow
  down what the next may choose from.
- Correct when: the store holds of the baseline's commit what a whole scan
  would have stored; a service is read after what it depends on; a service is
  bound only to resources of the environments it is deployed to.

**What a scan stores of a service** (`persistence/data-adapter.ts`,
`graph-adapter.ts`, `pipeline/repository-task-processor.ts`,
`analysis/business-feature-extractor.ts`, `stages/data-store-consolidation`)

- State: the service in the entities table and in the graph, its features with
  versions and edges, data stores in both stores, the copy the scan works on.
- Operations: the persisting stages of a scan, the merge of features with what
  earlier scans stored, consolidation, exploitability, deletion of all assets.
- Hard: two stores written one after the other; a copy in memory that is
  written back whole; a merge with rows read before; a deletion in the middle.
- Correct when: after a clean scan both stores say what it found; features are
  the last extraction's; no field goes back to an earlier scan's value; the
  data stores are those of the diagrams.

**Cloud discovery** (`data-indexer/src/cloud/`,
`pipeline/stages/cloud-discovery.stage.ts`)

- State: the graph of an Azure and an AWS estate in the cloud tables, and the
  same resources in the entities table.
- Operations: reading the estate by some twenty kinds of queries, building the
  graph, flagging what the internet can reach, writing it to both stores.
- Hard: each query answers at its own moment; calls that fail, some silently;
  two stores of which either write may fail.
- Correct when: what is flagged is what is reachable in what was read; the
  stores agree after a discovery without errors; a failed call does not take
  the flag from what is still exposed.

**Agent runtime** (`core/src/task/task.ts`, `core/src/tools/delegation/`,
`core/src/context/memory/shortTerm/`)

- State: per task its conversation and summary, its tools, iteration, aborted
  flag, token usage; an emitter shared by the tree of tasks.
- Operations: the loop of `execute` (compact, ask the model, run the tools it
  uses), the `agent` tool with its sub-tasks, `cancel`.
- Hard: an abort at any `await` of any task of the tree; batches of tool uses;
  compaction that drops messages; allowlists that compose along a chain of
  sub-agents; forks; what ends a loop the model does not end.
- Correct when: a sub-agent never holds a tool an allowlist above it withholds;
  the message a task was started with stays in its context; an abort reaches
  every task and no tool starts after it; the caller gets an answer.

**Chat and the language-model client** (`core/src/task/chatTask.ts`,
`core/src/llm/providers/azureOpenAIClient.ts`,
`api/src/controllers/chatController.ts`, `ui/src/pages/chat/`)

- State: a task per question, the events on the wire, the page with its lock
  and the messages that outlive it; one list of endpoints and one current index
  for all calls of the process.
- Operations: ask, turn, the summary of a long conversation, streamed completion
  and its fallback, tools, events, leaving and returning to the page; a request, a refusal and its rotation, the
  sleep of a retry cycle.
- Hard: streams that break, summaries that fail and are asked for again every
  turn, retries inside retries, calls that rotate each other's endpoint, a connection that ends before the answer.
- Correct when: a call gives up only after every endpoint refused; the requests
  of a question are bounded; a question ends with an answer or an error.

### 1.2 Every component, and how it is treated

| Component | Where | State and operations | Treatment |
|---|---|---|---|
| Security reviews | above | above | `SecurityReview`, `ReviewRecord`, `ReviewLifecycle` |
| Work item reviews | above | above | `WorkItemReview` |
| Policy templates | above | above | `PolicyTemplates`; a review's snapshot of one in `SecurityReview` |
| Agent-led indexing | above | above | `RepositoryIndexing` |
| Scan orchestration, repository task | above | above | `ScanPipeline`, `RepositoryTask` |
| Indexing stages | `data-indexer/src/pipeline/stages` | none of their own | one step each of `RepositoryTask`; what they store in `CodeIndexing`, `CloudDiscovery`, `KnowledgeBase` |
| Analysis | `data-indexer/src/analysis` | none of their own | `ServiceCorrelation`, `FeatureCatalog`, `KnowledgeBase` |
| Entity and graph storage | `shared/src/persistence` | rows merged by id, a graph beside them | `KnowledgeBase`, `CloudDiscovery`, `CodeIndexing`, each as far as its stages use it |
| Cloud discovery | above | above | `CloudGraph`, `CloudDiscovery` |
| Agent runtime | above | above | `AgentTasks` |
| Chat | above | above | `ChatTurns` |
| LLM and embedding providers | `core/src/llm` | the Azure client's index of endpoints | `EndpointPool`; a completion answers with anything, or fails |
| Agent definitions | `data-indexer/src/agents` | none | their allowlists, a constant of `AgentTasks`; what their completion tools accept, in `ServiceCorrelation` |
| MCP server | `api/src/mcp` | none: one service call per request | its tools are the requests of `SecurityReview` and `RepositoryIndexing` |
| REST API and startup | `api/src/app`, controllers | none | handlers that change state are inside the actions |
| Tools of the agents | `core/src/tools` | files, processes, pages | a tool is a name that returns, ends the turn or throws |
| Read models | `asset.service.ts` and others | none; `deleteAllAssets` | the deletion in `ScanPipeline` and `KnowledgeBase`, a feature's history in `FeatureHistory` |
| Portal | `ui` | React views | the chat in `ChatTurns`, the policy pages in `PolicyTemplates`; the rest fetches and draws |
| Code and ticket integrations | `shared/src/integrations` | credentials | external: listing and issue creation succeed or fail |
| Types and defaults | `shared/src/types` | none | the types behind the modelled state |
| Authentication | `api/src/middleware/auth.ts` | a cache of signing keys | not modelled: a decision on one request |
| Long-term memory | `core/src/context/memory/longTerm` | memories in a vector store | not modelled; no task enables it |
| Prompts and modes | `core/src/context/prompts` | none | not modelled: text |
| MCP client | `core/src/tools/mcp` | child processes | not modelled: process and network I/O |
| Delegation variants | `core/src/tools/delegation` (other files) | none | not modelled: unused |
| Redis events and queue | `shared/src/events/redis` | queues | not modelled: nothing constructs them |

## 2. The modules

| Module | Models |
|---|---|
| `ReviewRecord` | the review row, task derivation, the export's selection: pure definitions |
| `SecurityReview` | the operations on one review, interleaved (extends `ReviewRecord`) |
| `ReviewLifecycle` | abstract: what a review promises, each operation one step |
| `WorkItemReview` | the background runs on a work item's review |
| `PolicyTemplates` | a tenant's templates, the requests on them and the editors |
| `RepositoryIndexing` | the sessions of agent-led indexing |
| `RepositoryTask` | one repository of a scan, the runs and the clone |
| `ScanPipeline` | the scans of a tenant, on top of `RepositoryTask` |
| `CodeIndexing` | what a scan reads of a clone and stores of its code |
| `ServiceCorrelation` | the agents' readings and links, inside a scan of `CodeIndexing`, which it implements |
| `FeatureCatalog` | the features of a service, extracted anew and merged |
| `FeatureHistory` | the walk over a feature's versions, on top of `FeatureCatalog` |
| `KnowledgeBase` | one service in both stores, through a scan and a deletion (extends `FeatureCatalog`) |
| `CloudGraph` | building and flagging the graph: pure definitions |
| `CloudDiscovery` | reading a changing estate and storing the graph (extends `CloudGraph`) |
| `AgentTasks` | a task, its sub-agents, memory and aborts |
| `EndpointPool` | the Azure client's endpoints and retries |
| `ChatTurns` | a question from the page to the server and back (extends `EndpointPool`) |
| `MC*` | small instances of these for TLC: the sets and functions a cfg cannot write |
| `*_proofs` | proofs about the module they are named after, and the one it is built on |
| `Stores_proofs` | proofs about what the two stores hold: `CloudDiscovery` and `KnowledgeBase` |
| `Portal_proofs` | proofs about the portal: `ChatTurns` and `PolicyTemplates` |

Four abstractions recur. A piece of text is what the code tells apart of it: a
token, a name, the scan that produced it. A model's answer, or the outcome of an
analysis, is any value the code accepts. A query or call that is awaited is a
step of its own, and may fail where the code handles that. History variables
(named as such where they are declared) remember what the state forgets.

### 2.1 SecurityReview

`review` is the row, `policy` the active template. A *slot* is one asynchronous
activity of the process: a call, or the export that `setImmediate` starts. A
slot's `pc` names the `await` it is at:

    idle -> update -> write -> idle            a call that changes the row
    idle -> issues -> update -> write -> idle  an export
    ... write -> immediate -> issues ...       an attestation, then its export

The first action of a call is `requireReview`, its checks and what it computes
(`SubmitAnswers`, `AcknowledgeTasks`, `SubmitAttestations`, `ExportTasks`): the
code has no `await` between them. `UpdateRead` and `UpdateWrite` are the two
queries of `repository.update`; between them lies a second copy of the row,
`base`, onto which `draft`, the changed fields, are merged. `Promise.allSettled`
is one action per issue, in any order (`IssueCreated`, `IssueRejected`), and
`AllSettled`. `Abort` is a failing query or a restart. A task is `<<g, d>>`: the
g-th derivation of definition d, because `deriveTasks` gives every task a fresh
uuid. `derivations` and `issues` are history.

`SerialSpec` restricts requests to an agent that awaits its replies, as the MCP
tool descriptions ask; background exports, edits and failures still interleave.

### 2.2 WorkItemReview

A row, and slots for runs and manual exports. `job` is the update a slot makes
next and `After` what the run does when it is done; `Merge` has the fields each
update changes. Answers and tasks are named by the run that produced them,
which is all the properties tell apart. `QueryFails` follows the `try` blocks:
a failing update of a run fails the run, unless it is the mark at its start or
the stamp of a failure; a failing export is recorded on the review. `Crash` is a
restart. `lost` remembers that a run ended without its end being stored.

`CalmSpec` is a user who lets a run settle before a retry and lets exports end
before one; exports overlap each other and the tail of a run.

### 2.3 PolicyTemplates

`rows` are the templates in the order they were created; of a template's content
the questions are kept and which of them have rules. A request is a chain of
queries with a step each (`ReadExisting`, `Create`, `ReadVersion`, `ReadActive`,
`Write`, ...), and every listing begins with the
seeding of `seedDefaultPolicies`. `editors` are the pages that are open: what they
hold, what was changed in them and not saved, and the request they wait for;
`overview` is the template each card of the list leads to. A reply (`ListReply`,
`EditorReply`) meets the page as it is by then. `overlapped` is history: one
seeding read while another was creating.

### 2.4 RepositoryIndexing

`sessions` are the rows, `entities` what is stored. A call moves

    idle -> (create ->) validate -> persist -> save -> idle

with its own `copy` of the session. A refused submission goes from validate to
save: the code appends to the session's history and saves all of it. `Recorded`
is what a stage notes in the session, `Stored` what it stores, `Advance` the
stage it moves to. `PersistFails` stores any part of a submission and leaves
the row alone. An entity's id is a function of its name, so a name stands for
both. `overlap` remembers that two calls were in flight together or that a new
session was forced.

`DiligentSpec` is an agent that submits the stage it was told, lists everything
and repeats what failed. `HastySpec` is one that leaves services out of its
first threat models and then follows the gap's instructions.

### 2.5 RepositoryTask and ScanPipeline

`RepositoryTask` is `processTask` between two `await`s that can fail: set-up,
creating the run, extraction (or "nothing changed"), cloud discovery,
correlation, features, completion. Commits are numbers, 0 is none; `stored` and
`featured` say from which commit the entities and the features were taken. A
task carries what it has reported to the UI; `ScanPipeline` moves the record's
stages from that (`OnStageChange`), as the callback does, and sets the ones not
reported when the task has returned (`NotReported`) or thrown (`FailRunning`).
`remote` and `clone` are a repository at its host and on disk. `lost` remembers
a write that was swallowed, or the one race of `deleteAllAssets` with a task
that has read its baseline and not yet created its row.

What a stage stores is left to the next modules, each of which takes the stage
apart that `RepositoryTask` has as one step.

### 2.6 CodeIndexing and ServiceCorrelation

A commit is its tree, a function from files to contents; `Broken` is a content
that cannot be parsed or is no service. A row holds the content its file was
read with. The rules for what an incremental scan reads are operators on two
trees (`ManifestsToRead`, `ModulesToRead`, `BuildsToRead`,
`DeploymentsToRead`), and the transformation is `Owners` (the service a
module is stored under: below two services it is extracted for both, and the
last one written stays) and the services an artifact lists. `Extract`
reads, `Store` writes, `Finish` and `Fail` end the run; the clone moves by
somebody's `Pull` or by a fresh clone of depth one, whose history does not have
the baseline. `torn` remembers that it moved between the reading of HEAD and of
the files.

`ServiceCorrelation` puts `ServiceRelationshipsExtractor` where `CodeIndexing`
only has `Correlate`: the analyses of artifacts (Step 0), of services in
topological order (Step 2, `TopoSort` by rounds of `Pop`; the loops over the
services are written as `Kept`, the elements of a sequence at some of its
positions, of which something can be proved), artifact to resources (Step 5),
artifact to services (Step 6), service to resources (Step 7, followed through one
service, since services do not interact in it). `Offered` is what a service is
shown: the affinity of its artifacts, or what a query in their scope returns, or
nothing. An agent may then answer any links between the entity it was asked
about and those it was shown, because that is what its completion tool accepts.

### 2.7 FeatureCatalog, FeatureHistory and KnowledgeBase

A feature's id is a hash of the service and of the lower-cased name, and
features are matched by a normal form that also drops punctuation; so a *name*
is a spelling, and `Key` says which spellings match. `Plan` is what
`persistFeatures` decides (deprecate what is superseded or disappeared, keep, new
version, new), and its writes are made one by one in that order (`NextWrites`),
each of which may fail.

`KnowledgeBase` keeps of each field of a payload the number of the scan that
produced it. `row` and `node` are the service in the two stores, `scan.memory`
the copy the scan works on. The steps follow `processTask` from `StoreRows` to
`AnalyseExploitability`, with the consolidation of data stores (delete in both
stores, recompute, three writes) and, beside it, `DeleteTenantData` and
`DeleteTenantGraph`.

`FeatureHistory` adds the walk of `getFeatureHistory` over previousVersionId.

### 2.8 CloudGraph and CloudDiscovery

An item is one thing an estate has: its kind, the ids it refers to, and whether
it faces the internet by itself. `CloudGraph` is the builder as operators: a node
per item, an edge per rule of the builder's joins, the passes that flag what is
behind a front door, an API management, an open firewall, a balancer. In
`CloudDiscovery` a query (`QueryResourceGraph`, `FetchIdentities`, `Answer` of
one of the three parts, the AWS families) answers with the items of its kinds at
that moment, while `EstateChanges`; then come the writes. `found.steady` and
`found.ever` are history: what was there all along and what ever was.

`IngressGraph` follows the parents: endpoints and groups are asked for with their
front door, origins with their group, and a group that no route of its own door
names is never seen.

The reference that `ExposureIsReachability` compares with, `Exposed`, is defined
by reachability over the estate (`Reaches`: what names what, kind by kind, with
`SameDoor` for a route and its group), not by the builder's nodes, edges and search.

### 2.9 AgentTasks

The `agent` tool is not concurrency-safe, so a task waits for its sub-agent, and
the live tasks are a stack `task[0..top]`; only the top one runs. A message is
its role in the conversation (the ask, a reply, a tool result, a seeded
message, a note, the fork tag), a summary the set of roles it covers, and the
token budget counts messages. The model's reply is any member of `Replies`: no
tool, an unknown one, one use, or a batch. Each `await` of `execute` is a phase,
and `Cancel` may come at any.

### 2.10 EndpointPool and ChatTurns

`currentIndex` is shared by all calls; each `call` has its count of refusals and
of cycles. `Refused` rotates and either asks again at once, sleeps, or gives up.
`tried` and `disturbed` are history: which endpoints refused since the last
sleep, and whether another call rotated meanwhile.

`ChatTurns` has a server side (`Serve`: create the task, iterate, summarize,
stream, fall back, use a tool, answer, fail) and a browser side (`Read`: send,
receive, lose the connection), joined by `wire`. Of the task's memory its number
of messages is modelled, since that decides whether a turn begins with a
completion that summarizes (`task.ts:162`, `shortTermMemory.ts:112-148`;
`Iterate` and `IterateSummarizing`): a turn adds the question or the result of a
tool and the reply, once in a task the announcement of the tool that pages large
results; a summary leaves `KeptMessages` of them, and an empty or a failed one
leaves all, so that the next turn asks again. What a message weighs is not
modelled: the budget may be exceeded in any turn (`ExceedBudget`). A sub-agent
that a question delegates to has completions of its own; to the pool it is one
more caller, and `AgentTasks` bounds its turns. The page (`page`) is lost when the user leaves
it, the messages (`messages`) are not. Whether a tool's exception ends the task
is taken from `AgentTasks`' finding that nobody listens for `error`.

## 3. The runs

Every property of a passing run has a mutant in `PROJECT.json`: an operator
beside the definition it replaces (marked `Mutation:`), a bug one could have
written, for which TLC finds the property violated under the same
configuration.

| Run | States | Question and answer |
|---|---|---|
| `review_concurrent` | 237,044 | Two activities interleave at every `await`. What survives? `AttestedIsComplete`: what an attested review attests is all of one task list that `deriveTasks` returned. `TasksFromSnapshot`, `IssueKeysAreReal`, `NeverBackToPending`; `TypeOK`. |
| `review_serial` | 50,212 | One agent that awaits its replies. `AttestedCoversTasks`: attestations are exactly the tasks. `LifecycleSpec`: the row refines `ReviewLifecycle`, despite exports, edits and cut-off calls. |
| `work_item_waiting` | 21,097 | A user who waits, with failing queries, restarts, overlapping exports. `CompletedIsAcknowledged`, `TasksMatchAnswers`, `AnswersAreFinal`, `RunSettles`. |
| `policies` | 2,486,685 | Two requests at a time, served query by query, and an editor that is edited, saved, reset and left meanwhile. `OneTemplateOfEachType` (unless two seedings overlapped), `RulesHaveQuestions`. |
| `indexing_overlap` | 817,782 | Any calls, two at a time, writing back stale copies. `CompletedMeetsBar`, `RecordedEntitiesExist`, `DoneIsPrefix`; as long as calls do not overlap, `NeverBack`; `TypeOK`. |
| `scan_pipeline` | 349,733 | Two scans of three kinds over a repository that is pushed to, with lost writes, restarts and deletions. `CompletedScanIsClean`, `BaselineIsStored`, `CompletedScanStoredAll`, `ScanSettles`. |
| `code_indexing` | 1,569,406 | Commits, moves of the clone, incremental scans that fail anywhere, and agents that answer anything. `StoredIsHead`: the store is as a whole scan of the baseline would have left it. `DependenciesFirst`, `LinksInScope`. |
| `knowledge` | 8,602,219 | Two scans of any domains over one service, any one call of each failing, and a deletion. `CleanScanIsFresh`, `CatalogIsExtraction`, `StoresAreComputed`, `FieldsAdvance`. |
| `feature_history` | violated | `HistoryEnds`: a feature that was changed under the same name leads to itself, and reading its history never ends. |
| `cloud_discovery` | 499,854 | Two discoveries of an estate that changes twice, with failing queries and writes. `ExposureIsReachability`, `StoresAgree`, `ExposureIsNotForgotten`. |
| `agent_tasks` | 86,954 | A root task and its sub-agents under every reply, failure, compaction and an abort. `AllowlistsBind`, `FreshAskIsKept`, `AbortReachesAll`, `AbortStopsTools`, `RootEnds`. |
| `chat` | 909,780 | A question answered while another service uses the same endpoints: refusals, broken streams, summaries that fail, failing tools, a lost connection, a user who leaves. `EveryEndpointTried`, `CompletionsBounded`, `QuestionSettles`; and no deadlock. |

Configurations beside these, for a reader to run; each answers one further
question:

| Configuration | Outcome |
|---|---|
| `review_unattested` | `EveryTaskAttested` violated: two answer submissions overlap |
| `work_item_overlap` | `OneRunAtATime` violated: a retry before the first run has stored its mark |
| `indexing_sessions` | holds (900,957 states): the properties of `indexing_overlap` with two sessions, which two first calls can create |
| `indexing_library` | `IndexingCompletes` violated: a repository without features never completes, for the most diligent agent |
| `scan_incremental` | `IncrementalSeesChanges` violated: a clone is never updated by a scan |
| `knowledge_reread` | `FieldsNeverGoBack`, which is `FieldsAdvance` without its exception, violated: when the read that refreshes the scan's copy fails, exploitability writes back the threats of the scan before |
| `policies_reset` | `ResetRestores` violated: a deactivated template is returned as it is |
| `agent_depth` | `DepthIsLimited` violated: sub-agents nest past `MAX_AGENT_DEPTH` |
| `agent_abort` | `AbortStopsCompletions` violated: an abort during a summary is followed by one more completion |
| `cloud_silent` | `MissedIsReported` violated: a failed call of an AWS region is an empty answer |
| `cloud_stale` | `NoStaleNodes` violated: what is gone from the cloud stays in the graph |

Other formulas that do not hold are stated at the end of their modules, each with
a comment on the behaviour that breaks it; any of them can be put in one of the
configurations above.

## 4. Bounds and fairness

Bounds are constants and stand in guards; none is a state constraint.

- `review_*`: two slots, because the hazards are pairs of operations (one
  between the two reads of another); two derivations, because the second is the
  one that overwrites; one export in the concurrent run and two in the serial
  one, so that an export can meet the tasks of an earlier one. One question, two
  definitions on both sides of a threshold, and two policies that differ in
  rules, baseline and automation.
- `work_item_*`: two slots; four runs (the first, two retries that fail at
  different points, one more) and two manual exports.
- `policies`: two types, so that one may be missing and the other not; two slots,
  interchangeable (symmetry; only safety is checked); one editor and three
  requests, enough to seed, save on top of a reset, and reply late.
  `policies_reset` has one type, two editors and four requests.
- `indexing_overlap`: two calls, one service, one feature, one session: a stage
  needs no more than one name to be complete or incomplete, partial writes
  included. `indexing_sessions` has two sessions instead of a feature; the
  proofs have any number of everything. The two calls are symmetric; symmetry
  is used where only safety is checked.
- `scan_pipeline`: two scans, so that one finds what the other left; two
  commits, so that there is something to be behind; one repository. Three kinds
  of scan: everything, an incremental code scan without the features domain, and
  a cloud scan.
- `code_indexing`: a service at the root and two below it, of which one changes
  its name and comes to depend on the root's, so that there is a cycle and a
  shared dependency; a source file, a compose file and a Terraform file, with two
  contents each, a broken and an absent one. `Budgets` trades dimensions: two
  moves and two scans without agents, one move and two scans whose agents read
  services, no move and one scan with all of the correlation. One directory has
  one manifest; a manifest's content stands for the sibling files that decide
  whether it is the root of a monorepo. One resource in each of two groups, one
  of them offered at a time, so that both limits are met.
- `knowledge`: two scans, the first of which leaves something for the second to
  overwrite or lose; three spellings, two of which match; one draft of a feature
  in each; one fault per scan (`OneFault`), anywhere; one deletion, anywhere.
- `feature_history`: two extractions of one feature.
- `cloud_discovery`: an estate with a way in of each kind, of which two items come
  and go (an origin, and an open rule); two changes, so that something is there,
  not there, and there again within one discovery; two discoveries, of which the
  second meets the first one's rows.
- `agent_tasks`: the root, its sub-agent and one below it (`MAX_AGENT_DEPTH` 2);
  four iterations of the root and two of a sub-agent, with memory limits small
  enough for two compactions in between; eight replies: no tool, an unknown one,
  a single use of each kind, and batches with an unsafe use.
  `MaxNesting` bounds the stack; `agent_depth` raises it to 4 to see the limit
  overrun.
- `chat`: one question and one other caller, who may rotate the index between
  any two steps; two endpoints, one retry cycle, two turns. The conversation is
  continued with four messages and summarized from five, down to two, so that the
  first turn asks for a summary and the second does after one that failed or was
  empty, and after one that succeeded need not. Every tool finds a graph, which
  the answer asks for or not (`Views` has neither a table nor nothing: which view
  goes with the answer matters to none of the properties, and all three take more
  than five minutes). The proofs have any number of each, and any histories and
  limits.

Fairness:

- `WorkItemReview`: weak fairness of each slot's next step. A job is a chain of
  promises; queries and the agent's calls settle, by failing if not otherwise
  (clients have time-outs, the agent an iteration cap). A restart is not
  excluded, and `RunSettles` says so with `lost`.
- `ScanPipeline`: weak fairness of each scan's steps, for the same reason.
- `AgentTasks`: weak fairness of `Step`, one thread of control. `RootEnds` then
  rests on the iteration cap: the model need not ever complete.
- `ChatTurns`: weak fairness of the server's work on a question and of the
  browser's reading of its events. Neither the user nor the other callers are
  under fairness. `QuestionSettles` rests on both caps, turns and cycles.
- `FeatureHistory`: weak fairness of the writes of `persistFeatures` and of the
  walk: both wait for the database alone. The violation of `HistoryEnds` is a
  walk that takes steps for ever, not one that stops.
- `RepositoryIndexing`, `DiligentSpec` only: *strong* fairness of the agent's
  submission and of the steps of a call. This is an assumption about the agent
  and the database, not about the code: whoever repeats a call that may fail
  part-way succeeds in the end. It makes the violation found by
  `indexing_library` stronger, since not even such an agent completes.
- The other modules state no liveness: a review waits for its agent for ever, an
  editor for its user.

Deadlock is checked in `chat`, whose user may always leave the page or ask. In
the other runs it is off, because the system may come to rest (the review
attested, the task returned, the bounds used up).

Exceptions that history variables make are named where they are used: `lost` in
`WorkItemReview` (a restart, or a failure that could not be stored), `lost` and
`wiped` in `ScanPipeline` (a swallowed write error, a deletion during the scan),
`overlap` in `RepositoryIndexing`, `overlapped` in `PolicyTemplates`, `torn` in
`CodeIndexing`, `clean` in `KnowledgeBase`, `disturbed` in `EndpointPool`,
`silent` in `CloudDiscovery`. Without the exception each of those properties is
false of the code, and the hazard's note in `PROJECT.json` says so.

## 5. The proofs

`tlapm` proves the theorems of eight modules, for every value of the constants that
satisfies the named assumptions: policies, severities, estates and trees have
their types, a repository has finitely many manifests, an estate is finite and
no two of its items have one id, bounds are numbers, kinds of tools and limits of an agent are what their names say. Each
assumption is stated in the module that declares the constants and evaluated by
TLC in the runs. Every strengthened invariant below was an invariant of a TLC
run before it was proved.

**SecurityReview** (any number of activities, questions, policies, exports).
None of the properties is inductive by itself, since a write puts back a copy
that was read earlier. The invariant `IInv` says of every copy that may still be
written what must hold of the row:

- `SnapshotDerivations`: every task list `deriveTasks` ever returned is one
  derivation from the review's snapshot, which never changes;
- `SoundCopy(r)`, of the row and of every `base`: unanswered means no tasks,
  answered means the tasks are a derivation, attested means the attestations
  are one, and its keys belong to issues;
- `SoundDraft(c)`: the same of the fields about to be merged;
- `Started(c)`: only an answer submission can be in flight on a review that was
  never answered, which is what keeps a stale write from un-answering one.

Theorems: `TypeCorrect`, `AttestedCompleteness`, `SnapshotImmutability`,
`RecordedIssuesExist` (invariants of `Spec`), `AnsweredForGood` (an action
property).

For a client that awaits its replies (`SerialSpec`, a part of `Spec`), `SInv`
adds that at most one slot works that is not an export in the background, that
those exist only once the review is attested, and that the copy and the draft of
a slot at work agree with the row in status, tasks and attestations (`Timely`).
Theorems: `AttestationsCoverTheTasks` and the refinement
`SerialReviewsAreALifecycle`: each write is the lifecycle step of its operation,
an export's write and everything else a stutter.

**WorkItemReview** (any number of jobs, runs and exports; `CalmSpec`, through
restarts and failing queries). Again a write puts back a copy. It does no harm for
two reasons that `IInv` states: a run, up to its export, is alone (`Alone`), so its
copy is the row; and exports, which overlap, change only the export error, so that
their copies agree with the row in all else (`Agrees`). Theorems:
`CompletedRunsAreAcknowledged`, `TasksAlwaysMatch` and, as an action property,
`AnswersOnce`.

**RepositoryIndexing** (any services, features, number of calls and sessions).
`IInv` holds of the rows and of every copy in flight: `SoundState` (the status
agrees with the stage, a completed one meets the bar, the stages done are those
before the current one), `Backed` (what it records is stored: entities are
never removed by this service), what a call has validated is what it persists,
and, as long as no calls overlapped, `Alone`: at most one call is active and its
copy is the row, or the row further on. Theorems: `TypeCorrect`,
`CompletedSessionsMeetTheBar`, `RecordedEntitiesAreStored`, `StagesInOrder`,
`NeverBackAlone`. Lemmas on `Position` and `NextStage` say that they run
through the eight stages in order.

**ScanPipeline** (any number of repositories, commits, scans and runs; with
`RepositoryTask`, whose steps are half of its own). `BaselineIsStored` is about
the newest completed row; but what makes a row a baseline is decided several
awaits before it is completed, so `IInv` follows the commit from the clone to the
store: `CommitsAdvance` (it is never newer than its source), `TaskBaseline` (what
a task has read as its baseline or HEAD, and may still write into its row, is
stored by then), `BaselinesStored` for all completed rows, the newest one being
one of them. `ScanStored` says what an undisturbed scan has already stored: every
repository before the one it is at, and that one once it is extracted.
`CompletedScanIsClean` needs the reports: `ReportOK(t)` says which stages a task has
reported, by where it is, and `StageOK(s, n)` how the record's stage relates to
that report. There is one lemma per step of a task (`Goes` is what they all
keep), one per step of a scan, and `Advances` is what each step grants the tasks
that it does not move: clones that exist stay, the store never falls behind. A
deletion and a restart are the two steps that do not grant it, and each is proved
on its own. Theorems: `ScansTypeCorrect`, `CompletedScansAreClean`,
`BaselinesAreStored`, and the action property `CompletedScansStoredAll`. The
assumptions are that no repository has the name of the cloud's own task, that a
listing names a repository once, and that the bounds are numbers.

**AgentTasks** (any tools, definitions, limits, replies and nesting). Theorems:
`AllowlistsAlwaysBind`, `AbortsReachAll`, `AbortsStopTools`, `FreshAsksAreKept`. `IInv` is `Shape`
(the stack is a function on the levels with the fields of a task) with the two
invariants themselves. `Moves(f, g)` collects what every step of a running task
keeps (its agent, its tools beside the built-in ones, its aborted flag) and that
none starts a tool under an abort; there is one lemma per operator on a task and
one step per action. For the question, `Kept` says of every
task that its messages begin with it once it has been put there, and that a
compaction only begins with more than the preserved messages; the ancestors of
the running task await it (`AllKept`).

**ChatTurns** (in `Portal_proofs`; any number of endpoints, cycles, calls, questions and turns).
`CyclesTryEveryEndpoint`: a call that sleeps or gives up undisturbed was refused
by every endpoint. A count is no set; the invariant `CallOK` ties them: n
refusals in a row, undisturbed, are by the n endpoints just behind the current
index (`Refusers`), which after as many refusals as endpoints are all of them.
`ChatIsBounded`: at most two completions a turn, one more in every turn whose
conversation may be long enough for a summary (`LongTurns`; a summary that fails
is asked for again), and each of at most (`MaxRetries` + 1) requests per endpoint
all told, since a disturbed call may spend them on one. The step of the chat is
shown to be a step of the pool or to leave it alone (`StepsAreOfThePool`). Of the
turns `TaskOK` counts completions against iterations and messages against turns:
before the turn in which the conversation can reach `MaxMessages` no summary has
been asked for, and from then on each turn asks for one at most.

**PolicyTemplates** (in `Portal_proofs`; any types, questions, editors and
requests). `TemplatesInv` holds of the rows, the editors and the requests between
them, which carry content from one to the other (`Sound`: a rule's question is in
it). Of a request `AtItsStep` says which steps its kind takes, `RefersToRows` that
the row it is about exists, and that the editor it came from is open, `Seeded` that
what a seeding has left to create is all that is missing: without it a listing that
ends well would not have every type. `Single` is the other half: while no two
seedings overlap, at most one request creates, and what it has left no row has.
Theorems: `TemplatesAreOnePerType` and `RulesAlwaysHaveQuestions`.

**CloudDiscovery** (in `Stores_proofs`; any finite estate whose ids are unique and
whose items are of a configured provider, any way it changes or fails).
`StoresAlwaysAgree`: `StoresInv` adds what the first store says while the second is
being written, and that every node the builder makes is a node (`BuiltAreNodes`,
one step per rule of the builder).

`ExposureIsAlwaysReachability` goes in four steps. First, `Visited` of the builder
and `Reachable` of the estate are both computed in rounds, and both are shown to be
least fixed points: closed under what leads on (`VisitedIsClosed`,
`ReachableIsClosed`) and within whatever set is (`VisitedIsLeast`,
`ReachableIsLeast`); a set that grows by at least one each round is full after as
many rounds as there are elements. Second, `SearchIsRight` and
`SearchIsComplete` compare any search along edges with reachability: if every edge
leads from what is lit to what is lit (`Right`), the search visits nothing else; if
every item is found from what it is reached from (`Follows`), it visits everything.
Third, the builder is shown to make such edges, rule by rule, though each answer is
of another moment (`AzureWaysRight`, `AzureFollows`, and the same of AWS): whatever
was there all along is in every answer, and whatever is in one was there at some
time (`Moment`). That gives `AzureShows` and `AwsShows`. Fourth, `ExposureInv`
carries this through the discovery: by the step it is at, what was read is the answer of
some moment (`WasRead`), what is built of Azure and AWS covers what was
exposed all along and flags nothing else (`AzurePart`, `AwsPart`), and what was
there all along only shrinks while what was there at some time grows (`SoundStays`).
`ExposureIsNeverForgotten`, an action property, follows from the other half of
`AzurePart`: a graph has nodes of Azure only if every query it is built from
answered, so one that is written over an exposed node has seen all there was. The
second conjunct of AWS has the hypothesis that no call failed in silence, which is
why the same is false of AWS (`cloud_silent.cfg`).

**KnowledgeBase** (in `Stores_proofs`; any features, data stores, contents,
options, failures and deletions). What is written back is a copy again, and the
stores are in agreement only between certain steps, so both invariants go by where
the scan is. `AdvanceInv`: no field has the number of a later scan (`StampsAreOld`),
and whatever the scan holds for a write is, field by field, empty or not behind the
row (`CopiesNotBehind`, `NotBehind`). The one place where the copy is behind is
between the threats' write and the read that refreshes it, and after that read
failed. For that `Remembers` says that the copy is behind in nothing but the
threats of this very scan, so that `FieldsAlwaysAdvance`, which assumes nothing of
what fails, can say what the last write takes back (`Forgets`) and that nothing
else ever is; `knowledge_reread.cfg` shows that it does happen. `FreshInv`: of a scan
without a failure so far, `FreshSoFar` says what table, graph and copy have at each
step (`Enriched`: both have the code and all that was made of it, with the severity
not yet adjusted), and `ComputedSoFar` follows the data stores from the deletion
through the three writes. There is one lemma on what each step writes (`...Result`,
without the invariants), and one case per step and invariant. `CatalogInv` is
about the merge of features, at any of its writes: an active row that is not about
to be deprecated (`Doomed`) is a draft's (`StaysOfDraft`), and a draft that is not
about to be written has its row and keeps it (`HasRow`). It needs the order of the
writes, since the deprecated row and the new one may have one id, and that the
drafts match different features, as the property says. Theorems:
`FieldsAlwaysAdvance` (an action property), `CleanScansAreFresh`,
`StoresAreAlwaysComputed`, `CatalogIsAlwaysExtraction`.

**CodeIndexing** (any repository, contents, moves, scans and failures; in
`ServiceCorrelation_proofs`, since the scan of `ServiceCorrelation` implements it).
`StoredIsAlwaysHead`: between scans the store is what a whole scan of the last
completed run's commit would have left. The heart is `UnreadIsUnchanged`: what an
incremental scan does not read belongs to a directory below which nothing
changed, so its row, right for the old commit, is right for the new one. `IInv`
carries that through the scan: what was extracted is complete for the commit read
(`ExtractionIsComplete`), HEAD is what was read unless the scan is torn, the
store matches the old commit until `Store` and the new one after.

**ServiceCorrelation** (any artifacts, services, resources, and anything the
agents answer). `ScansAreCodeScans`: the scan with the agents in it implements
`CodeSpec`, step by step, so that `ScansStoreTheHead` follows without a second
proof. `LinksAlwaysInScope`: the groups a link's resource may be in are those of
the artifacts that deploy the service; `ReachesInScope` says the same of what
Step 5 leaves for Step 7.

`DependenciesAlwaysFirst` is Kahn's algorithm, for any finite number of services in
any order: `Round` says what is true between two names that are popped. A name is
in the queue or sorted exactly when all it needs is sorted, its degree is the
number of what is left, and what a sorted name needs stands before it. Popping
keeps that (`RoundPop`: the names that are released are those whose degree is one),
and after as many rounds as there are names the queue is empty (`KahnIsRight`).
So a service that is not sorted needs another that is not (`AcyclicIsSorted`), and
behind it there is a cycle. `OrderInv` carries the order through the scan: what it
is compared with, the commit that was read, does not change while the extractor
holds it.

Not proved, and model-checked only: the liveness properties (`RunSettles`,
`ScanSettles`, `RootEnds`, `QuestionSettles`), which are out of the prover's
reach, and `HistoryEnds`, whose run shows a violation. Every invariant and every
action property of a run that passes is a theorem.

## 6. Where the code and its comments disagree

One is an entry under `findings`, with the run that shows it: `getFeatureHistory`
returns "all versions ... for a feature lineage", "resolved by walking
previousVersionId links"; a new version is stored under the id of the one it
replaces when the name is the same, so the link leads to itself and the walk
never ends (`feature_history`).

The others are shown by the configurations beside the runs:

1. `submitAttestations` checks one read of the review and writes onto a later
   one; a second `submitAnswers` that was in flight since before the first
   replaces the tasks in between. The review is attested and none of its tasks
   is (`review_unattested`). `AttestedIsComplete` is what remains true: what was
   attested is a complete list, if not the stored one.
2. A retry of a work item's review is refused when the agent is "already
   running", which the row says only after two more queries: two runs write one
   row (`work_item_overlap`).
3. The completeness check allows "library-only repos with no features", and the
   stages before it can never satisfy it for one (`indexing_library`).
4. An incremental scan "processes changes since the last completed run"; an
   existing clone is neither fetched nor pulled (`scan_incremental`).
5. Sub-agents at `MAX_AGENT_DEPTH` "do NOT receive the `agent` tool"; the `Task`
   constructor makes them an executor that counts from zero (`agent_depth`).
6. The dialog of the policy editor promises the defaults back; a deactivated
   template is returned unchanged (`policies_reset`).
7. "Errors are collected and returned" by cloud discovery; the AWS fetchers
   catch theirs where the call is made (`cloud_silent`).

Met while reading, in code that the models follow or abstract from, and not
shown by a configuration:

- Cloud graph: a comment says that the subnet is marked exposed where the
  network security group is; the file that sanitises nodes says that every node
  goes through it, which compute nodes and AWS nodes do not; target groups are
  attached by VPC although listeners name them; one role per identity and scope
  survives the deduplication; the inventory of AWS Config is fetched and not
  used.
- Correlation: a comment lets a scope that cannot be resolved fall back to the
  full repository, and the fallback offers no resources; of two services with
  one name only one is read; the id of a CALLS_API edge keeps one of several
  pairs; a compose file's links are overwritten by an incremental scan that does
  not read the services it names.
- Indexing: a comment says that a full run uses everything in the database, and
  the code uses what was extracted; dependency rows keep an old package manager;
  a revert after a failed scan leaves the rows of the reverted commit.
- Portal: the details page of a review does not poll, and offers a retry while
  an earlier error is shown although a run is under way.

## 7. What is not modelled

- Content: what the model says, what analysis finds, the text of answers,
  diagrams and evidence. A model's reply or an analysis' result is any value
  the code tells apart.
- Form checks of submissions that do not depend on stored state.
- Creating a review (`SecurityReview` starts with the row stored), its feature
  contexts and the difference of architectures that an attestation stores, and
  clients who answer a work item's review by hand beside its run.
- Build artifacts and the matching of data stores and of API calls between
  services (Steps 1, 2.5, 2.6, 3 and 4 of the correlation), evidence, commits and
  dependency rows.
- The flat relationships and identities of the older cloud model, and the paging
  of answers. Each of the three parts of an Azure graph is read at one moment
  (`FetchGraphPart`), while the code asks for each kind of ingress by itself,
  resource by resource and page by page (`azure-ingress.fetcher.ts:48-53`, `129-211`): a part can be torn in the
  code, the three against each other in the model.
- The `catch` around the AWS graph (`cloud-discovery.stage.ts:246-248`): every
  call of the AWS fetchers catches its own errors, so nothing is known to reach it.
- The checkpoint of a repository task: it is written and never read, since a
  scan has fresh task ids.
- `deleteAllAssets` beside an agent-led indexing session. It removes entities
  and runs that the session's copy still names; `RecordedEntitiesExist` is
  stated for the service's own operations.
- The read-only tools of the chat and their traversals of the graph; of the paging
  of long tool results only the message that announces it.
- Pull-request correlation and validation: the portal, types and an agent
  definition for them exist, but no endpoint or service constructs them.
- Counters, error texts, event streams, the list of the newest scans.
- Authentication, credentials, HTTP, processes, the pages of the portal that
  fetch and draw, and the components of table 1.2 marked so.

## 8. Running

    tlasany SecurityReview.tla
    tlc -workers 2 -config review_concurrent.cfg MCSecurityReview
    tlc -workers 2 -config work_item_waiting.cfg WorkItemReview
    tlc -workers 2 -config indexing_overlap.cfg MCRepositoryIndexing
    tlc -workers 2 -config knowledge.cfg MCKnowledgeBase
    tlapm SecurityReview_proofs.tla

`PROJECT.json` names the module of each configuration. All runs end within three
minutes on two cores; `chat` takes about two, `scan_pipeline`, `knowledge` and
`policies` between one and two.

## 9. The plan

Order, with what decided it: the reviews first (they are what users and agents
rely on, and their row is written without locks from four places), then the
indexing sessions and scans (long protocols over the same tables, with partial
failure), the agent runtime that both use, then what a scan stores (code, features,
the cloud graph, links), the chat and the policies.

Done: all modules of section 2, their runs and the eight proof modules.

Left, in order of value:

1. The traversals of the stored graph that the portal and the chat's tools make
   (relationship graph, impact of a vulnerability) as operators against reference
   definitions; the difference of data-flow diagrams of an attestation
   (`security-review.service.ts:1002`); the pager's page arithmetic.
2. The matching of services to each other by their API calls, on top of
   `ServiceCorrelation`.
3. Proofs about the parts of steps 1 and 2, once they are modelled, and the types
   of the modules whose theorems did not need them (`KnowledgeBase`,
   `ServiceCorrelation`).
