# TeaNode: a verification project in TLA+

TeaNode is a server that runs AI agents for its users. A user's message, from the
web client, a chat channel, a voice session or a scheduled job, becomes a *run* of an
agent in a *conversation*: the server builds a prompt from the stored transcript,
asks a model provider, executes the tools the model calls, and repeats until the
model answers. This directory holds TLA+ models of the parts of the server in which
the order of events matters, configurations that check them with TLC, and proofs
that TLAPS checks.

`PROJECT.json` maps every definition to the lines it models, and lists the runs, the
mutants that show each property can fail, the findings, the hazards and the theorems.

## 1. Inventory

| Component | State | Operations | What is hard |
|---|---|---|---|
| Coordinator (`internal/coordinators`) | `activeRunners`: per conversation a `conversationRunner` (queue, flags, current `Runner`); two indexes of active runs | `Run`, `CompactConversation`, `AbortRun`, `AbortConversationRun`, `processQueue` | goroutines share the maps and the runner's mutex; map lookups happen outside the mutex; results travel over channels of capacity 1 |
| Runner, tool loop (`internal/runners/runner.go`) | pending mid-run messages, the round's cancel function, the run's copy of the history | `executeRun`, `SignalMidRunMessage`, `DrainMidRunMessages`, `waitForApproval` | approval waits racing mid-run messages and aborts; tools run in parallel; partial rounds |
| Prompt assembly and compaction (`internal/runners/compact.go`) | the stored transcript with its summary messages | `buildMessages`, `compressContext`, `CompactConversation` | where the transcript resumes after several compactions; interrupted tool calls; identifiers that differ between memory and store |
| Approval and question brokers (`internal/integrations`) | maps of pending requests, each with a channel | register, resolve in batches, answer, cancel | a verdict racing a cancellation; a channel closed or written twice |
| Job scheduler (`internal/jobs`) | jobs and job runs in the store; the minute of the last firing in memory | the tick, triggering, recording the outcome | crash between two writes, restart within a minute, a job deleted while it runs |
| Lifecycle manager (`internal/lifecycle`) | one pending action, a channel of capacity 1 | schedule, fire, request | fired by the cleanup of any run |
| Stores (`internal/store`) and the handlers and tools over them | users, sessions, tokens, conversations, settings, memory, workspace files, todos, projects, MCP connections, skills, agents, jobs | create, modify, delete, in transactions | the file store undoes nothing, the database lets transactions overlap: stale reads, half-done calls, two callers at once |
| Summarizer (`internal/summarizers`) | one loop, a list of what is due, a timestamp per summary | notify, pass, save | a summary racing new messages; its own save looking like news |
| Client connections, publish/subscribe, cloud relay (`internal/api/websocket.go`, `internal/pubsub`, `internal/cloud`) | connections with a write lock, subscribers, the cloud's session | serve, broadcast, connect, close | slow consumers, writes that wait, a session that comes up after Close |
| Terminal and browser relays, tab broker (`internal/integrations`) | connections, pending maps, attachments | register, command, attach, answer, disconnect | late answers, replaced connections, timeouts |
| MCP client (`internal/mcp`) | a subprocess or HTTP client, a cache of tools, stored tokens | discover, call, refresh, close | a transport without request ids, a server that hangs, tokens refreshed twice |
| Chat channels (`internal/channels`) | previews of streamed answers, links of users | message, event, flush, recover | a preview goroutine racing the end of the run; rate limits |
| Voice pipeline (`internal/voice`) | session and turn state, three loops linked by channels | turns, barge-in, commit, close | cancellation in the middle of speech, bounded queues |
| Skill library, skill tools and workflows (`internal/skills`) | installed skills; a stack of open steps | install, update, execute | an index that changes, errors in nested steps, approvals |
| Updater (`internal/updater`) | the executable and its backup on disk | check, download, apply, restart | crash during replacement, two callers |
| TLS certificates (`internal/autoacme`) | account, certificate, challenge | ensure, renew | crash between two requests, a domain that changes |
| Model providers (`internal/providers`, the stream loop of `runner.go`) | the request of a round, a stream's reader goroutine and bounded channel, the message being put together | translate, open, read, collect, drain | a reader that sends without looking at the context; deltas put together by index; streams that break |
| Other tools, browser automation, surfaces, frontend, command line | little state of their own | | external services |

Calls go downwards in this table's first rows: the API and the channels call the
coordinator; its `processQueue` goroutine calls the runner; the runner calls the
provider, the tools and the approval broker, and saves messages in the store; a tool
may schedule a lifecycle action, ask a question, change a record, send a command to a
terminal, browser, tab or MCP server, or compact the conversation. Calls back up are
`SignalMidRunMessage` (a new message for a running run), the cancellation of contexts
(abort), verdicts, answers and results delivered through the brokers, and the events of
runs, which connections, channels and voice sessions receive.

What makes each part correct: a message is processed once or refused, never both and
never neither; every caller gets exactly one result; an abort ends what runs and
nothing else; the prompt is one the provider accepts and holds what the user said; a
tool that needs approval runs only after an approval; a job fires once per scheduled
time; a record refers to records that exist, and no stale write brings one back; what
ends leaves nothing waiting for it; what is on disk survives a crash; nothing is lost
when two of these overlap or one of them fails.

## 2. Plan

Done in this order, the most important behaviour first:

1. `Coordinator`: routing of messages, run index, aborts; first theorems in `CoordinatorProofs`.
2. `Prompt`: transcript, prompt assembly, compaction.
3. `ToolRound`: the rounds of the tool loop with the approval and question brokers, mid-run
   messages and aborts; theorems in `ToolRoundProofs`.
4. `Scheduler`: jobs with edits, overlapping runs and crashes.
5. The records, over both stores: `Accounts`, `Conversations`, `Settings` with the abstract
   `AtomicSettings`, `Memory`, `Summarizer`, `Workspace`, `Todos`, `McpConnections`,
   `Skills`, `Agents`, `JobRecords`.
6. The integrations: `Relay`, `Tabs`, `McpClient`, `Channels`, `Voice`, `Workflow`,
   `Updater`, `Certificates`, `Connections`, `Providers`.

7. `Disk`, which puts `Updater` and `Certificates` side by side, and `Records`, which does it
   with `Settings`, `Memory`, `Conversations` and `Summarizer`, for the theorems about them.
8. Theorems, each proof module beside the module it is about: `CoordinatorProofs`,
   `ToolRoundProofs`, `SchedulerProofs`, `RelayProofs`, `WorkflowProofs`, `PromptProofs`,
   `DiskProofs`, `RecordProofs`.

To come: `AnsweredOnce` of `Tabs`; the parts of `RecordsConsistent` that speak of the other
record modules.

## 3. Modules and code

A step of a model is what the code does under one mutex hold, in one `sync.Map` call, one
store transaction or one channel operation. Everything between two such points is local to
a goroutine and is put into the step it belongs to.

### Coordinator (`coordinator.go`, `handle.go`, `lifecycle.go`)

One conversation: the coordinator's maps are keyed by conversation, so two conversations
share only the lifecycle manager. Requests (`Runs`, `Compacts`) and abort calls are
goroutines with program counters `pc` and `apc`; a `processQueue` goroutine has `wpc`. A
`conversationRunner`, and a `Runner`, is named by the request that allocated it.

| Code | Model |
|---|---|
| `Run`, `CompactConversation` | `Run`, `CompactConversation`, then `LoadOrStore` (outside the mutex) and one of `EnqueueRefused`, `EnqueueInject`, `EnqueueAppend` (under it) |
| the signal after the unlock | `SignalMidRunMessage` |
| the result goroutine and its deferred cleanup | `ReceiveResult`, `CompactGivesUp`, `Cleanup` with `ReleasedIndex` and `FirePendingLifecycle` |
| `processQueue` | `ProcessExit`, `ProcessDequeue`, `SendResult`, `SpillMidRunMessages` |
| `executeRun`, as the coordinator sees it | `RunnerBegin`, `RunnerDrain`, `RunnerCheck`, `RunnerFinish`, `RunnerFail`, `RunnerPanic`, `ScheduleLifecycle` |
| `AbortRun`, `AbortConversationRun` | `AbortRun`, `AbortConversationRun` (lookup), `AbortLocked` |

`results` records everything ever sent on a result channel; `latestRun` is a history
variable. Events, callbacks and the text of messages are left out.

### Prompt (`compact.go`, `runner.go`)

The conversation is a sequence of rows that only grows. A message keeps its role, its tool
calls or the call it answers, its identifier and, for a summary, the resume point. The
functions keep the names they have in the code (`summaryStartIndex`,
`fixInterruptedToolCalls`, `findKeepBoundary`, `compressContext`, ...) and do what they do
there, in set notation; a loop that builds a list is the list of what each message becomes,
put together (`FlattenSeq`), which is `Kept` where messages are only left out. Whether a prompt
is too long, and how far a minimum number of tokens widens the kept tail, are
nondeterministic choices, as is the point where a run dies.
`StoreKeepsIds` and `StoreKeepsMetadata` tell the two stores apart: the database keeps the
identifier a message was made with, and with a summary what it records of where the transcript
resumes; the filesystem store makes a new identifier when it saves a message, and drops the
metadata of one without tool calls and usage when it loads it (`Stored`). `PromptStores` adds what compaction promises
in the database only, `MCPrompt` the instances in either store.

### ToolRound (`runner.go`, the two brokers, `ask_user`)

One run. `pc` is `executeRun`, `call` what became of each tool call of the round. Phase 1
resolves the calls in order (`ResolveTool`, or `RegisterApproval` and the end of the wait:
`ReceiveVerdict`, or `CancelApproval` and `CloseApproval`); when both branches of the
`select` are ready, either is taken. Phase 2 is `Execute`, a `ToolStep` per tool and
`Collect`; Phase 3 is `Persist`. `roundCancelled` holds the rounds whose context is
cancelled, `midRunCancel` the function the runner offers to senders, `held` the one a
sender has read. A context is done when the run's is or the round's is (`RoundDone`).

### Scheduler (`scheduler.go`, `rpc_jobs.go`)

The store (`job`, `stored`, `runs`) survives a `Crash`; `lastCronFire`, the tick and the
executing goroutines do not. A tick reads all jobs and then works through its copy; users
edit, delete and trigger jobs between its transactions. Time is counted in minutes, the
unit of cron schedules; any number of ticks fall into a minute, and a tick may take longer
than one. Any transaction of the tick may fail: a job that could not be disabled is left to
the next tick (`DisableFails`), one that could not be triggered has been missed. Cron matching
is the set `Matching`. An edit changes any field as `jobs.update` does, so a cron job can be
given a one-shot time, which can be moved and never be taken back. Jobs without an owner, with a webhook
trigger or with an unparsable schedule are passed over like disabled ones.

### The records (`internal/store`, and the handlers and tools that call it)

Each module takes the store as a constant `Backend`. In the **file store** (`"fs"`) a
transaction holds the store's mutex and is one step (in `Settings`, where the mutex is what a
theorem rests on, it is a variable and the steps are apart); it writes at once and undoes nothing,
so a call that fails half-way (`MayFail`) leaves what it has written. In the **database**
(`"db"`) a transaction that fails is undone, but two of them overlap (read committed): a
`ModifyX`, which reads a row, lets the caller change it and writes all of its columns, is
two steps, and what it read may have changed. A handler or tool is a *caller* with a
program counter; its checks of rights precede the modelled steps.

| Module | State | Actions |
|---|---|---|
| `Accounts` | users, their directories, sessions, tokens, connections with the user they were opened with | the handlers of `auth.go`, `rpc_auth.go`, `rpc_users.go`, `rpc_profile.go`; the middleware's `CheckSession`, `CheckToken`; `BeginModify`/`EndModify` are the two halves of `ModifyUser` |
| `Conversations` | conversations, the default of an agent (a pointer in `user.yaml`, or a flag of a row), messages, what a client shows | `EnsureDefaultConversation`, `SetDefaultConversation`, ... of `conversations.go`, each a sequence of transactions; deletion; `OpenConversation` and `LoadOlderMessages` page the history |
| `Settings` | the saved configuration by field, a writer's patch and copy | `HandleConfigUpdate`, `ExecuteSet`, `HandleToolPoliciesUpdate`, `HandleSecretsSet`, `PersistCertificate`; in the file store `Transaction` takes the mutex, `ReadConfigurationFile` and `WriteConfigurationFile` convert with `ConfigurationToModel` and `ModelToConfiguration`; in the database `ReadConfigurationRow`, `WriteConfigurationRow`; `ModifyFails` |
| `AtomicSettings` | fields (those that are `Kept`), requests | what `ModifyConfiguration` promises: `Ask`, `Grant`, `Refuse`. `Settings!UpdatesAtomic` is its specification under the mapping of `Settings` |
| `Memory` | items with the content and model their vector was made of, the retrievals shown in the prompt | the memory tools (`BatchEmbed` before the transaction, then `BatchAdd`, `BatchUpdate`, ...), `memory.delete`, the search, `BuildShortTermMemoryOverlay` |
| `Summarizer` | the loop, what is to be looked at, whether the source is newer than the summary | `SummarizeAll`, one item after the other: due, read, `RunSynthesisRequest`, `Save`; `Notify`, `Stop`; sources that change meanwhile |
| `Workspace` | files as sets of pieces, the trash | write, append, delete, move |
| `Todos` | projects, todos of projects and conversations | the todo tools' batches and prunes, project tools and handlers |
| `McpConnections` | connections with tokens numbered as issued, authorization states | create, authorize, callback, exchange, refresh, discovery outcomes |
| `Skills` | the index of the publisher, installed skill and manifest, enabled | install, update, uninstall, enable, by tool and RPC; `RegisterSkills` of a run |
| `Agents` | agents, avatars, the default; a chain of runs with their depths | `agents.*`, `agent_create`, `agent_message`, `subagent_spawn` |
| `JobRecords` | jobs and runs in the store, the scheduler's transactions | `jobs.*`, the jobs tool, the webhook, beside `ListJobs`, `DisableReads`, `Fire`, ... of the scheduler |

### The integrations

| Module | State | Actions |
|---|---|---|
| `Relay` | registered connections, sockets, the pending map (`channels`, `box`), a reader per connection, commands | `HandleTerminalSocket`, `HandleExtensionSocket`, the steps of a command (`Allocate`, `BeginWrite`, `EndWrite`, `ReceiveResult`, `ContextDone`), the reader (`ReadMessage`, `FindEntry`, `Resolve`), disconnects; the client ends of `cmd/terminal.go` and `cdpRelay.ts` |
| `Tabs` | connections, session counts, attachments, pending calls | `tab.attach`, `tab.detach`, results, `DetachAllForConnection`; a call of the tool from `GetAttachment` to its answer |
| `McpClient` | one operation, the cache, subprocess, pipes, reader goroutine | discovery and call with retries; `roundTrip` (`Write`, `Receive`, `ContextDone`), `Close` (`Drained`, `Reaped`, `KillAfterGrace`); the server reads, answers, floods or hangs, and may leave descendants that hold its pipes (`process` = "left") |
| `Channels` | runs, previews with their goroutine, what the chat shows | message handlers of both bots, events, `Flush`, `RecoverMessage`, `Stop` |
| `Voice` | turns, the two barge-in counters, current run and response, queues, three loops | the loops' steps, `TriggerBargeIn` as compare-and-swap, mark, clear; `Close` |
| `Workflow` | a stack of frames, attempts, the error in flight, loop variables | the steps of `executeWorkflowSteps`, one per kind of step and outcome |
| `Updater` | the executable and its backup as files with content, callers, restart | check, download, verify, back up, copy or rename, restore; `Crash` at every point |
| `Certificates` | what is stored, served, in memory; the authority | the loop from `ShouldRenew` to `Serve`, the TLS handshakes, `Fail`, `Restart`, changes of the domain |
| `Connections` | connections, the write lock and what is on the wire, subscribers, the cloud's session | serve loop, `Broadcast` and `OnEvent`, writes with and without a deadline, handshake, `Close` |
| `Providers` | the conversation, the request of the round, the response body as lines, the reader goroutine, the channel of events, the round in `executeRun` | `Open` translates the prompt (Anthropic, Gemini, OpenAI) and starts the reader; `ReadLine`, `EndOfBody`, `ReadCanceled`, `SendEvent`, `CloseStream` are the reader's steps, `Collect`, `Drain`, `GivesUp`, `SavesMessage` the runner's; `ServerFails`, `Cancel`. How a server cuts its answer into lines is external |

The parts in these two tables share no state (those that call each other do it through
what the other's model gives as nondeterministic outcomes), so `MCStores`,
`MCIntegrations` and `MCProgress` explore them side by side: a variable says which part a
behaviour belongs to and the others stay in one initial state. `MCCoordinator` explores two
instances of `Coordinator` in the same way, and `MCProgress` has a third. The instances, with all
bounds, are written in these modules and their configurations. Each of the three extends
the modules of the parts about which section 5 has theorems (`Records`, which extends
`Settings` for the file store; `Workflow` and `Disk`; `Relay` for terminals), so that its run
checks the properties the theorems state; the definitions for all parts together are
therefore called `AllInit`, `AllNext` and so on. `Records` and `Disk` hold the variables and
one instance of each of their parts, with the constants of the configuration.


## 4. Runs

| Run | Instance | Shows |
|---|---|---|
| `coordinator` | 3 messages; or 2 messages, 1 compaction, 1 abort, with panics; 3.9 million states | no nil dereference; a message is in one place; the newest run stays visible in the index; nothing is left when all is over; a live runner never drops a pending message; a queue has a goroutine exactly while its flag says so; one result per request; what was rejected never runs |
| `coordinator_serialized`, `coordinator_lost` | 2 or 3 messages | findings, section 6 |
| `prompt` | in the file store up to 6 rows, 2 calls a message, everything allowed; in the database, without mid-run messages and with a working summarizer, up to 7 rows with 1 call or 6 rows with 2; 1.3 million states | every request is one the provider accepts, and carries something to answer; in the database compaction neither loses a message nor replays one |
| `prompt_filestore` | | finding, section 6 |
| `toolround_rounds` | 2 rounds of 2 calls of every kind, 2 senders, an abort | nothing runs unapproved; no approval, channel or tool is left behind; an abort ends the run; a message ends an approval wait |
| `scheduler_jobs` | 1 job of either kind, 3 minutes, 2 edits, 1 crash, failing ticks; 2.5 million states | a cron schedule fires once a minute per life of the process; a one-shot time fires once per arming, across crashes; job runs are settled; a due one-shot is served |
| `stores` | 15 instances of the records, in each store, mostly with 2 callers; 1.5 million states | see below |
| `integrations` | 10 of the integrations; 1.8 million states | see below |
| `progress` | the terminals, 5 of them and the coordinator (2 messages, 1 abort, a scheduled restart, a store that fails) with fairness | see below |
| `settings_database`, `mcp_close` | 2 writers; 1 operation | findings, section 6 |

**`stores`.** `RecordsConsistent`: what a record refers to is there and what is to be unique
is, in the store that promises it. `AnsweredIsStored`: what a caller was told holds: a stored file, avatar, project name or
enabled flag stays until it is changed (file store); what is installed of a skill was signed by its
publisher (both). `NothingUndone`: no step brings back a session, todo, MCP connection or
job that is gone, nor (file store) a memory item, nor loses (database) a message of a
conversation.
`HistoryComplete`: a client that pages through a conversation comes to show every message
once and in order, whatever is appended meanwhile. `ForgottenAfterTurns`: a deleted item is
out of the prompts `TurnTTL` user messages later. `NoIdleSynthesis`: the summarizer does not
ask a model about what has not changed. `UpdatesAtomic`: in the file store `Settings`
implements `AtomicSettings`, with three writers at once and a field that the file has no place
for.

**`integrations`.** `NothingStranded`: what ends leaves no browser's command, call,
attachment, session, stream or stream's reader behind. `AnsweredOnce`: a command, call or
operation gets one answer at most, and its own; a chat shows the end of a run once; the
turns of a request to a provider alternate, and each call is answered in the turn after it.
`NothingSkipped`: no event of a broadcast on a usable connection and no spoken turn is passed
over; a request holds what the conversation says; a message put together from a stream is the
one the provider's `ChatCompletion` would have returned, its calls go back unchanged in the
next request, and a stream that broke leaves no message (not for Gemini, section 6).
`ScopesKept`: a workflow fails exactly by errors that no enclosing step contains and runs
finally in either case, and its loop variables are those of the innermost loop.
`NoUnapprovedCommand`. `DiskIntact`: through
crashes and failures the executable and its backup are whole and verified, the one on disk
is no older than the one that runs, and while no two callers overlap there is one.
A certificate that is served is stored, a resting loop has no challenge open, one account
is registered.

**`progress`.** `OneResultEach`: a command of a terminal has one result, on its way or to
come, and never two, when two terminals replace each other. `WaitsEnd`: a command whose
terminal is gone, `Close` of a voice
session, a write to a WebSocket client that stopped reading, and a cancelled round with the
reader of its stream, on a provider that has fallen silent, come to an end. So does an
operation on an MCP server that hangs or floods, with two exceptions that the property names,
because the code bounds neither: a write to a full pipe that a living server does not read
(`WriteBlocked`), and, after the kill, the wait for descendants that hold the pipes
(`Orphaned`).
`RunsSettle`: every run's handle is resolved, whatever is injected, aborted or fails to be
stored, and a restart scheduled by a run whose handle is open is delivered.
`CertificateComes`: when the domain is left alone, a certificate of it comes to be served.

Each property of a passing run has mutants in `PROJECT.json`: a plausible slip in a mapped
definition (a dropped comparison, a list copied and not cleared, a wait on the wrong
context), for each module a property speaks of, that TLC refutes.

**Bounds.** Every race of the coordinator is between a request, a `processQueue` goroutine
and a third party, so three messages, or two with an abort and a compaction, contain them;
requests are interchangeable, hence the symmetry in the runs without liveness. A message's
fate in `Prompt` depends on the summaries around it: seven rows hold two compactions with a
turn between them and one behind. The numbers of kept messages (10, 6 and 2 in the code) are
scaled down in proportion so that the boundaries fall inside the transcript. Two rounds of
two calls let a cancel function outlive its round and an approval wait follow an approved
call. In the scheduler one matching minute, two lives and two edits could make four runs; `MaxRuns`
stops at three, and a firing beyond that is one that fails. The hazards of the records are those of two callers on one
record, so two callers and one or two records of a kind contain them; a third kind of caller
(the scheduler, the summarizer, the certificate manager) is always there. A page size of 2
and four messages make a client load three pages. Two terminals replace each other under two
commands; two tab calls compete for one attachment; a queue of one turn, one sentence and
two events is full at once. A loop of two items in another loop over the same variable, left
by an error or to its end, is the least in which a variable can be restored wrongly. In
`integrations` the voice client cancels in push-to-talk mode only (`Cancels`); in `progress`
in both, with one utterance. Three releases cover a prerelease and a build ahead of its tag.
Five ACME keys and two changes of the domain suffice for a change in the middle of an order
and one after it. Terminals (`progress`) and browsers (`integrations`) are two instances of
`Relay`; the browser's takes an extension that names the event's body as the server reads it
(section 6). A provider's channel holds one event instead of 32, so it is full at once; two
rounds (one in `progress`) send a message back to the provider that said it. An MCP server's
standard input holds one message, so that a request or a notification finds it full when the
server reads nothing. Where liveness forbids symmetry, `NamedInOrder` has the interchangeable
terminals, commands and runs act in the order of their names for the first time.

**Deadlock** is checked in the runs of one component. After a panic below `processQueue`
requests wait for ever, which is what the code does (section 6): `MCCoordinator` lets such
states stutter (`LeftWaiting`). The three runs of many parts stop when the callers and messages of their bounds are used up.

**Fairness.** `Coordinator!FairSpec` is weak fairness of each goroutine's steps: goroutines
are scheduled, mutexes are released, a run ends. Nobody is obliged to send or abort.
`ToolRound!FairSpec` adds that a stream ends and that a tool that does not ask the user
returns; verdicts and answers are not fair, so the liveness properties hold even if no user
ever reacts. `Scheduler!FairSpec` is the passing of time and the scheduler's goroutine, not
the executing jobs, and strong fairness of `DisableOneShot`: the store does not fail for ever.
In `MCProgress` the fairness of `Relay`, `McpClient`, `Voice`,
`Certificates`, `Connections`, `Providers` and `Coordinator` is that of the node's goroutines and timers;
the terminal, the MCP server, the speaker, the peers that read, the authority's failures and
the provider's server are not fair (the streaming client has no time limit). Voice needs
strong fairness of the ends of its loops: a loop's `select` finds the closed `doneChannel`
beside other ready channels, and Go chooses among them at random. `Certificates` is fair to
the loop and to the authority's side of the challenge; failed requests and deaths of the
process are counted against `MaxChanges` like the changes of the domain, so they stop some
time.

## 5. Proofs

`CoordinatorProofs` (assumption: `ConstantsAssumption`, the kinds of requests are disjoint
and differ from nil) proves for any number of requests and aborts:

- `TypeCorrect`: `TypeOK`, which includes `NilFree`: what the code dereferences is not nil.
  It is inductive as it stands.
- `FlagCorrect`: `ProcessorMatchesFlag`, inductive on top of the types.
- `OneResultCorrect`: `OneResult`. Not inductive: a request may be answered by
  `processQueue`, by an abort or by `enqueueMessage`, and nothing in `OneResult` says that
  they exclude each other. `ResultInv` does: a request that has not been queued, or has its
  result, has no entry of its own in any queue or goroutine, and otherwise it has one at most.
  One lemma per way an entry moves (queued, taken, answered, spilled, drained by an abort).
- `LatestRunCorrect`: `LatestRunVisible`, inductive on top of the types.
- `RestIsCleanCorrect`: `RestIsClean` speaks only of states in which nothing is under way.
  `EntryInv` says why the others lead there: an entry of `activeRunners` that no abort has
  marked has its `processQueue` goroutine, or a request that has loaded it and will queue
  into it.

It goes on from there with where a message is:

- `PendingCorrect`: `PendingNeverDropped`, an action property, under the hypothesis
  `~StoreMayFail`, as its comment says: a save that fails loses the message. It needs
  `RunnerInv`: two `conversationRunner`s never share a `Runner`, or the end of one would
  clear the mid-run list of the other.
- `SinglePlaceCorrect`: `SinglePlace`. `PlaceInv` adds that a message is nowhere before its
  request queues or signals it; without that a second copy could appear beside the first.
  The steps are taken apart into the ways a message moves: appended to a queue, taken,
  injected, drained into the transcript, spilled back, dropped by an abort.
- `RejectedCorrect`: `RejectedNeverRuns`, from `ResultInv` and `PlaceInv`: what sends
  "canceled" removes the one entry there was, and a request with a result has no other.

`ToolRoundProofs` (assumption: `RoundAssumption`, at least one call and one round) proves
for any number of calls, rounds and senders:

- `RoundTypeCorrect`, `ApprovedOnlyCorrect`, `NoOrphanApprovalCorrect` and
  `ClosedOnceCorrect`, all from `ApprovalInv`; `ApprovalsSettledCorrect` puts the last two
  together as the run checks them. `ApprovedOnly` alone is not inductive: a
  verdict could reach a later call, or change under one that was accepted. The
  strengthening says that calls not yet resolved are untouched, that an approval is pending
  only while the run waits for it and has no verdict then, and that a channel which may
  still be closed (fresh, pending, or taken by `Cancel`) has not been closed.
- `RoundIsClosedCorrect`, from `PhaseInv`: tools run in Phase 2 and have no results before.

`SchedulerProofs` (assumption: `SchedulerAssumption`, the clock has at least one minute)
proves for any number of jobs, executions, edits, failing transactions of the tick and crashes:

- `SchedulerTypeCorrect` and `JobRunSettledCorrect`, inductive as they stand.
- `FiresOnceCorrect`: neither half of `FiresOnce` is inductive. For cron schedules, `CronInv`
  says that the remembered minute is not before any minute fired in this life of the
  process, and that a firing that has been decided on and not yet recorded is for a later
  minute than all of them. For one-shot times, `OneShotInv` is an account: the firings there
  were (a job that was a cron job before has some of the other kind, which do not count), the
  one decided on, and the one that the stored job, or the copy that the tick has
  read of it, still allows are together no more than the times a user armed it.

`RecordProofs` proves about each of the parts of `Records` for any number of callers and
records:

- `UpdatesAtomicCorrect`: in the file store (`Backend = "fs"`) `Settings` implements
  `AtomicSettings`, for any number of writers and any fields, those without a place in the
  file included (`Kept`). The file is read and written in two steps, so this rests on the
  mutex: `RefinementInv` says that who holds it is alone between the two (`HolderIsAlone`),
  that what has been read is therefore still what is saved (`ReadIsCurrent`), and that
  nothing is saved of a field without a place (`FileFieldsOnly`). A request maps to `Ask`,
  the write to `Grant`, a failure to `Refuse`, the lock and the read to a stutter. In the
  database the refinement does not hold (section 6).
- `HistoryShown`: `HistoryComplete`, in the database (`Backend = "db"`; in the file store a
  default that is made twice loses its messages, section 6) with pages of any size but 0
  (`PageAssumption`). `HistoryInv` adds what makes the equation of the property hold when the
  list grows: what is shown ends within the list. Every step of the store either keeps a
  conversation's messages at the front of what it has, or deletes it (`GrowStep`), which
  leaves the shown part as it is (`ShownStays`); a page that is loaded ends where the shown
  part begins (`PageFacts`).
- `DeletedForgotten`: `ForgottenAfterTurns`, in either store (`MemoryAssumption`: `TurnTTL` is
  a number). The property speaks of the last result in reach only; `MemoryInv` says of
  every result that, if an item of it is gone, no more user messages follow the result
  than the item's deletion, and of a search under way that what it found and is gone by
  now went in this turn. In the database a late save can bring an item back, which the
  invariant allows for.
- `NoneAskedTwice`: `NoIdleSynthesis`, in the file store (in the database the save makes the
  source newer, section 6). `SummaryInv` adds that an item whose summary is of its source as
  it is has a summary and nothing newer, so the loop passes it over.

`DiskProofs` proves `DiskStaysIntact`: `DiskIntact` of the updater and the certificate manager
beside each other (`VersionsAssumption`: versions are what `parseSemver` returns;
`DomainsAssumption`: no domain has the name of none):

- `ExecutableIntact`, for any list of releases and any number of admins and runs, from
  `UpdaterInv`. That the file at the path is not older than the process needs the same of
  what was offered, chosen, downloaded and verified (`NotOlder`), which rests on the order of
  versions (`NewerNotBefore`). `BinaryRemains` is not inductive: `Remains` says at each stage
  of `platformApply` whether the executable, its backup or either is there, and that no two
  callers are in it as long as none has overlapped.
- `CertificateKept`, for any domains, from `CertificateInv`: the loop and the client have the
  account that is stored, which is stored before it is registered (`Registered`), and a
  certificate is stored before it is served (`Served`).

`RelayProofs` (no assumption on connections and commands) treats the result of a command
as a token that is pending in a channel map, in the hands of one reader, or sent:

- `NoStrandedCorrect` and `ResultOnceCorrect`, together `OneResultEachCorrect`, from `IdInv`
  (an id names one command of a connection), `EntryInv` (a pending entry is of a waiting
  command, with a registered connection) and `PlaceInv` (the token is in one place at most,
  and in one while the command waits). Neither property is inductive alone: a result could
  be sent by a reader while the end of the connection rejects the same command. Every step
  is shown to do one of six things to the tokens (nothing, make one, take one, send one, reject those of some
  connections, forget one), and the invariant is proved over these.
- `AnswersOwnCorrect`, from `AnswerInv`: what a client is asked and answers belongs to its
  connection under its id. The hypothesis `Terminals = {}` is needed: two connections of a
  terminal share an entry of the registry, so that an answer of the old one can meet an id
  of the new one (section 6).

`WorkflowProofs` proves for any steps, nested in any way:

- `NoUnapprovedCorrect`, inductive as it stands.
- `ErrorsContainedCorrect` and `LoopVariableCorrect`, under `WellFormed` (steps have lists of
  steps and a loop has a variable; `MCIntegrations` assumes it of its workflow).
  `ScopesKeptCorrect` puts them together as the run checks them.
  `FrameInv` gives the stack its form: each frame is of the step the frame below is at.
  `FaultInv` accounts for an error that is on its way out and may still be contained,
  `FinallyInv` for the steps of finally done so far, `ScopeInv` for what a loop has saved of
  its variable: the item of the innermost loop below it. `Innermost` is a relation between
  a stack, a length and a value rather than a recursive function, so that no induction over
  the stack is needed. Every step is first shown to change the stack in one of ten ways
  (`Shape`), and the four invariants are proved over these.

`PromptProofs` proves for conversations of any length, any number of tool calls and any
compaction bounds (assumption: `PromptAssumption`, by which compaction keeps more messages
than the overlays appended to every prompt: 10, and 6 in a retry):

- `PromptsPaired`: `PromptPaired`. Its first half is about the functions, without any step:
  a transcript in which a result stands behind its call, or behind a call that the cut has
  removed (`Turns`), leaves the two repairs with one result behind every call, and leads
  with the system messages (`RepairIs`). `fixInterruptedToolCalls` puts the transcript
  together turn by turn (`FixStep`); every turn becomes a call with its results and the
  synthetic ones (`BlockPaired`); `dropUnpairedToolResults` then removes exactly the results
  whose call was cut off (`DropIs`), and nothing of what is paired (`DropPaired`), so it
  leaves the prompt of a compression alone, whose tail starts with no result (`BoundaryIs`).
- The second half is the invariant `PromptInv`: every history has the form `Hist` that makes
  all its excerpts `Turns`. That needs `Open`, the calls still pending are those of the last
  assistant message, none has a result, and only results and summaries stand behind it;
  without it a result could be saved twice or in another turn.
- `PromptsAnswerable`: a history starts with a question (in `Hist`), which no repair
  removes, and a compressed prompt keeps the last message of the transcript (`Built`).
- `PromptTypeOK`: `TypeOK`, of which `WellTyped` is made, from the same invariant.
- `CompactionKeepsAll`: `CompactionKeeps` (of `PromptStores`), in a store that
  keeps the ids and the metadata of messages, without mid-run messages and degraded
  summaries, and with fewer overlays than the compact tool keeps messages. Each of the five
  hypotheses is needed: TLC refutes
  `NothingLost /\ NoReplay` when any one of them is dropped, and section 6 says what goes wrong.
  The invariant `KeepInv` says of every summary ever saved that it has read all that stands
  in front of the row it resumes at and nothing behind it (`Told`); of a run's history that
  it is the conversation less some summaries, in order (`Follows`); and of a request that it
  opens with at most one summary, whose resume point is where its transcript starts, and then
  holds every row from there on, in order, with synthetic results and overlays between and
  behind them (`Whole`). `BuildWhole` shows it of `buildMessages`: a transcript resumes at a
  question or an answer, so that the repairs add results and drop none (`NoneDropped`,
  `FixWeaves`). `CutTold` and `ShortenedWhole` show it of a compaction: wherever the prompt is
  cut, the first message kept is the one `findResumeFromMessageId` finds (`ResumeIs`), and
  what was cut off, with what its own summary had read, is all that is in front of it
  (`CutRead`). Summaries of summaries therefore need no induction of their own.

The library's theorems for induction over sequences take an operator as a parameter. The
lemmas here avoid that: a claim about all prefixes is a set of natural numbers, and the
least number outside of it is the one to refute (`NatLeast`, from the well-foundedness of
the naturals; `UpTo` and `UpFrom` are induction on sets). `FlattenIs` gets from it what
`FlattenSeq` returns, as a function from each prefix to what it puts together (`Joins`).

What stays with TLC: liveness under fairness (`RunsSettle`, `AbortEndsRun`,
`MessageInterruptsApproval`, `DueIsServed`, `WaitsEnd`, `CertificateComes`) and anything with
`ENABLED`, which are outside the prover's reach. Checked and not proved so far are
`WellTyped`, `RecordsConsistent`, `AnsweredIsStored` and `NothingUndone` of the records and
`WellTyped`, `NothingStranded`, `AnsweredOnce` and `NothingSkipped` of the integrations; the
conjuncts for browsers follow from the theorems about `Relay`.

## 6. Where the code departs from what is said of it

Checked by a run with expectation *violation*:

- `Serialized`: two runs of one conversation can overlap. `enqueueMessage` loads the
  `conversationRunner` before it locks it, and `processQueue` may delete it in between.
- `InjectedIsServed`: a message reported as injected can be lost, because the mutex is
  released before the runner is signalled.
- `AnswersSurvive`: the filesystem store drops the metadata of a summary when it loads it:
  `migrateMetadataEnvelope` (`filesystem_conversation_message.go:124-159`) takes the metadata
  of a message without tool calls and usage for an old envelope of other keys. With it goes
  the resume point: `recordedResumeIndex` returns at `runner.go:1116`, the next run guesses
  where the transcript resumes, and the kept tail is lost to it.
- `Settings!UpdatesAtomic` in the database: with two writers, an update that read earlier
  writes the other's fields back, the stored certificate among them, contrary to
  `docs/autoacme-alpn.md:127,131`.
- `McpClient!CloseReturns`: `close` kills the child only. Descendants that inherited its pipes
  keep the reader (`transport_stdio.go:248`), or the copy of stderr that `command.Wait` joins
  (262), from ending, contrary to the comment at 250-252.

The following are stated in the modules and refuted by TLC when put into a configuration of
the part (with the constants of its instance, changed as said), without a run of their own.

**Runs and prompts**

- `Coordinator!AbortedIsRetired` (1 message, 1 abort): an abort that hits a
  `conversationRunner` before its first message is queued marks it for good; every later
  message of the conversation is refused.
- `Coordinator!NothingStartsAfterAbort` (`Coordinator`): spilled mid-run messages are
  run, with a live context, after an abort.
- `Coordinator!IndexEmptyAfterCompletion` (`Coordinator`): an injected run writes back
  the id of a run that has ended.
- `Coordinator!FiresAfterRun` (2 messages, `MaySchedule` true): the cleanup of an injected message
  fires the restart that a still executing run has scheduled. And a mid-run message that was
  spilled is run without a goroutine that waits for its result, so nothing fires what such a
  run schedules until the next run ends; `RunsSettle` speaks of runs whose handle is open.
- `Prompt!QuestionsSurvive` (`Prompt`): a mid-run question has no id in the run's history and
  may fall behind the resume point; a degraded summary still replaces what it has not read.
- `Prompt!ResultsSurvive` (`Prompt`): with two overlays the compact tool keeps nothing but
  overlays.
- `Prompt!NextRoundResumes` (constants of `InDatabase`): the round after a compaction sends
  the compacted messages again, the history of a run being loaded once.
- `Prompt!RetryIsCompacted` (constants of `InDatabase`): the retry after a context-length
  error sends the rejected request. `runner.go:479` assigns the compacted messages to a
  variable of the inner block, and the next iteration builds its request from the outer one;
  the truncation that `compact.go:182-184` calls the last resort has no effect either.
- `ToolRound!MessageInterruptsQuestion` (`ToolRound_rounds`): a mid-run message does not end
  the wait of a tool that asks the user, because tools get the run's context.
- `Scheduler!OncePerScheduledTime` (`Scheduler_jobs`): a restart within the minute fires a
  cron job again.
- `JobRecords!FiresOnce` (either store): the jobs tool reads a job in one transaction and
  writes all of it back in another (`tools/jobs/jobs.go:264-321`), so an update enables again
  a one-shot job that the scheduler has disabled meanwhile "to prevent duplicate firing"
  (`scheduler.go:152`).

**Records.** What holds in one store and not in the other is checked for the one
(`MCStores`) and refuted for the other:

- `Accounts`: in the file store `UsernamesUnique` (`modifyUser` does not look for the new
  name), `RefusedLeavesNothing` and `FoldersAreUsers` (a user is created in several writes).
  In both: `SetupOnce` (two first-time setups both succeed) and `AdminRemains` (each handler
  refuses the caller's own account only).
- `Conversations`: `OneDefaultPerAgent` and `EnsureReuses` (the comment in `conversations.go:29`)
  in the file store; `DefaultStays`: the check is of the agent the client names, and the
  conversation may become a default between the check and the deletion.
- `Settings`: in the file store a setting that the file's format does not have (`updating`) is
  accepted, answered and lost by the conversion; `Kept` leaves it out of `UpdatesAtomic`.
- `Memory`: `DeletedStaysDeleted` in the database; `VectorFitsContent`: the embedding is made
  before the transaction that reads the item. The overlay may exceed `MaxCharsTotal`,
  because its closing line is not counted (`stm_overlay.go:186-233`).
- `Summarizer`: `NoIdleSynthesis` in the database, where saving a summary touches the
  timestamp that says the source is newer; `UpToDateIsFresh`: what changes during a
  synthesis is older than the summary's timestamp and is not summarized.
- `Workspace!StoredIsKept`, `Todos!NameAsAsked`, `Skills!EnabledKept` and
  `Agents!AvatarKept` in the database: two overlapping modifications, and the one that read
  earlier writes last. `Todos!TodoHasOwner`, `Agents!DefaultExists` and
  `Agents!SeededAgent` in the file store: a deletion between check and write, and a creation
  that fails half-way.
- `Todos`, besides: a batch finds its item by the todo's id whatever its owner; in the
  database a prune deletes a todo that was reopened, and fails as a whole when one of its
  todos is gone; the broadcasts follow the commits and may arrive in another order.
- `McpConnections`: `OneConnectionPerServer` and `ConnectedHasCredential` in the database;
  `TokenNotOlder` in both: a refresh is persisted after a newer authorization. Of two
  callbacks with one state the second marks the connection with an error, and an earlier
  callback clears the state of a later authorization.
- `Skills!EnabledOnly`: a run registers disabled skills (`docs/agents-and-skills.md:67-68`
  speaks of enabled skills only). `NoDowngrade`: an index read earlier installs later. An
  update brings back a skill that was uninstalled meanwhile (`library.go:263-284`).
- `Agents!SpawnDepthBounded`: the depth (`runctx.go:38`) is carried by the context, which
  `processQueue` replaces, and `agent_message` has no check. The conversation of a subagent
  is not deleted after completion, unlike its description says (`agent.go:339`).

**Integrations**

- `Relay!SingleWriter` (`MayPing` true): the ping loop and `SendCommand` write to one
  connection. `AttachedTabIsTarget` (`EventField` `"params"`): the extension sends `params`
  (`cdpRelay.ts`), the server reads `parameters` (`relaybrowser.go:200-203,244,273`). The
  frame of a replaced terminal is looked up in the pending map of the new one
  (`relay.go:226-236`).
- `Tabs!CallEnds` (with fairness): no server-side timeout ends the call, unlike
  `Overlay.tsx:440-443` says. `CancelsItsOwn`: a detach cancels the calls of a newer
  attachment, unlike `rpc_tab.go:91-93` says.
- `McpClient`: a write to a server that does not read is ended by no context
  (`transport_stdio.go:163`), unlike the comment at 71-73 says of a request, and it holds the
  mutex that `close` needs. `OperationEnds` names it as an exception (`WriteBlocked`).
- `Channels!AlwaysPosted` and `NoLeftover`: events of a conversation are skipped while the bot
  handles a message of it, so a scheduled run does not "always post final output"
  (`telegram/bot.go:482`); an injected message gets no reply.
- `Voice!BargeInOnce` (the comment in `session.go:66-75`), `SpeechHeard` and
  `CurrentRunLives`, for the reasons given with them. Besides: a run that `Run` refuses loses
  the turn; the end of a cancelled run does not start the turns that wait; a sentence taken
  from the queue before a barge-in is spoken after it.
- `Workflow!AttemptsTrue`: a step whose attempts all failed is reported with one more than were made
  (`tool.go:295-308`). Refusals and errors of output processing ignore `onError: continue`;
  a case of a switch that matches falls to the default when its steps are left out, and not
  when they are an empty list (`tool.go:399`).
- `Updater!BackupRestored` (two callers that apply at once): "On failure the backup is
  restored automatically" (`apply.go:23`) holds for one.
- `Certificates`: a certificate is kept until it is replaced; `docs/autoacme-alpn.md` (2.4)
  says that a change of the domain clears it.
- `Connections!DeliveryGoesOn` (one stream, one caster, two events): a stream through the
  cloud relay is written without a deadline, so a client that stops reading holds up every
  broadcast, which the comment in `websocket.go:34-36` is about. After a write timeout a
  WebSocket stays open and receives nothing.
- `Providers!BrokenNotSaved` for Gemini: its reader sends `Done` before it looks at the
  scanner's error (`gemini.go:602-621`), so half a message is saved as whole. Its calls get
  the id `call_<name>` (`gemini.go:458`), so two calls of one tool share an id, and
  `fixInterruptedToolCalls` takes the result of one for both. With Anthropic and OpenAI a
  stream that ends without an error but before `message_stop` or `[DONE]` is taken as whole.

Consequences the models show without contradicting a text: a panic below `processQueue`
leaves the conversation without a goroutine and its requests waiting; a crash between
disabling a one-shot job and creating its run loses the job; a job deleted while it runs
leaves its run recorded as running in a store that rolls back; results of tools are not
saved when the run is aborted while they execute; the user a connection acts as is the one
read when it was opened (`websocket.go:277-282`).

## 7. What is not modelled

The parts listed with status `not_modelled` in `PROJECT.json`: browser automation, surfaces,
the handlers of media and usage, the tools without state of their own,
utilities (rate limiter, cron expressions, screen buffer), the command line and the web
frontend, apart from the ends of the relays. They are clients of external services,
presentation or pure functions over text.

Within the modelled parts: texts, token counts, attachments and media, usage records, event
payloads; a store that fails while the scheduler records the outcome of a run; the ownership checks of the brokers (one user per conversation); several
conversations at once; a system clock that is set back; the chat channels' own commands; the
audio of a voice session and transcription while the user speaks; titles and archives of
conversations; the discovery of OAuth metadata; `teanode update`; the providers' lists of
models, embeddings and speech.

Go's memory model is taken to be sequentially consistent: the shared variables concerned are
accessed under a mutex or through `sync.Map`. A transaction of the file store is one step,
under its lock; transactions of the database are read committed, with the constraints of its
schema.
