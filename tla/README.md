# A verification project for memassist

memassist is a chat assistant with a self-managed memory.  A *turn* of a
conversation is run by a graph of nodes over a checkpointed state: the model is
called, its tool calls are ruled on, suspended for a human's approval where
they write files, dispatched, and their results sanitized, round after round
until the turn has its reply.  A router sends each model call down a chain of
free-tier providers and keeps their budgets in a ledger; an API runs the turns
of several sessions and streams what happens; a nightly job summarizes old
conversation into the archive.

This directory holds TLA+ models of those parts, what TLC checks of them on
small instances, and what TLAPS proves of them for every value of the
constants.  `PROJECT.json` lists the components, runs, mutants, theorems and
hazards, and maps every definition to the lines it models.  Source paths below
are relative to `src/`.

## The system

| Component | State | Operations | What is hard | What makes it right |
| --- | --- | --- | --- | --- |
| **Turn graph** `graph/`, `agent/loop.py`, `agent/token_budget.py` | `AgentState` in the checkpoint: queue of messages, usage, heartbeat counter, pending calls and decisions, reply, latch | `step`, `resume`, `reset`; nodes `build_prompt` … `respond` | a question answered in another process; a failure between two nodes; eviction in mid-turn; ids that recur from round to round | nothing untrusted is read raw or reaches core memory; no write without its own approval; a transcript providers accept; a reply, always; a bounded queue and a bounded turn |
| **Guards** `security/guards.py` | none | `check_tool_call` | rules under a latch that other nodes set | deny by default, in the right order |
| **Sanitizer, sensitivity** `security/` | none | `sanitize_external`, `classify` | text | every untrusted result passes through |
| **External tools** `mcp_client.py`, `mcp_servers.yaml` | names, trust, servers; an event loop on a thread | `start`, `call`, `close`, `is_gated`, `jail_of` | servers that are down; two with one name; a call that times out and still happens; a shutdown under waiting threads | a server that is down costs its own tools only; every name has one owner; every call returns |
| **Observability** `observability.py` | one client, built once per process | `span`, `traced_node` | every node of a turn runs inside one; two threads build the client at once | a turn is what it would be without traces |
| **Router and ledger** `llm/` | per process: disabled providers; in the database: requests, tokens and cooldown by provider and date | `chat`, `chat_background`, `record_request`, `set_cooldown` | check-then-act by threads and processes; midnight between two statements; restarts | overspending is bounded; cooldowns hold; every call ends |
| **API and sessions** `api/` | registry, a lock and an event recorder per session; a worker thread per turn | `/chat`, `/approve`, `/reset`, streams | workers that outlive their streams; clients that leave; two tabs | one turn at a time; no turn or question lost; events reach their own stream; the lock comes back |
| **Memory tools and stores** `memory_server/` | core blocks, recall log, archive, on either of two backends | six tools | read-modify-write by several sessions and processes; pages of a log that grows | blocks within their limit; no update lost; a search finds all there is |
| **Memory server** `memory_server/__main__.py` | its own connections | the six tools for other clients | it does not follow the backend | its updates are the others' updates |
| **Consolidation** `jobs/consolidate.py` | none of its own | a pass: select, ask, insert, record | crashes between two stores; repeated passes | nothing sensitive leaves; what it recorded is there |
| **Migrations** `memory_server/storage/migrate_*.py` | none | copy, re-embed | interrupted and repeated runs, beside a running system | everything is copied once and in order; nothing is lost |
| Assembly, configuration, prompts, web client, bench, tests, deployment | | | | wiring, text and presentation |

The API gives each session an `AgentLoop` over the session's checkpoint thread.
All sessions of a process share the router, the external tools and the stores;
the job is another process, which shares the ledger and the stores with it.  The
graph calls the router (`call_llm`), the guards (`security_gate`), the external
tools and the memory tools (`dispatch_tools`) and the sanitizer
(`sanitize_results`).  A worker's events reach its stream through the session's
`EventRecorder`.

## The modules

| Module | What it is |
| --- | --- |
| `TurnContract` | what a conversation promises about its turns, whatever runs them: which effects are permitted, given what the model was shown and the human approved |
| `TurnCycle` | `AgentLoop` and the turn graph, a node an action; `dispatch_tools` has an action per call, as each has its effect before the node commits, and one for the commit |
| `MCTurnCycle` | the instances of `TurnCycle` |
| `TurnCycleProofs` | the inductive invariant of `TurnCycle` and what follows from it |
| `TranscriptProofs` | the queue of `TurnCycle` as a transcript: its well-formedness, its warnings, its length |
| `TurnRefinement` | the proof that `TurnCycle` implements `TurnContract` |
| `Router` | threads of several processes in `Router.chat` over the ledger's table |
| `RouterProofs` | the invariant that counts `Router`'s requests under way, and the bound it gives |
| `MCRouter` | the instances of `Router` |
| `ApiSession` | one session of the API: requests, lock, streams, workers, restarts, over the checkpoint they share |
| `MCApiSession` | the instances of `ApiSession` |
| `ApiSessionProofs` | the inductive invariant of `ApiSession` and its safety properties |
| `Workload` | what a behaviour of the modules below may still do: their bounds, as a variable |
| `Stores` | the tables and collections of both backends, and the statements on them |
| `MemoryTools` | core memory tools, the paged search, and what turns write, over `Stores` |
| `Consolidation` | passes of the consolidation job, over `Stores` |
| `StoreMigration` | the two migrations, over `Stores` |
| `MemorySystem` | the three together, with the switch of backends, and their properties |
| `ExternalTools` | the MCP client: start-up, calls, shutdown |
| `Tracing` | the tracing client, `span` and `traced_node` |
| `ToolSystem` | what the nodes of a turn call, together: `MemorySystem`, and traced nodes that call `ExternalTools` |
| `SequenceContents` | lemmas on what sequences contain, and that they contain it once |
| `MemoryProofs` | the inductive invariant of `MemorySystem`'s steps and its safety properties |
| `ServiceProofs` | the same for `ExternalTools` and `Tracing`, and with it `ToolSystem`'s types |
| `MCToolSystem` | the workloads of `ToolSystem` |

### TurnCycle

The variables named like fields of `AgentState` (`graph/state.py`) are those
fields.  `pc` is the node that runs next, `local` the locals of
`dispatch_tools`, `steps` the supersteps of the invocation.  `fetched`, `shown`,
`granted` and `effects` record what the turn did, for the properties only.

* A message keeps its role, the ids of the calls it asks or answers, and what
  its body is worth: raw, wrapped, empty, a warning, a notice, or plain.  It
  costs a token; what a provider may count on top is the constant `Surplus`.
* A tool call is one of eight kinds: `send` (`send_message`), `core` (the two
  core memory tools), `insert`, `search`, `web` (an untrusted external tool),
  `write` (a gated one), `escape` (a gated one whose path leaves the jail: the
  human must not even be asked) and
  `unknown`.  Ids are positions: distinct within a response, and the same again
  in the next, as providers that count calls give them.
* `security_gate` has two actions, with and without a question: `interrupt()`
  commits nothing.  `Resume` runs the node again from its top.
* A node commits when it has run.  `Fault` is an exception in a node, the death
  of the process, or the recursion limit: effects stand, the checkpoint is the
  one the node began from, and nothing resumes it but the next `Step`.
* Left out: the recall log and trace spans (written, never read by the graph),
  `blocked_tools`, `injection_flags`, `served_by`, and `seed_context` (tests).

### Router

A thread is at one of the points of `chat()` where another may come between:
the cooldown query, the usage query, the request, and the two statements of each
of the ledger's writes, which the process's lock holds together but another
process's thread, or midnight, does not.  Rows are keyed by date and only
today's are ever read, so the model keeps today's: `NewDay` empties the table.
A limit on tokens is a check of the same kind on the same row and is not modelled
apart; a message of one user has one request under way.  Providers without a key
are left out of `Providers`.  `served` and `lost` are for the properties.

A request ends in an answer that is charged (`Answered`), in one of the errors of
`errors.py`, or in an answer `_normalize` cannot read (`Unreadable`: no choices),
which raises out of `chat()` before the charge.  Any statement of the ledger may
raise too (`LedgerRaises`), and gives up the answer it was to charge.  Both, and
the death of the process, are counted in `lost`.

### ApiSession

A request is at one of the points of its handler (`arrived`, `locked`,
`ready`), or its generator is (`open`, `streaming`); its worker is at one of the
points where `step()` or `resume()` reads or writes the checkpoint.  What a
worker's invocation knows of the window it read at its start, and each node
writes the whole of it back, so that workers that overlap overwrite each other.
The window is the turns in it, eviction aside.

* `Timeout`: 120 s without an event end the stream, not the worker.
* `HangUp`: a client leaves, the generator is closed at the yield it is at or
  comes to, and its `finally` releases the lock.  `HangUpEarly`: it leaves
  before the generator was entered, and there is no `finally` to run.
* `ReadFails`: `pending_approval` reads the checkpoint and may raise.  `/chat` has
  taken the lock by then, outside of any `try`.  A request that ends in one of
  these two ways is `astray`: it is over and holds the lock for good.
* `cut` is the requests whose streams ended before their workers; `overlap` says
  that the lock was taken, or the session reset, while a worker was running.
  They are for the properties.
* `Crash`: requests and workers are gone and the registry is empty, so that
  `/approve` is a 404 until a request makes the session anew (`ChatArrives`,
  `Reset`, `Look`); the checkpoint is in Postgres.
* An approval carries no word of which question it answers; `saw` records which
  one its client had been shown, for the property that asks.

* `subs` are the subscribers of the session's `EventRecorder`: a request's queue
  is added by `Launch` and removed after its stream's loop, which a generator
  that is closed never reaches (`HangUp`).  `crossed` says that a worker's event
  went into the queue of another's stream.

### Stores, MemoryTools, Consolidation, StoreMigration, MemorySystem

A store's lock, and the database, make one *statement* atomic, and no program
holds anything across two.  So an action is a statement, or the part of a program
from one to the next, and everything may come in between.

* A text is a number, new with each write.  A block is a sequence of lines, its
  limit is in lines; one block stands for the two, which share nothing.
  Provenance tags are not modelled.
* A row's id is its place in the log: both tables number rows as they are
  inserted, none is deleted.  A page, a payload and a transcript are sets of ids,
  or functions on one; what comes before what is the order of the ids.
* `AppendReads` and `ReplaceReads` read the block, compute and check the limit;
  `ToolWrites` is the `UPDATE`.  `kept` is what the block holds if the updates
  are done one after another.
* A page of a search is `PageCounts` (the `COUNT`), then `PageSelects` (the
  `SELECT`, the formatting, and the cut at the result's cap).  A `long` row fills
  a result, so what comes after it, the announcement of more pages included, is
  gone.  `walk` is a model that asks for the next page as long as it is told of
  one.
* What `withhold_reason` and `classify` tell apart is a row's `kind`.  `open` rows
  pass by themselves and match together with the row after them: "password:" at
  the end of one message, its value at the start of the next.  A dry run, and a
  pass with nothing to send, leave everything as it is.
* `RunStarts` to `RunEnds` are the statements of `migrate_to_postgres`, every one
  committed by itself (`autocommit`).  While its cursor on the source is open,
  SQLite's shared lock keeps writers from committing (`SourceLocked`).
  `RunBreaksOff` is anything that ends it early.
* Chroma fixes the width of a collection by its first vector and refuses any
  other (`TakesPassages`).  `Drops` and `Refills` are the delete and the rebuild
  of `migrate_embeddings`.
* `Switch` is the operator's: after a run that said Done, the programs are
  restarted on Postgres.  The memory server opens SQLite and Chroma whatever the
  backend (`Home`, `ServerClients`), so its clients stay where they were.  What
  `mcp_servers.yaml` says of it, that others "can drive the same memory", does
  not hold after the switch; no property here claims it.
* `usage` is one number, for `migrate_usage`; the ledger itself is `Router`'s.

### ExternalTools, Tracing, ToolSystem

* `boot` is `start`: server after server of the registry, each loaded
  (`ServerLoads`) or not (`ServerUnavailable`); a name that is taken raises out
  of `start` and the API does not come up.  `StartsEmpty` is a registry that
  cannot be read or an adapter that is not installed.
* `call` has every call submitted to the loop.  A wait ends with a result, an
  error, or its timeout, which does not cancel the coroutine: `ServerActs` may
  still come.  `Closes` stops the loop under whoever waits.
* A traced node passes through `_resolve`, in steps, as two threads may be in it,
  then `span`, then its body.  `seen` is what the graph is handed, `did` what the
  body did: it returned, raised, or suspended for a question.  An exit of a span
  is assumed not to raise by itself.
* The two halves of `ToolSystem` meet in `dispatch_tools`: nodes call external
  tools inside their span (`Dispatches`) and memory tools at any time.

## What the runs check

| Run | Instance | Properties | States |
| --- | --- | --- | --- |
| `turn` | 2 turns, 2 rounds, up to 2 calls of 7 kinds (all but `escape`), a window of 7 tokens, eviction from 4 messages | `TypeOK`, `RawNeverRead`, `TranscriptWellFormed`, `ApprovedWritesOnly`, `NoSilentTurn`, `OneWarningPerTurn`, `UntrustedStaysOut` | 2.1 million |
| `turn_faults` | 2 turns of calls of 5 kinds, those that leave the jail among them, a fault anywhere | `ImplementsContract` | 1.1 million |
| `turn_paging` | 3 turns of nothing but tool calls, with and without surplus tokens | `QueueBounded`, `BackstopUnused`, `TurnAnswered` | |
| `turn_crash_raw` | a fault, prompt sizes that evict nothing | `RawNeverRead` is violated | |
| `turn_prose_queue` | prose only, 12 turns | `QueueBounded` is violated | |
| `router` | 2 threads of a process, 2 providers, a budget of 1, 3 minutes over a midnight, a restart, answers that cannot be read, a ledger that raises | `TypeOK`, `OverspendBounded`, `EveryChatEnds` | 0.4 million |
| `router_quota` | 2 processes at a provider | `QuotaHeld` is violated | |
| `session` | 3 requests, 2 questions, one of every fault, a checkpoint that cannot be read | `TypeOK`, `OneTurnUnlessCutOff`, `TurnsKept`, `QuestionKept`, `AnsweredOnce`, `OwnEventsOnly`, `LockComesBack` | 1 million |
| `session_timeout` | 2 requests, a timeout | `OneTurnAtATime` is violated | |
| `session_tabs` | 3 requests, 2 questions, no fault | `ApprovalMatches` is violated | |
| `tools` | eleven workloads, below | `TypeOK`, `WithinLimit`, `UpdatesKept`, `WalkSeesAll`, `WithheldStayHome`, `RecordedHasPassage`, `NothingCopiedTwice`, `CopiedInOrder`, `RunCopiesAll`, `PassagesSurvive`, `OneServerDown`, `NodeRunsOnce`, `NodesEnd` | 0.6 million |
| `traced_question` | two traced nodes | `TracingTransparent` is violated | |

Every property of a passing run has a mutant: a definition with a plausible bug
(in the module, before the definition it replaces) under which TLC finds the
property violated in the same run.

### The bounds, and why they are enough

* Two rounds of two calls let one round's latch, ids, decisions and findings meet
  the next round's, and one call's fate differ from its neighbour's; the second
  turn starts from whatever the first left in the queue.
* A window of seven tokens makes a turn cross 70 % and 95 % in the middle of a
  round, and eviction from four messages puts the cut on every kind of message.
  `turn_paging` takes a third turn to evict a queue that was evicted before.
* The router's budget of one is spent by one thread while the other has passed
  the check; days of two minutes bring midnight between any two steps, and a
  minute's cooldown may end before or at it.  `MaxServed` lets the first provider
  answer more often than the bound `OverspendBounded` states as long as nothing
  is lost, two; the second is only failed over to, and answers nobody, as there is
  no budget of its own to exceed.
* Three requests are a turn that asks, an answer, and another answer or message
  that competes with it; two questions are the one a client saw and the next.

* `tools` would be a product of parts that hardly meet, so its initial state picks
  a workload, the allowance of every kind of step, and each workload sets the
  parts against each other that share something: two writers of a block
  (`Writers`), with a migration, its rerun and the switch (`Movers`); a walk of
  three pages through a log that grows (`Walks`), and one beside two runs of the
  migration, the later of which may begin after the switch (`Searched`); passes over three rows of every
  kind (`Passes`); passes and inserts beside a re-embedding that breaks off and
  is run again (`Reembeds`); turns, then the job, beside a migration that breaks
  off and is run again (`Moves`, `JobMoves`); a migration of either kind at once
  (`Both`); two threads under tracing
  (`Traced`), and with external calls (`Callers`).
* A limit of three lines is reached by two appends; four updates let both clients
  read before either writes, twice.  Pages of two rows and batches of one put a
  page or batch boundary, and a crash, between any two of three or more rows.
* Of three servers, the second may be down before the third, the third shares a
  name with the first that its allowlist leaves out, and one with the second that
  it does not.

### Fairness

`TurnCycle`: weak fairness of the nodes, as an invocation runs on a thread of
its own until it returns; nobody has to write, to answer or to fail.  `Router`:
weak fairness of each thread inside `chat()`, as requests have a timeout and the
ledger's statements are brief; nobody has to call, and time need not pass.  And
strong fairness of a thread that waits for the ledger's lock: the lock is free
again and again, and whoever takes it in between comes back for it only after
another request to a provider.
`ApiSession`: weak fairness of the server's part of each request and of each
worker, which ends as its turn does; clients, faults and resets are not obliged.
`ToolSystem`: weak fairness of a thread in its node and of the timer of its call,
as `future.result(timeout=120)` returns whatever happens elsewhere; servers, the
loop's thread, the job and the operator owe nothing.

### What the violated runs show

* `turn_crash_raw`: `dispatch_tools` commits raw results and `sanitize_results`
  rewrites them a superstep later.  A turn that breaks in between leaves them in
  the checkpoint, and `step()` forgets which they were and that they were
  untrusted: the next turn's model reads them raw, with core memory open.
* `turn_prose_queue`: the hard cap on the queue is enforced in
  `dispatch_tools`, where a response without calls never comes.
* `router_quota`: the last cooldown entered wins, so a 429 that another thread
  got earlier or later turns "until midnight" into a minute.
* `session_timeout`: the lock is the stream's, not the worker's.
* `session_tabs`: an approval answers whatever question is pending by then.
* `traced_question`: `span` catches what its body raises and yields again, for
  which `contextlib` raises `RuntimeError`.  `interrupt()` is such an exception, so
  with tracing on a gated call fails its turn instead of asking.  (Without keys,
  or when the span cannot be opened, nodes are as they should be: `NodeRunsOnce`.)

### What the passing properties leave out, and why

Some invariants of `tools` hold only with a condition, and each condition is a
case in which the code does otherwise.

* `UpdatesKept` assumes that no two tools were at a block at once (`overlap`):
  the read and the write are two statements, and the later write wins.  And that
  no migration began after the switch (`late`), as it would put the old block and
  ledger over the new.
* `WalkSeesAll` assumes that no message came between the `COUNT` and the `SELECT`
  of one page (`raced`): the offset then shifts, or the total is too small.  It
  may be a turn's, or a copy: a migration begun after the switch writes to the log
  the model reads (`Searched`).  A result cut at its cap (`cut`) hides the rest of
  its page, and whether there is another.
* `RecordedHasPassage` assumes that no migration was run twice (`again`), as a
  second run may copy the log of a job that inserted its passage after the first.
* `RunCopiesAll` assumes that no run broke off (`broken`): `migrate_to_postgres`
  says that "a half-finished run is resumed by simply running it again", but
  `migrate_messages` and `migrate_archival` skip a table that has any row, so what
  the first run did not copy is never copied.  With `broken` left out TLC finds
  this in a few steps.  And that the run did not count the passages of a
  collection a re-embedding was in the middle of rebuilding (`hollow`), and that
  none died there (`spilt`): it takes the half-built collection for the whole.
* `PassagesSurvive` assumes that no re-embedding died between its delete and its
  add (`spilt`): what it held was in its memory only.
* `turn` has no faults: a turn that breaks between `call_llm` and
  `dispatch_tools`'s commit leaves calls without answers in the checkpoint, and
  the next turn's provider is sent them (`TranscriptWellFormed`).
* `OverspendBounded` has a term for the answers given up uncharged (`lost`): the
  router charges after the answer, and what comes between may fail.
* A stream cut off, by a timeout or its client, frees the lock of a worker that
  runs on (`session_timeout`), leaves its queue subscribed, or sends that worker's
  events into the next stream.  No property of `session` excludes that: each says
  what is left of its promise.  `OneTurnUnlessCutOff` and `AnsweredOnce` speak of
  two turns neither of which was cut off, and of every two until somebody comes in
  on a running turn (`overlap`); `OwnEventsOnly` of two turns neither of which was
  cut off; `TurnsKept` and `QuestionKept` of every turn until somebody comes in on
  a running one.  So a stream that is cut off costs nothing by itself.
* `LockComesBack` has two exceptions, the two ways of ending `astray` above.

## What is proved

`TurnCycleProofs` proves, for every set of kinds and outcomes, every number of
calls, rounds, turns and faults and every limit, that `IInv` is an invariant
(`Inductive`), and from it `TypeOK`, `ApprovedWritesOnly`, `BackstopUnused`,
`NoSilentTurn`, `UntrustedStaysOut`, and `RawNeverRead` if there are no faults
(`turn_crash_raw` shows why that must be assumed).  `TurnRefinement` proves that
`TurnCycle` implements `TurnContract`, under faults too.  The assumptions are the
named `ASSUME`s of `TurnCycle`: kinds and outcomes are among those listed, the
bounds are naturals, `MaxCalls` and `MinMessages` are positive.

None of those properties is inductive.  `IInv` adds:

* `RoundsInv`, `StepsInv`: where in its rounds a turn is, and that a round takes
  at most seven supersteps; `8 * max(1, max_heartbeats) + 8` follows;
* `CallsInv`: the decisions and the position of `dispatch_tools` fit the calls;
* `LatchInv`: what the model was shown has been latched, and what was fetched is
  latched or on its way to be, through `local`, then `untrusted_results`;
* `DecidedInv`: the verdicts in use were given under the latch in force, a write
  among them has the human's grant, and a call that leaves the jail is refused;
* `RawInv`: a raw message is within reach of the `sanitize_results` to come;
* `EffectsInv`: the call `dispatch_tools` is at has had no effect yet, which is
  what makes a performed call performed once;
* `SaidInv`: the reply in the making is what `send_message` delivered so far.

Each action has its lemma, or one step of the lemma of its group, and the
invariant of the parts it leaves alone is carried over.  The refinement proof
maps each action to a step of the contract or to a stutter: the nodes that only
move the queue stutter, a dispatched call is `Perform` or a stutter, `call_llm`
is `Expose` the first time something fetched is in the prompt, and a fault is
`End`.

`ApiSessionProofs` proves, for every set of requests and every number of
questions, resets, timeouts, hang-ups and restarts, that its own `IInv` is an
invariant, and from it all of `ApiSession`'s safety properties: `TypeOK`,
`OneTurnUnlessCutOff`, `TurnsKept`, `OwnEventsOnly`, `AnsweredOnce` and
`QuestionKept`.  It assumes that `NoRequest` is no request and that the bounds are
naturals.  Five of its parts hold whatever happens:

* `LaunchInv`: a worker is launched by the stream of its request, once;
* `GivenInv`: who decided a question has no answer left to give, and no question
  beyond `asked` is decided;
* `LockInv`: a request that took the lock holds it, and every active worker that
  was not cut off has its stream open.  So two such workers are both the
  holder's, which is `OneTurnUnlessCutOff` for whole turns;
* `EventInv`: whatever is subscribed streams or was cut off, so a worker whose
  stream is whole finds its own queue and those of the cut off;
* `AnswerInv`: the question that waits is undecided, and the one a whole turn is
  answering was decided by the cut off only.

The others hold until somebody comes in on a running turn (`overlap`), whatever was
cut off by then, and lean on one another:

* `AloneInv`: there is one active worker at most, and nobody else has the lock
  while there is.  A worker that was cut off and is left alone is still the only
  one, which is what lets the parts below argue about one worker;
* `FreeInv`: no question waits from the moment `/chat` has found none until its
  turn has begun, nor behind a turn that has no answer to give.  So what
  overwrites the checkpoint's question overwrites none, which is `QuestionKept`;
* `OnceInv`: the question that is being answered is undecided;
* `WindowInv`: what a worker read of the window is still the window.

`OverlapStays` says that `overlap` is never undone, so before a step that leaves it
false it was false.

`TranscriptProofs` proves what `TurnCycle`'s queue is, on top of `IInv` and of
`AnswersInv`: `dispatch_tools` has answered the calls it is past, one message
each, in their order.

* `TranscriptWellFormed`, without faults.  `TranscriptInv` says where the queue is
  not a transcript: while calls wait, the message that asks for them is the last,
  and only it lacks its answers.  `Placed` is the property of one message, and the
  lemmas say what keeps a message placed: what comes behind it (`StaysPlaced`), a
  cut in front of a message that is not a tool's (`CutTranscript`, which is why
  `_safe_cut` walks on), rewritten bodies (`RewrittenTranscript`); and that the
  answers behind the message that asks for them place both (`Closed`).
* `OneWarningPerTurn`, under faults too.  `WarnedInv`: until the first round has
  warned, the user's message is the last, so that it stands in front of the
  warning; the rounds after a commit warn no more.
* `QueueBounded`, under `LimitsFit`: the model answers with calls only
  (`turn_prose_queue` shows why), nothing breaks (a turn that breaks before it
  commits evicts nothing), the limit is at least 6 and above the calls of a
  response, and `MIN_MESSAGES_BEFORE_EVICTION` is within it.  The limits of real
  models, in messages, are far above that.  `Room` is what a commit leaves
  at most (`CommitBounds`), in each way it can go: what paging lets be is below the
  cap, as the provider has counted it; what it cannot cut is one response's
  answers; what it cuts is halved.  A turn adds three messages before it commits.

`RouterProofs` proves `TypeOK` and `OverspendBounded` for every finite set of
threads (`CallersAssumption`), every chain, set of providers, limit and number of
restarts and days.  The bound is on what was served, which no single action
relates to the budget, so `IInv` counts: what is served is charged, about to be
(`Answers`), or given up, by a death, an unreadable answer or a ledger that
raised (`ChargedInv`); what is charged and what has
passed the check (`Spending`) is within the budget and one more for each thread
but one (`SpendingInv`); and a budget of nothing lets nobody in (`ClosedInv`), as
the last bound would otherwise be off by one.  Each step of a thread moves it into or
out of a set; the rest is the cardinality of finite sets.

`MemoryProofs` proves, for any number of clients, texts, passes, runs and crashes,
any limit and any batch, the types of the stores and of all that is held of them
between two statements, and `WithinLimit`, `UpdatesKept`, `NothingCopiedTwice`,
`RecordedHasPassage`, `RunCopiesAll` and `PassagesSurvive`, from one invariant
(`Consistent`), and `WalkSeesAll` and `CopiedInOrder` from a second that rests on
it (`LogsConsistent`).  It assumes that `CharLimit`, `PageSize` and `Batch` are positive, that
server clients are clients, and that workloads are allowances.  Its parts:

* `RunsInv`: how far the runs are: the switch comes after one that ended, and what
  runs after the switch is `late`;
* `BlocksInv`: a block, and what a client is about to write, is of allowed length
  and has each line once;
* `RowsInv`, `PassagesInv`: no text is anywhere before it is made or twice in one
  place, and what a run has still to copy is not in the destination yet;
* `SourceInv`, `FirstRunInv`: what the first run found stays in the source, and
  is behind it in the destination or before it in what it holds; `RunCopiesAll`
  is this at the end;
* `NamesInv`: what a record names is in its store, or in what the run has still to
  copy, which is why copying rows before passages is safe, but only the first
  time;
* `TurnsInv`: as long as writers took turns, the block is what the updates make
  of it, and what the one at work will write is that and its own.

The proofs settled what those properties assume.  `RunCopiesAll` failed in the
step where a run takes the archive for empty or full: beside a re-embedding it
counts a collection that has been deleted, hence `hollow`.  `RecordedHasPassage`
turned out not to need that no re-embedding broke off, as a collection of the old
width takes no passage a record could name.

The second invariant, `LogsInv`, is about a log that grows under those who read it
in steps.  `LogsGrow`: a row is put after the others and is new to its log,
whoever puts it there.  So

* `WalkInv`: a walk between two pages has shown, of what it wanted, every row that
  is among the newest `page * PageSize`.  Rows that come push the others back
  (`NewerGrows`), hence out of that many and not into it; a page shows the next
  `PageSize` places, as each row has a place of its own and each place a row
  (`NewerCounts`); and if a row comes after a page, the page is full and its result
  says that there is more (`PageBefore`, `PageShown`).
* `OrderInv`: `CopiedInOrder`, and what a run holds is the end of the log, of which
  it has copied the rest (`Left`).  The source keeps writers out while the run
  holds any (`SourceHeld`), so that is so until the last batch.

`WithheldStayHome` is inductive by itself (`NothingWithheldSent`): the check is on
what is sent, in the statement that sends it.

The proof of `WalkSeesAll` found the model wrong, not the code: `raced` was set by
turns only, and the step where a late migration copies rows between the two
statements of a page could not be proved.  TLC, given the workload `Searched`,
showed the walk that misses them; `raced` now compares the log with the total.

`SequenceContents` has the lemmas on sequences: what appending, concatenating and
cutting leaves in one and where, and that it is there once.

`ServiceProofs` proves `TypeOK` of `ToolSystem`, `OneServerDown` and `NodeRunsOnce`
for any registry of servers that export something (`RegistryAssumption`), any
allowlists and any number of threads, on top of `Consistent`.  `LoadedInv`: of the
servers behind the loop each has its tools or is in `errors`.  `NodesInv`: a node
has run and been seen when it has ended, and not before, wherever another
thread is in `_resolve`.

What stays with TLC:

* `TurnAnswered`, `EveryChatEnds`, `LockComesBack` and `NodesEnd`: properties
  under fairness are out of the prover's reach.  Every other property of a passing
  run is proved, under the conditions named above.

## Not modelled, and the plan

What is left of the plan is an abstract memory (one atomic update after another)
that `MemorySystem` implements as long as no two tools overlap.

The sanitizer's and classifier's patterns, prompts, rendering, what is written to
traces, the web client, the bench and deployment are not modelled: they hold no
state that the rest depends on, or are a matter of text.  The search by date and
the archival search only read and are paged as the keyword search is, the latter
by a ranking.  Two sessions that are created at once are created one after the
other, under the registry's lock.  The migration's skips for a missing Chroma
directory or library are not modelled.
