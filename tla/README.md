# A verification of pcm-agent

`src/fastapi-service` is a chat agent for workhour records: a user writes a
message, a language model or a set of rules turns it into tool calls, and the
tools read or write records of a SpringBoot backend. This directory holds TLA+
models of the agent: first of what decides *whether, when and how often a record
is written*, then of the rest of a turn, of the services it leans on and of the
rules it decides by; the TLC runs that check them on small instances, and TLAPS
proofs of the properties that matter most.

Paths below are relative to `src/fastapi-service` unless they begin with `src/`.

## 1. Inventory

| Component | State it keeps | Operations | What makes it correct |
|---|---|---|---|
| Agent, `app/services/langgraph_agent.py` | the local state of one turn: message, history read, pending write read, chosen calls, rounds, outcome | `stream_agent_response`, the nodes of its graph: function calling, classifier, tool execution, planning, answers, summary | a write happens only for a user who confirmed what was previewed, and once; the loop ends; what is told, logged and stored agree |
| Session memory, `app/services/session_memory.py`, `prompt_builder.py` | one Redis value per session: messages (last 10) and `business_state["pending_write"]` | `get_business_state`, `update_business_state`, `add_messages`, `clear_session`, TTL | a turn finds what the previous one left; nothing of it is lost or used twice |
| Planner and plan, `app/models/task_plan.py` | the tasks, their dependencies, their status | `plan_tasks`, `validate_dependencies`, `topological_sort` | a plan that runs is acyclic and complete |
| Task executor, `app/services/task_executor.py`, `retry_util.py` | status and result of every task, the attempts | `execute_plan`, levels under `asyncio.gather`, retries, timeouts, placeholders | order, one attempt per write, no false denial, an end |
| Batch tool, `app/tools/batch_save_workhour.py`, `_write_guard.py` | the records of a call and what became of each | preview, check of daily hours, a loop of posts | what the report says of every record is true |
| Single tools, `app/tools/save_workhour.py`, `approve_workhour.py` | none | one post | the same for one request |
| User memory, `app/services/user_memory.py`, `app/api/memory.py` | a Redis hash for each memory and a sorted set that lists them | store and evict, list, recall with an access update, clear | a bound on the list; what was forgotten stays forgotten |
| Gateway, `mcp_servers/_gateway_core.py`, `_service_account.py`, `http_gateway_server.py` | a cache of tokens | exchange, resend after 401 | a stale token is replaced, a write is not repeated |
| Internal tools API, `app/api/internal_tools.py`, `internal_auth.py` | none | run one tool for the gateway | what the tool said is what is answered |
| Parameter, project, hours and work type resolvers | caches of the process | resolve a name, suggest a value | a cached answer still fits who asked and what was asked |
| Intent router, `app/services/intent_router.py` | keyword lists, handlers | classify, extract parameters, decide and execute a route | a complete call about one person, one handler per message |
| Language model client and its filter, `llm_client.py`, `reasoning_filter.py` | a semaphore, a held back piece of text | generate, stream, retry | no token lost, one response, no reasoning shown |
| Retrieval, `langchain_rag.py`, `kb_navigator.py` | one vector collection of all workers, an outline in each | build or attach, query, outline, read a section | nobody searches a collection that is being built; the outline is current |
| Read-only tools | none | find a person, fetch bookings, add them up | the right person's hours, each once |
| Chat API, `app/api/chat.py` | none | a stream of events, or one answer made of them | the one answer says what the stream said |
| Conversation log, sessions table, compression, start of the application | rows | append | bookkeeping |

How they interact: one HTTP request is one turn. The turn awaits Redis for the
history (`build_messages_with_history`), again for the business state, then the
graph. The graph asks the model for calls, rewrites them by its rules, and calls
one tool (`node_execute_tool`), builds a plan that the executor runs
(`node_plan_and_execute`), or answers. Tools await the backend over HTTP, names
through the resolvers. When the stream ends, in a `finally` block, the turn
updates the business state, appends to the history, stores a memory and writes
the log. Nothing locks the session: two requests of one session interleave at
every `await`. Workers of the service share Redis and the vector collection.

The hard behaviours, each listed with its line under `hazards` in
`PROJECT.json`: confirmations that meet a stale, spent or unpreviewed pending
write; turns that overlap; a client that disconnects half-way; a node, a read or
a Redis command that fails; a backend that commits a write whose answer is lost;
retries and timeouts around writes; sibling tasks of a failed level; several
records of one date; workers that build one collection and crash; caches that
outlive what they hold; waiters of a semaphore that are cancelled; a stream cut
in the middle of a tag; and the rewriting of proposed calls, whose rules undo
one another.

## 2. Modules

| Module | Models | State and actions |
|---|---|---|
| `WriteLicence` | what the confirmation protocol promises | `licence`, `granted`, `used`; `Grant`, `Use`, `Revoke` |
| `WriteConfirmation` | turns of one session: `stream_agent_response`, routing, gates, execution, session memory | `session` is the Redis value; the other variables are the locals of each turn; one action per stretch between two awaits |
| `PlanExecution` | `TaskExecutor.execute_plan` on one plan, with `retry_async` | `state`, `step`, `attempt` follow `execute_single_task`; `Land` is the backend |
| `BatchSave` | `batch_save_workhour_handler` and the backend it posts to | `outcome` is the list of results of `_save_records`; `booked`, `landed`, `late` are the backend |
| `Gateway` | a workhour tool called from outside the chat: token caches, internal endpoint, `save_workhour`, backend | `at`, `token`, `cache` are the caller's side, `stage`, `result`, `posts`, `audit` the service's, `landed`, `revoked` the backend's |
| `TurnProtocol` | what a client may rely on in the stream of a turn | `phase`, `failed`; one action per kind of event |
| `AgentTurn` | one turn through every node of the graph, its events and its `finally` block | `node`, `history` (`agent_history`), `events`, `status`; one action per node, and `LeaveGraph`, `LeaveOutside`, `CutShort` for the client |
| `RagStartup` | workers that build one vector collection or attach to it | `at` follows `initialize_langchain_rag` and `_init_vector_store`; `lock`, `token`, `ready` are the files; `Crash`, `Respawn`, `Restart` |
| `UserMemory` | the memories of one user | `hash` and `index` are the Redis keys; one action per statement |
| `Resolvers` | names to ids, bookings to suggestions | `known` and `suggested` are the caches; one action per read of the backend |
| `AnswerStream` | `stream_query` with the filter of reasoning | `buffer`, `inside` are the filter; `Receive` takes a piece of any length |
| `LlmClient` | calls under the semaphore with retries, streams and cancellation | `queue` and `holding` are the semaphore; `Cancel` at every await |
| `IntentRouting` | one message through the router, and through the classifier node of the agent | a message is a set of words; `params` are the names of the parameters |
| `CallRules` | what becomes of the calls the model proposes for a question about hours | `calls` passes through the stages of `node_llm_with_tools` |
| `ContextWindow` | the messages the model is shown | `messages`, and the `window` cut out of them |
| `ReadTools` | `query_timesheet`, `compute_statistics`, `generate_weekly_report`, `query_project` | find, fetch, compute |
| `ChatReply` | `POST /chat`: one answer out of the events of `TurnProtocol` | `reply`, `status`, `detected`; one action per kind of event |
| `KbOutline` | the cached outline and the reading of a section | `cache`, `signature`; `Edit` is somebody editing the documents |
| `WriteReport` | what a tool that writes promises about its report | `written`, `told` |
| `Approval` | `approve_workhour_handler` as an implementation of `WriteReport` | `posted`, `approved`, `result` |
| `Services` | the services side by side: instances of `LlmClient`, `UserMemory`, `Resolvers` and `AnswerStream` next to `RagStartup`, which it extends | what each of them promises |
| `Rules` | the parts that decide by rules: instances of `IntentRouting`, `CallRules`, `ContextWindow`, `ReadTools`, `ChatReply`, `KbOutline` and `Approval` next to `BatchSave`, which it extends | what they assume of their constants (`RulesAssumption`) and what each of them promises |

`MCWriteConfirmation`, `MCPlanExecution`, `MCBatchSave`, `MCGateway` and
`MCAgentTurn` give the constants of one module their values. `MCServices` and
`MCRules` do so for `Services` and `Rules`, and let one part run: a variable `part` says which, and the others stay as they
began, so that a run has the behaviours of each and not their product. Theorems
are in `WriteConfirmation_proofs`, `WriteLicence_proofs`, `PlanExecution_proofs`,
`BatchSave_proofs`, `Gateway_proofs`, `AgentTurn_proofs`, `Services_proofs` and
`Rules_proofs`.

The modules meet where one takes for a choice what another decides.
`WriteConfirmation.ExecuteTool` treats a tool as a choice of success, definite
failure (nothing was written) and unknown result; `BatchSave` shows that the
batch tool keeps to it (`FailureWroteNothing`), `Gateway` the single one
(`ReplyTrue`), and `Approval` the third (`ReportSpec`).
`PlanExecution.FailDefinitely` has the guard `t \notin landed` for the same
reason. `WriteConfirmation.ExecutePlan` lets any subset of the planned calls
take effect, which covers every run of `PlanExecution`. `AgentTurn` chooses any
call in every round; which ones the rules leave is `CallRules`, and on the path
without function calling `IntentRouting`. `AgentTurn` implements `TurnProtocol`
(`KeepsProtocol`), and `ChatReply` reads any stream that `TurnProtocol` allows:
what it shows of `POST /chat` rests on nothing else.

### WriteConfirmation

A message is a kind (what the regular expressions at the head of
`langgraph_agent.py` tell apart), the request it names, and whether it also has
a preview or correction word. A turn goes through these steps:

| Action | Code |
|---|---|
| `Begin` | the request arrives, the history is read |
| `LoadBusiness` | `get_business_state` |
| `RouteForced`, `RouteModel` | `node_llm_with_tools`: forced calls and cancellation, or the model's own answer; both pass `_enforce_write_confirmation` and the clarification |
| `RouteClassifier` | `node_classify_intent`, reached when function calling fails: no gate on `dry_run` there |
| `ExecuteTool`, `ExecutePlan` | `node_execute_tool`, `node_plan_and_execute` |
| `UpdateLoad`, `UpdateStore` | `update_business_state` in the `finally` block |
| `AppendLoad`, `AppendStore` | `add_messages` |
| `CutShort`, `Abandon` | the generator is closed at an await of the graph, or of the `finally` block |
| `Expire` | the TTL, or `clear_session` |

The language model is external: `ModelCalls` is every call about a request that
some message mentioned, with either value of `dry_run`.

Left out: the text of messages, of replies and of parameters; the loop over
knowledge-base tools, which writes nothing and rejoins the same node; the merge
of single fields between a pending write and a correction (the merged record is
one of the two); rules that force a read tool (they act as `other` messages
answered by text); `WRITE_DRY_RUN_DEFAULT`, which makes every call a preview.

The ghost variables count, per request, the messages that asked for it, the
successful previews recorded, the attempts to write on the strength of one, and
record every write that may have reached the backend.

### PlanExecution

A plan is a dependency relation (cyclic or dangling ones too: the planner is a
language model), a choice of write or read per task, and a parameter that is
concrete or a placeholder for another task's result. Tasks of a level run
concurrently. Every failure path of `_execute_tool_call` is an action: refusal
before the call, definite failure, unknown result, transport error with retry,
the tool's timeout, the plan's timeout. `Cancel` is the client closing the
stream. General chat tasks behave as reads.

### BatchSave

Hours are quarters of an hour, so that `_normalize_hours` (nearest half hour,
half to even, at least half an hour, at most a day) is integer arithmetic. The
records a text parses to are chosen from `Batches`; with `Reparses` a second
parse may differ, as the language model's may. A post is committed by the
backend at any time while it is in flight or, with `LandsLate`, after it was
given up. A dead branch of the source, the expansion of date ranges, and the
warnings that change no state are left out.

### Gateway

A call declares its way in (the HTTP gateway, a stdio server, an internal
script), a tool, an entity and a form of `dry_run`. Caller and service are
concurrent: a caller that gives up leaves the endpoint and the tool running.

| Action | Code |
|---|---|
| `Identify`, `Fetched`, `FetchFails` | `resolve_identity`, `ensure_auth`, `fetch_service_account_token`, `get_mcp_token` |
| `Forward`, `Receive`, `GiveUp` | `forward_to_ai_service`, `call_ai_service_tool`, each with a 30 second timeout |
| `Enter` | `call_internal_tool` up to the handler: whitelist, forced preview, audit |
| `Refuse`, `Raise`, `Resolve`, `Accepted`, `Rejected`, `GaveUp` | `save_workhour_handler`, and what the endpoint logs and answers for it |
| `Expire` | the TTL of `_TOKEN_CACHE` |
| `Commit`, `Revoke` | the backend |

A stdio process serves one entity, so its cache is a slot of that entity without
a TTL. The resend after a 401 is modelled (`Resends`), but the endpoint answers
no 401: a token that the backend refuses is a failure of the tool inside a 200
answer. The theorem that a call is written once rests on that; the variant
`ResendsMut`, which also resends after an unknown result, breaks it. Left out:
the gateway's own token, the preconfigured stdio token (a script's), unknown
tools, and audit lines that fail to be written, which the code drops.

### AgentTurn

A turn of `stream_agent_response`: `Start` sends start and thinking, the `Choose`
actions are what `node_llm_with_tools` and `node_classify_intent` can decide,
`Observe` is the stream's handling of a tool that ran, with `_append_agent_history`
and `_agent_loop_should_continue`. Only knowledge-base tools come back to the
model; `Seen` blocks a call that was made before, `Repeats` and `ThreeFailures`
end the loop. A plan is a list in which equal tasks may stand: the calls the
model proposes are compared before the asker's id joins them, and the planner is
a model too. The executor refuses a plan in which a write stands twice (`Refused`)
and runs any other, equal reads included. A node may fail: with a
`PermissionError`, which is told as an error and logged as "rejected"
(`GraphRefuses`), or otherwise (`GraphFails`). The executor turns the refusals of
its own validator into results, so the former is a `PermissionError` from
elsewhere, such as the operating system. The client may leave at an await of the graph or of the answer, and each of the four stores of the `finally` block may
fail without the next being skipped. The four `Save` and `Write` actions are one
store each. Left out: chart events, metrics, traces, and the strategy
`"agent"` of `rag_strategy` with `_rag_fallback`, which no node ever selects.

### RagStartup

A worker loads the documents, waits for the file lock, looks for the ready file
of the running start and then attaches to the collection, or drops and fills it,
touches the file and releases the lock. A failure of Milvus leads to the index
in memory. The lock is the system's: a worker that dies releases it. `Restart`
is all workers going down at once and coming up with a new token, or, with
`NewToken = FALSE`, with the same one (a token set in the environment).

### UserMemory, Resolvers, LlmClient, AnswerStream

In `UserMemory` each Redis command is an action and each may fail. The score in
the index is the importance: at both moments it is written the decay of age is
nil. A recall picks its `TopK` best by any order among the readable. The ghost
variables `gone` and `before` say what was evicted or cleared before a request
began.

In `Resolvers` the caches belong to the process. A name is searched, then the
name without its last word, then matched against the user's own recent projects;
a suggestion is read from bookings, guessed by the model, or a default. What the
backend finds and who booked what may change between any two reads.

In `LlmClient` the waiters of the semaphore are served in turn, as
`asyncio.Semaphore` does; a stream holds its token only while it opens.

`AnswerStream` takes characters one class each: `t` is the word of an opening tag,
`/` the beginning of a closing one up to and with its word, `<` and `>` are
themselves, and there is white space. That is enough for tags cut anywhere, nested,
left open, with an attribute or with space before the `>`, and put together by
taking out what was between their halves. `Feed` is the filter of the stream,
which knows the literal tags; `OpensAt`, `Closes` and `StripTrace` are the patterns
of `strip_reasoning_trace`, which allow more and strip the ends.

### The rules: IntentRouting, CallRules, ContextWindow, ReadTools

A message is the set of what the patterns of the code find in it. `IntentRouting`
keeps the weights, penalties and thresholds of the two scores as integers.
`CallRules` keeps the order of the stages: forced calls, normalisation, weekly
report, comparison, months, cap at today, questions asked back, dispatch. Days
are numbers, a month and a week have a few of them. `ReadTools` keeps the three
ways to add up one set of bookings, and the lookup of the person or the project
that is named (`Found`): a page of those who have the name in theirs, of which the
one whose name it is comes first; for a project that this does not find, the name
without its suffix, and then a recent project of the asker that resembles it. The
names do not change during a call; that they do, and the cache of the names, is
in `Resolvers`. `ContextWindow` has the two cuts.

### ChatReply, KbOutline, Approval

`ChatReply` tells texts apart by their number in the stream. `KbOutline` has a
modification time and the section titles of each document; the outline is kept
while the newest time and the number of documents stay the same. A scan may fail
to read a document that is there; it is then `Skipped`, in the outline and in what
is cached. That a document is there and its modification time can always be told:
`_scan_kb_signature` would leave out one whose `stat` fails. `NewestStays`
assumes that no edit, of a document or by its deletion, takes the newest
modification time away. `Approval` is one post that
SpringBoot may still act on after the handler gave up; that a 2xx answer means
approved is assumed, because nothing but its status is read.

### Variants kept beside a definition

Operators whose names end in `Mut`, `Any`, `Keep`, `Retry`, `More`, `First`,
`Never`, `Completed` or `Early` are plausible mistakes in the definition that
follows them. No specification uses them; `PROJECT.json` pairs each with the
property that detects it.

## 3. Runs

| Run | Shows | Bounds and assumptions |
|---|---|---|
| `confirm_licence` | the session implements `WriteLicence`; no preview licenses two writes; an armed write survives unrelated turns | four turns, a batch and a single record whose project must be verified, with corrections, project ids and the classifier path, in sequence, store and client reliable |
| `confirm_gate` | a batch is written only by a confirming turn; a cancelling turn never writes; a save without history is refused | two overlapping turns, all message kinds, two batches (one for another member), failing store, dropped clients |
| `plan_shapes` | one attempt per write, committed writes not denied, dependencies first, completion, no leftovers, termination | every relation on three tasks, dangling ones included |
| `batch_save` | truth of the report, per record and as a whole; one record in doubt; an end | two calls, batches of up to two records, one booking by others, late commits, failing query |
| `gateway_calls` | a call is written once, only if it says so, in its entity's name; the audit log and the answers are true; every caller is told something | two calls, two entities, two tokens each; confirmed, preview, read and unlisted calls |
| `agent_turn` | no write twice in a turn, alone or in a plan, and without a plan no business call twice; the loop ends and repeats nothing; told, logged, remembered and stored agree; the stream keeps `TurnProtocol`; every turn ends | three knowledge-base calls, a write and a read, four rounds, plans of up to two tasks, failing and refusing nodes and stores, a client that may leave |
| `services` | one rebuild at a time, nobody searches an unfinished or outdated collection, every worker settles; memories stay forgotten and under the limit; names and suggestions fit; how a stream is cut does not matter; no token is lost and every call ends | two workers, one crash, one restart, one change; three requests on two memories; two resolver requests of two users, one change; answers of up to seven characters in pieces of one or two; three calls under one token |
| `rules` | one person, complete calls, a monotone verdict, one handler; the right colleague, parties and days once; whole pairs in the window; hours of one whom the name may mean, counted once, weeks that agree; the daily limit; one whole reply; a current outline but for what could not be read; `Approval` implements `WriteReport` | all messages of three findings; proposals of up to two calls; months of four and weeks of two days; three calls of the batch tool with one record for each date, some of negative hours, and no other bookings; lookups that show two of three projects; streams of four events; two documents with two titles and two edits; two ids |

The bounds are enough because of how the code looks back. The protocol relates a
preview, a confirmation and at most one turn after it; four turns allow a
preview, something in between, a confirmation and a repetition. Two requests are
needed for one to displace the other: a batch and a record in `confirm_licence`.
`MaxHistory` is 2 exchanges instead of 5, so that trimming happens. Three tasks
give a cycle, a chain, a fork and a join. Two calls of the batch tool allow a
post of the first to land during the second. Two calls and two entities let the
gateway confuse tokens if it could; two tokens per entity let one expire and be
replaced. The loop of a turn looks at three rounds, so three calls in four
rounds show a repeat inside and outside that view and three failures in a row
before, at and after the bound. Two workers are the builder and the one that
waits; a crash and a restart put each at every place of the other. One memory
is the limit, so that two exceed it and a third request can clear or recall. The
longest tag has three characters: seven hold a block with an attribute or a space
in its tags, and a plain one cut at each place with text around it. One token and three calls give a waiter behind a
waiter. The rules of `CallRules` test at most three findings of a message
together, and months with `each` are added to them; two proposed calls let one
change the other (`hasWeekly`, duplicates).

Deadlock is not checked in these runs: turns, calls, requests and the plan are
finite in number and the model stops when they are done.

Four runs are expected to end in a violation. Each states what the code, its
comments or its tests say, and is listed with quotes under `findings`:

| Run | What the code does |
|---|---|
| `confirm_unpreviewed` | a clarified call is stored as a successful preview, and the next confirmation writes it |
| `confirm_again` | a second confirmation finds the batch in the history and writes it again |
| `batch_same_day` | several records of one date each pass the daily limit they exceed together |
| `gateway_stale` | a token that was refused stays cached and is used again: the refusal arrives inside a 200 answer |

The modules hold more statements of the code's comments and docs that the code
does not keep. TLC violates each when it is added as an invariant to the run, or
to the instance of its module in the run, that the second column names:

| Statement | Where it is violated | What the code does |
|---|---|---|
| `WriteConfirmation!SpentWithinArmed` | `confirm_unpreviewed` with `Overlap = TRUE` | two concurrent confirmations both read one pending write and both write it: nothing locks the session (`session_memory.py:138`) |
| `PlanExecution!NoDuplicateWrite` | `plan_shapes` | duplicates are looked for before placeholders are resolved (`task_executor.py:120`) |
| `ContextWindow!QuestionShown` | the `window` part of `rules` | from the fourth round the last eight messages are the rounds alone, and the user's question is no longer shown (`langgraph_agent.py:1225`, comments at 1222 and 1232) |
| `AgentTurn!ErrorEndsStream` | `agent_turn` | after an error of one round the stream goes on with the next, and may send a response (`langgraph_agent.py:2296`) |
| `UserMemory!CapKept` | the `memory` part of `services` | two overlapping stores each see the list before the other's eviction and both evict one memory, the same (`user_memory.py:28`) |
| `LlmClient!InFlightLimited` | the `llm` part of `services` | a stream gives its token back when it is open, not when it is read (`llm_client.py:43`) |

The other assumptions a passing run makes can be lifted in its cfg to see what
they stand for. `Disconnects = TRUE` in `confirm_licence`: a client that drops
the stream between the write and the session update leaves the spent preview
armed (`SpentWithinArmed`). `Fallback = TRUE` and `PlannerWrites = TRUE` in
`confirm_gate`: the planner is reached through the classifier, and a
`batch_save_workhour` with `dry_run=false` that its language model writes goes
to the executor as it is, past the gate (`BatchWriteOnlyOnConfirmation`).
`ErrorBodies = TRUE` in `batch_save`: a 200 answer with an error in its body
counts as saved (`ReportTrue`). `NewestStays = FALSE` in `rules`: a newest
document that is scanned and deleted brings an old signature back, and with it
the old outline (`OutlineCurrent`, `kb_navigator.py:70`). `NewToken = FALSE` in
`services` makes `ServesCurrent` say nothing: a start with the token of an
earlier one attaches to the collection that one built.

Four properties name in their own text a case in which the code does something
else; the models have the case, and TLC finds it when the exception is taken out:

| Property | Excepted case | What the code does |
|---|---|---|
| `LimitKept` | a record of no hours or less | the check adds what the record states (`batch_save_workhour.py:473`), half an hour is booked for it (360), so a full day goes over the limit of `src/docs/changelog/plan-batch-workhour-fill.md:73` |
| `OutcomeTrue` | a turn logged as "rejected" | an error is sent (`langgraph_agent.py:2669`), and because 2708 asks for "error" alone the outcome is stored as a success |
| `AgreesWithQuery` | a text whose tags are not all plain, and white space at the ends | reasoning in `<think x>` is shown by the stream and stripped by the query (`reasoning_filter.py:9`, 42) |
| `NamedOnly` | more who have a name in theirs than a page shows; a project found without the suffix or among the recent ones | of those on the page the first is taken although somebody off it has exactly this name (`query_timesheet.py:294`, `param_resolver.py:355`); `query_project` answers for a project of another name (`param_resolver.py:298`, 309) |

`OutlineCurrent` likewise allows a document that was there all the time to be
missing because it was `Skipped` (`kb_navigator.py:191`): it stays missing as long
as the outline is cached.

### Met while modelling

Behaviour that the models keep and that no property above is about:

* Routing: the greeting rule answers before any classification, so a request
  after a greeting is chat. A rules file without the words of a tool ends in a
  `KeyError` and general chat, although `intent_router.py:30` asks that the
  fallback never depends on the file. When a target has no handler and the
  fallback fails, the fallback is called a second time (660, 691). A reply that
  looks like a project id after an earlier question fails the classifier node
  if no id was found in it (`tool_params["project_id"]`).
* Calls: the guard on follow-ups about oneself (`langgraph_agent.py:588`) is
  undone by 602; a forced weekly report of a confirmed project is always asked
  back unless an id or a colleague is given; a weekly report for an ISO date is
  resolved by one function and refused by another; the branch that expands dates
  and the second clarification cannot be reached. `compute_statistics` never
  uses `department_id` in its fetch.
* Reading: `weekly_hours` groups by `%Y-W%W` although its comment says ISO
  weeks, so a week with New Year in it is two items (`WeeksAgree` excludes it);
  hours of projects with one name are merged; an invalid week number raises.
* A turn: `/chat` writes a second line of the log for a turn; the plan's
  `tool_call` events carry `tool` where `/chat` reads `tool_name`; several
  complete texts of a loop are joined into one reply, which the docstring of
  `_accumulate_response_text` excludes; the text of a failed generation is
  saved as the answer; the calls of a plan are not compared with
  `agent_history`; the outcome is a success when the client left before a
  result.
* Caches: names are cached without the user and for ever, failures too; the
  hours default is cached after a read that failed; `top_k` is not in the key of
  the project suggestion. Of two sections with one title only the first can be
  read.
* Memories: an eviction that fails is never made up for, a hash without its
  index entry stays until its TTL, and a store that overlaps a clear lists its
  memory again.

## 4. Fairness

`WriteConfirmation` states none: all its properties are safety. `PlanExecution`
assumes weak fairness of every task's own steps and of the executor's: an event
loop runs what is ready, and each wait of the code is under a timeout, so
`calling` is always followed by an answer or `TimeOut`. Nothing is assumed of
the backend (`Land`) or of cancellation. `BatchSave` assumes weak fairness of
the handler for the same reason: each post has a timeout. `Gateway` assumes weak
fairness of each caller, whose two requests have timeouts, and nothing of the
service or the backend. `AgentTurn` assumes weak fairness of the turn's own
steps, which wait for the model and tools under timeouts, and nothing of the
client. `RagStartup` assumes weak fairness of each worker's steps, of taking the
lock while it is free, and of `Respawn`, because uvicorn starts workers again;
nothing of crashes. Weak fairness of the lock is enough because a worker that
has built or attached does not come back for it before a crash. `LlmClient`
assumes weak fairness of the service of each call: a request has a timeout, and
the semaphore wakes its waiters in their order. The composed run states the
same conditions for the part that runs.

## 5. Proofs

All theorems are of the specifications as the runs use them, for every value of
the constants that satisfies the named assumptions.

* `WriteConfirmation_proofs`: types, and the three gates. The invariant
  `GateInv` says what the calls of a turn that is about to execute satisfy
  (a batch that is not a preview belongs to a confirming turn, and so on) and
  that the recorded writes satisfy it too. The gates hold for overlapping turns,
  failing stores and dropped clients, on the assumption that the planner plans
  no write (`~PlannerWrites`) and, for cancellation, that function calling does
  not fail over to the classifier (`~Fallback`). TLC shows that the first is
  needed: see `PlannerWrites` above.

  Then the refinement. Under `Orderly` (turns in sequence, store and
  client reliable) no preview licenses two writes, and the session implements
  `WriteLicence`. The invariant `OrderlyInv` says that at most one turn is
  active (`Sequential`), that what it read is still what is stored (`Fresh`),
  that it has at most one call unless it runs a plan (`OneCall`), that the other
  turns hold nothing (`Resting`), and that an armed write has been granted once
  more than it was used (`Outstanding`). Neither `SpentWithinArmed` nor the
  refinement is inductive without the last part. That turns in sequence are
  needed TLC shows with `Overlap = TRUE`, as said above.
  `ArmedWriteIsKept` (an unrelated turn does not disarm a write) needs less:
  turns in sequence and a store that does not fail, while clients may leave.
* `PlanExecution_proofs`: six invariants. `AttemptsInv` relates attempts to the
  step of a task, `LandedInv` relates the backend to what was reported, and
  `LevelInv` says that what is closed has completed, that what runs belongs to
  the current level, and that closed levels are closed under dependencies.
  `EmptyLevel` is the fact behind `CompletedAll`: in an acyclic plan an empty
  level means that every task is closed.
* `BatchSave_proofs`: six invariants. `ReportInv` says which records can still
  be in the backend for each outcome. `LimitHeld` holds under `Careful`: the query
  works, posts do not land late, nobody else books, one record per date, and the
  limit is a multiple of half an hour. Each of these is an assumption the code
  makes. It says that a post takes a date over the limit only with a record of no
  hours or less. `Fits` is the invariant: a record that is still to be committed
  and states some hours fits as it is booked, for although rounding may raise it
  above what was checked, a sum of half hours does not pass the limit by that
  (`RoundingFits`). The run `rules` checks `LimitKept` on such an instance, and
  `batch_same_day` shows that one record per date is needed.
* `Gateway_proofs`: `OwnerInv` says that every cached or carried token belongs to
  its entity; `FlowInv` relates the place of a call on both sides to how often
  it was posted and what its result means, and needs that no answer is a 401
  (`NeverResends`); `AuditInv` says what the log holds at each stage. All five
  safety invariants of the run follow, for any number of calls.
* `AgentTurn_proofs`: types, six invariants and the refinement of a turn, for any
  calls, bound of rounds, plans and length of the answer. `BusinessInv` says that
  where the turn may still choose a
  call no business call has been run, and `TimesTyped` that whatever the executor
  starts of a plan runs a write once at most (`WritesRunOnce`); `GateInv` that a turn which chooses is
  below the bound, not behind three failures, and that the history holds a call
  without "blocked" once; `StatusInv` that the status is no success from the first
  error sent and the first call without a result; `AnswerInv` that what was
  collected of the answer is the last response that was sent. The invariants are
  needed because the properties look at the history or at counts only, and not at
  what the gates will still let through. For `KeepsProtocol`, `PhaseInv` says that
  the phase of `TurnProtocol` follows from the events sent so far (`Told`), so
  that each event of a node is a step of the protocol and everything else a
  stutter.
* `Services_proofs`: the collection, for any number of
  workers, crashes, restarts and changes. The invariant ties the workers
  together by the ready file of the running start: the lock is held by the
  worker that builds (`LockHeld`), what is being filled is not yet announced
  (`Filling`), what is announced is complete and of this start, and whoever
  searches has seen the announcement (`Announced`). `NotRebuilt` follows because
  an announced collection is never dropped under the same token.
  Then `TokensAndAnswers`: for any calls and any number of tokens, what is
  held and free adds up, whoever was cancelled and when, and an answer comes from
  one response. `MemoriesKept`: for any memories, requests and failures of
  Redis, what was evicted or cleared before a recall began is not recalled
  (`Forgotten`), and while no two requests overlap the list exceeds its limit by no more than what
  the running store has just added and the evictions that failed (`OneRequest`,
  `StillListed`, `WithinLimit`). `NamesAndSuggestions`: for any users, names and
  bookings, an id was found for the name it is told for, however the caches were
  filled (`BackendKnown`, `NamesKnown`), and a suggestion comes from the user's own
  bookings. `StreamShowsWhole`, for answers of any length and any cuts: a token
  that begins in one piece and ends in a later one begins in the suffix that the
  filter holds back (`HeldBack`), so going on from a cut gives what one piece would
  have given (`CutFeed`), and the invariant `StreamInv` carries this from piece to
  piece. What is shown is thus what the filter makes of the text in one piece
  (`CutsDoNotMatter`); that this is the answer of `query` for plain tags
  (`AgreesWithQuery`) is left to TLC.
* `Rules_proofs`: `MessagesRouted`, for any message: `HandlersInv` says which
  handlers can have been called at each step, `PersonInv` that the asker's own id
  is not among the parameters until the last step joins it; that one more
  word never reverses the verdict is arithmetic over the two scores and the
  cardinalities of the words found. `CallsAndResults`, for any length of the
  history, rounds and budget: both cuts of a log in which calls and results are
  paired (`InPairs`) leave such a log, with the newest message last.
  `OneAnswer`, for streams of any length: the reply and the status are functions
  of the events sent (`Says`, `ErrorsOf`). `ApprovalReports`: the approval tool
  implements `WriteReport`. `OutlinesAndSections`, for any documents, sections
  and edits: a cached signature was taken of the outline cached with it
  (`Taken`), and since no edit takes the newest time away (`NewestStays`) an equal
  signature means equal documents (`Stands`). A document that the scan could not
  read is the exception throughout. `HoursCounted`, for any
  finite bookings, calls, names and calendar: whoever a lookup finds is one whom the
  name may mean (`FoundIsMeant`: if all fit on a page, the page has the one whose
  name it is, `PagesShow`). `ReadInv` carries from the lookup to the
  answer that the bookings read are those of the person found, `FiguresInv` that
  the figures are made of the bookings that match. A sum of hours is the number of
  units to count (`TotalHoursCount`), so adding up the items of any kind of
  statistics is a bijection with counting the hours at once (`ItemsAddUp`); a
  week begins at a multiple of its length (`WeekBegins`), which makes it one item
  of the statistics by week. `CallsRewritten`, for any message, calendar and calls
  of the model: `RulingInv` says what the calls are at each stage (`Stages`). About
  whom they are (`Meant`) is settled by the normalisation and kept from then on.
  When the statistics come from one call of the model or from the words alone
  (`Counted`), there is one such call after the normalisation, or two names have
  one each for the same days (`OneOrPair`, `Twins`): this is what the comparison
  and the months need, since both act only on a single call. From there two
  parties stay apart (`BothParties`), and the months are one call each
  (`Monthwise`): that taking out equal calls loses none of them, that the cap at
  today changes none of them, and that they meet in no day is arithmetic over the
  length of a month (`DayIs`, `CappedMonth`, `MonthsApart`). The order of the calls
  plays no part: what the stages keep is said of the places of the statistics
  (`StatsIn`), and the elements kept at some places of a sequence are numbered by
  how many places come before them (`NthIs`).
* `WriteLicence_proofs`: the abstract licence is never used beyond its grants.

Some properties of the runs are conjunctions of properties that the modules
state one by one; a theorem about the whole (`PlanInOrder`, `VerdictIsTrue`,
`GatewayAsAsked`, `LoopIsBounded`, `RecordIsTrue`, `CollectionServesRight`, and
most of `Services_proofs` and `Rules_proofs`) rests on one lemma or theorem for
each part. The runs check no type invariant, because the
theorems `ConfirmationTypeOK`, `ExecutionTypeOK`, `BatchTypeOK`, `GatewayTypeOK`,
`TurnTypes` and `StartupTypes` do so for every value of the constants. The
theorems of `Services_proofs` and `Rules_proofs` are about the specification of
each part (`Llm!Spec`, `Routing!Spec`), which the composed run takes one at a time.

The library's induction rules take a predicate as a parameter, which the provers
cannot instantiate. Where a proof needs induction over data it takes a smallest
counterexample, which exists by `WFMin` if there is any: a set of bookings for the
sums of hours (`SmallestSubset`), a text for the filter (`Least`). The filter is
a recursive function, and that there is a function which solves its equation
has to be shown before the equation can be used. `Recursion` does so, without an
operator as a parameter: if every argument is sent to one of smaller measure, the
solutions below two bounds agree (`SolutionsAgree`) and their union is the function
looked for. `FeedExists` applies it to the filter.

`RulesAssumption` says of the constants of `Rules` what the code ensures: what is
nobody and nothing is told from a user, a project or a document; bookings,
documents and those who have a name in theirs are finite, and who has a name has it
in theirs; only `compute_statistics` has a kind of work among its
parameters; a week is one of the forms that `_resolve_week_range` reads. Of the
calls the model proposes it says that none is a write, because writes have
`WriteConfirmation`, and that the model keeps to its prompt
(`app/prompts/system.yaml:30`): a user id is the asker's own, and whoever else is
meant is named. No code enforces the latter. TLC evaluates the assumption in the
run `rules`.

Only model-checked: liveness (`Terminates` of a plan and of a turn, `Reports`,
`EveryoneTold`, `WorkersSettle`, `EveryCallEnds`), which is out of the prover's
reach, that the stream agrees with the query (`AgreesWithQuery`, the second half of
`ShownRight`), and the violations. Every other property that a passing run checks
is proved.

## 6. Not modelled

* Text: prompts, the wording of replies and reports, charts, the ranking of
  passages and memories by their words, embeddings. A model's choice is a
  choice of the specification, restricted by what the code checks afterwards.
* Permissions and the check of the gateway's own token: lookups in fixed tables,
  without state.
* `sql_query`, `suggest_workhour`, `export_report` and the stdio servers other
  than that of `save_workhour`: each forwards one request and formats one answer.
* The conversation log, its tables and `/conversations`: rows that are only
  appended, and a counter of turns that two turns of a session may increase by
  one (`langgraph_agent.py:2820`); no decision depends on them. The context
  compressor is called with at most four messages, below each of its thresholds,
  so that its summary and its hard cut never run.
* Real time: the timeout called total is applied to each task
  (`task_executor.py:105`), so a plan may take many times as long; the TTL of a
  cache is an `Expire` at any moment.
* The start of the application, health checks and metrics.

What could follow: a composition of `AgentTurn` with `WriteConfirmation`, so that
the rounds of the loop and the gate on writes are one step relation instead of
two that choose each other's part.
