# Verification of lg-api

TLA+ models of lg-api, a TypeScript server that exposes custom agents through the
LangGraph platform API: assistants, threads, runs, crons and a key-value store over
HTTP, with server-sent events (SSE) for streaming runs and exchangeable storage
providers (memory, SQLite, SQL Server, Azure Blob).

Each module is written from the source; the comment over every definition names the
code it stands for, and PROJECT.json maps it to the lines.

## 1. Inventory

| Component | State it keeps | Operations | Hard behaviour |
|---|---|---|---|
| runs service (`modules/runs/runs.service.ts`) | run records, abort hooks of live runs | create (background), batch, wait, stream, join, joinStream, cancel, bulk cancel, delete, list | every handler is an `async` function that awaits storage several times: runs, cancels, state edits and deletes interleave at each `await`; catch blocks differ per kind of run |
| stream emitter (`runs.streaming.ts`) | a writer per live run, timers | openSse, joinLive, streamFromAgent | replay and subscription against publishing; disconnects; sessions looked up by run id |
| stream manager (`streaming/stream-manager.ts`) | map run id -> session (event buffer, subscribers, closed, live) | createSession, publish, subscribe, closeSession, getEventsAfter | a session may be replaced, closed twice, deleted by a timer set for another one |
| threads service and repository | thread records (`status`, `values`), history of states | create, get, patch, delete, search, count, copy, prune, getState, updateState, getHistory | the turn of a run is written twice (history, record); a run writes what it read plus its turn |
| assistants | assistant records, version snapshots | create (`if_exists`), update, setLatestVersion, listVersions, delete | read, compute version + 1, write, snapshot: four awaits |
| store | items under (namespace, key), expiry times | put, get (with refresh), delete, search, listNamespaces | expiry against refresh; composite keys; two writers of one item |
| crons | cron records | create, update, delete, search, count | records only, nothing schedules them; the payload is merged in the service from what it read two awaits before |
| agent executor, registry, resolver | agent definitions | resolve, execute, stream | an agent call answers, fails, times out, is aborted |
| agent runners (`src/agents/agent-template-ts`, `passthrough`, `skill-agent`) | the text streamed so far, per call | emit token, emit replace, reconcile, final | what was streamed against the final text |
| connectors (`api-connector.ts`, `cli-connector.ts`) | one HTTP request or child process per call | execute, streamAgent | NDJSON cut across chunks; timeout against late answer; abort |
| request composer, state reducer | none (pure) | composeRequest, reduce | channels: `messages` append, the others replace |
| storage providers | memory maps, SQL tables, blobs | the five storage interfaces | blobs have no transactions: two-blob records, etags |
| storage lifecycle | the cached provider and repositories | initializeStorage, getRepositoryRegistry, close | several initialisations |
| routes, schemas, plugins, app | none | validation, wiring | none of the core's own logic |

What makes each of them correct:

- **Runs.** A run that was accepted reaches a final status; `success` is not reported
  before the turn is in the thread's history; a thread is not left `busy`; the
  conversation of a thread only grows by one turn at a time; a cancel is final.
- **Streams.** Every client that follows a run is written each event it asked for
  exactly once, is not ended before the run, is ended after it; nothing the run emits is
  lost; only a client that asked for it cancels the run by leaving.
- **Storage.** A record is one atomic object to its callers: an acknowledged update is
  not lost, a deleted record does not come back, what is counted can be read.
- **Assistants.** Version numbers identify snapshots; the current record is one of them.
- **Threads.** An answered edit stays in the history until the thread is deleted; each edit
  builds on the one before; a copy is whole; what was deleted is gone; the pages of a history
  are the history.
- **Searches.** What is answered is there and fits the filter, what fits is answered, and the
  total and the page agree, although records are written meanwhile.
- **Agent calls.** The agent is told the whole conversation; its answer is what it said; the
  client ends up with the text that was saved; every call ends.
- **Store.** An item does not outlive its expiry, a refresh does not shorten or lengthen
  it unasked and loses no write.

The hazards found while reading, each with its line and the property that covers it, are
in PROJECT.json under `hazards`.

## 2. Modules

| Module | Models | Used by |
|---|---|---|
| `RunLifecycle` | how a run executes (background, wait, stream), cancels, `POST /state`, deletes | `MCRunLifecycle`, `RunLifecycleProofs` |
| `ConversationLog` | abstract: a thread's conversation is a log that only grows | refined by `RunLifecycle` |
| `StreamSession` | StreamManager, `openSse`, `joinLive`, `joinStoredRun`/`streamFromAgent` for one run id | `MCStreamSession`, `StreamSessionProofs` |
| `RunStore` | abstract: a run record is one atomic object | refined by `BlobRuns` |
| `BlobRuns` | the run storage in Azure blobs: record and pointer, etags, failures, lost answers | `MCBlobRuns`, `BlobRunsProofs` |
| `AssistantVersions` | assistants and their versions, service and all four providers | `MCAssistantVersions`, `AssistantVersionsProofs` |
| `StoreItems` | the key-value store, service and all four providers, with a clock | `MCStoreItems`, `StoreItemsProofs` |
| `ThreadStates` | the Threads API and its histories: create, patch, delete, prune, copy, `POST /state`, `GET /state` and history, all four providers, with a clock | `MCThreadStates`, `ThreadStatesProofs` |
| `RecordSearch` | search, count and search by ids of threads, crons and assistants on all four providers: filters, order, pages, projection, downloads | extended by `CronJobs` |
| `CronJobs` | create, update, delete of crons; writes of threads and assistants as single steps, for the searches to meet | `MCCronJobs`, `CronJobsProofs` |
| `TurnContext` | pure: request composer, state reducer, what a finished turn stores | extended by `AgentCalls` |
| `AgentCalls` | agent calls, one after the other on one thread: executor, both connectors, the runners, the event loop of `streamLive` and `typeOut` | `MCAgentCalls`, `AgentCallsProofs` |

How they fit together. `RunLifecycle` uses the storage as the memory provider offers it:
each call takes effect at one moment, and an update of a deleted record does nothing.
For runs in blobs `BlobRuns` justifies this: its blob calls implement `RunStore`, whose
actions are the atomic calls of `RunLifecycle`. `RunLifecycle` keeps of the SSE session
only whether it is open and whether a client that leaves cancels the run
(`JoinerLeaves`); `StreamSession` shows when exactly that happens (`LeavingCancels`).
Likewise it keeps of an agent call only that it answers, fails or is aborted, and of a turn only whose it
is: `AgentCalls` shows how a call comes to its outcome and `TurnContext` what the turn says. `ThreadStates`
takes the storage calls of a thread apart that `RunLifecycle` takes for single steps, and
`CronJobs` takes the writes of `ThreadStates` and `AssistantVersions` for single steps, because a search sees
nothing else of them.

### What is an action

The server is one Node.js process: code between two `await`s runs without interruption,
everything else interleaves. An action is therefore the code from one storage, agent or
blob call to the next, with the effect of the call; `pc` (`conn` in `StreamSession`) names
the call to come. A rejected promise is a second outcome of the same action, and leads where the
enclosing `catch` leads.

- `RunLifecycle`: `Execute(r)` is the disjunction of the storage calls of
  `createStateful`, `createStateless`, `wait` and `streamLive` in their order;
  `SaveState`/`SaveValues` are the two writes of `updateThreadState`; the `MarkFailed`,
  `ReleaseFailed`, `CloseStream` actions are the catch and finally blocks; `CancelStep`
  is `cancel` and `bulkCancel`, `EditStep` is `ThreadsService.updateState`. A
  conversation is the sequence of the turns' authors: what a turn says is nowhere
  looked at. A storage fault is charged to `MaxFaults`.
- `StreamSession`: session objects are numbered, because the writer and the connections
  hold an object while `closeSession` and the clean-up timer look one up by run id. The
  position of an event in the buffer is its id. `times[c][i]` counts writes to the
  client's socket. A stored join pushes the stored answer event by event (`pushed` counts them), whatever
  else is published to its session meanwhile.
- `BlobRuns`: every request is a small process over blob calls; `etag` numbers uploads.
- `AssistantVersions`, `StoreItems`, `ThreadStates`, `CronJobs`: one module for four providers; `provider` and
  `clients` (whether clients wait for each other's answers) are chosen in `Init` and never
  change, so that one run checks all combinations and a property can say for which it
  holds.
- `ThreadStates`: a state is named by the request that added it; its `values` are the requests whose
  messages it holds, in order. `owed` and `born` remember what clients were answered.
- `RecordSearch`: a record is its creation time, one filtered value (the text "1", the number 1 or an
  object) and whether its metadata fits the metadata of a blob; `seen` remembers what each record was
  during a search.
- `AgentCalls`: texts are sequences of words; a line on the wire is two halves and a line end,
  and a chunk is cut anywhere. `make` says what the agent is built with, `way` how it is called. The handler
  of an agent built on the runner names the message of its reply itself (`HandlerResponses`); an id names one message
  of an answer (one is generated where it is missing, `runs.service.ts:1229`). Of a command's answer `child`
  keeps the words written and the places where the reading cut one; `Decoded` is what the connector makes of
  them, with `Torn` for a word that lost a character. Who holds the output of a command, and for how long
  (`OutputReleased`), is the operating system's matter and external.

Definitions marked `Mutant` are never used by a specification: they are the bugs that
show that a property can fail (PROJECT.json, `mutants`).

## 3. Runs and what they show

| Run | Instance | Shows |
|---|---|---|
| `RunConcurrent` | 2 runs of any kind, 1 thread, cancel, delete, 1 storage fault | `TypeOK`, `NeverLeftBusy`, `SuccessMeansSaved` |
| `RunSettle` | 2 runs, cancel, no fault, fair | `RunsSettle`, `ThreadsReleased` |
| `RunSerial` | 2 runs, 1 editor, clients that wait for a thread to be free | `ValuesMatchHistory`, refinement of `ConversationLog` |
| `StreamFollow` | 2 joiners, filter and `Last-Event-ID`, joins before the stream opens | `TypeOK`, `DeliveredOnce` |
| `StreamKeep` | 2 joiners, no join before the stream, fair | `StreamKept`, `LeavingCancels`, `EveryFollowerEnds` |
| `BlobRuns` | a thread run, a stateless run, 3 requests, failures | `TypeOK`, `UpdatesVisible`, `CountAccurate`, refinement of `RunStore` |
| `Assistants` | 3 requests, 2 fields, 4 providers | `TypeOK`, `VersionsReliable`, `FieldsKept`, `DeletedForGood` |
| `Store` | 3 calls, 3 namespaces that begin alike, searches with and without a prefix, a clock of 3 instants, 4 providers | `TypeOK`, `ServedInTime`, `FoundUnderPrefix`, `ItemsKept`, `AnswersLastWrite` |
| `Threads` | 3 requests on a thread and its copy, 2 instants, 1 fault, a history limit of 1, 4 providers | `TypeOK`, `AnswersHold`, `ConversationKept`, `CopyComplete`, `DeletedGone`, `PagesPartition` |
| `Crons` | 2 records of 3 kinds, 1 search of 10 shapes, 2 writers, 4 providers | `TypeOK`, `SearchFaithful`, `TotalRight`, `CronsChangeAsAsked` |
| `Agents` | 6 agents, up to 2 calls, 5 answers, 2 lines before the last, chunks cut anywhere, fair | `TypeOK`, `RequestComplete`, `AnswerFaithful`, `ReplyWhole`, `CallsEnd` |
| `RunCancelOverwritten` | 1 background run of a thread, 1 cancel | `CancelSticks` fails |

Several properties are conjunctions of named parts: `DeliveredOnce` of `ExactlyOnce` and `AtMostOnce`,
`StreamKept` of `FollowedToTheEnd` and `NothingDropped`, `UpdatesVisible` of `UpdatesKept` and
`AnswersCurrent`, `VersionsReliable` of `CurrentSnapshotted` and `VersionsKeptWithoutRollback`,
`DeletedForGood` of `DeletedGone` and `NoResurrection`, `ItemsKept` of `KeptUntilDue` and `CreatedKept`,
`AnswersHold` of `AcceptedKept` and `CreatedOnce`.

Deadlock is not checked: every instance has finitely many requests, and stops when all
are answered.

**Bounds.** Requests are one-shot, so a bound on them is a bound on the overlap. Two runs on
one thread are enough for a run to start between any two steps of another one, and a
cancel or an edit adds a third party; one fault is enough because every catch block is
entered by one. Three blob requests on one record allow one to be overtaken by two others
(read, then deleted, then created or updated again). Three events hold the answer of a
stored join and an event before, at and after any `Last-Event-ID`; `MaxEvents` also bounds
the writer, which then can only finish. Two session objects allow the one replacement that
matters: a stored join's session and the live one. Three store calls with a clock of three instants
hold a put with a time to live, its last instant, the time after it, and a second writer between the two
steps of a read. Three requests on a thread are a delete, an edit or a copy that two others
overtake, or two edits and a delete; two instants hold two states of one millisecond and of two; a
history limit of one makes SQLite's copy cut, and pages of one state. Two records and one search make a
page that is full, one that begins later, a record that vanishes between a listing and its download,
and a sort that has something to do. Two calls of an agent are the least in which one sees what another
stored; two lines and a last one hold a replaced text, a text that continues, a second `final` and a line
after it. The bounds are constants, and what is proved holds without them.

**Fairness.** `RunSettle` assumes weak fairness of `Execute(r)`: the event loop resumes a handler
whose call was answered, database clients answer or fail, and the connectors bound the
agent's answer with a timeout. It assumes nothing of clients: requests, cancels and
disconnects may never come. `StreamKeep` assumes weak fairness of `Finish` only:
`streamLive` closes the writer in a `finally` block. Deletes are off in the liveness run because
their number is bounded, faults because a status update that throws has no second try. `Agents` assumes weak
fairness of the server's own steps (spawning, reading, typing out) and of its timers
(`setTimeout`, `AbortSignal.timeout`), and nothing of an agent: it may never answer, write or exit.

### Disagreements with what the repository says

1. `RunCancelOverwritten` - `createStateful` sets `running` (`runs.service.ts:170`), then `success` or
   `error`, without reading the status again: a background run of a thread, cancelled by
   `POST /threads/:thread_id/runs/:run_id/cancel`, leaves `interrupted`, which `runs.routes.ts:262` calls a
   terminal state.
2. `cancel` frees the thread while the run goes on; the next run reads the conversation before the
   cancelled one saves, and the later save drops a turn (`runs.service.ts:356`; L1150 says
   "Appends input messages and response messages to the existing conversation history"). `RunSerial`
   therefore has no cancels.
3. A join that found no live session ends in `closeSession(run.run_id)`, which closes the live
   session if the stream opened meanwhile (`runs.streaming.ts:335`; L386 says "Either way the connection
   then follows the run until it finishes"). `StreamKept` is for streams that no join precedes.
4. The version after a rollback is the restored number plus one, a number that is taken
   (`assistants.service.ts:154`; `assistants.routes.ts:91` says that updates "always produce a new
   version"). `VersionsReliable` is for histories without a rollback.
5. `api-connector.ts:39` documents a 504 for a timeout; `execute` reads the body outside of its `try`
   (L85), so that a timeout during the body is a raw error ("raw" in `AgentCalls`).
6. `agent-executor.ts:56` promises "exactly one final"; the connector passes on several, and the lines
   after one. Of an agent built with the runner `AnswerFaithful` shows exactly one.
7. `azure-blob-thread-storage.ts:145` says that its metadata filter has the semantics of the other
   providers, and a comment at `sqlite-thread-storage.ts:148` that "nested filters work": in SQLite the filter
   for the number 1 finds the text "1" and never the number, in SQL Server both find both, and an
   object finds nothing. `SearchFaithful` names the filters that find what they say (`Plain`).
8. The CLI connector turns each chunk of stdout into text on its own
   (`cli-connector.ts:64`): a character cut between two chunks becomes replacement characters, and the
   text that is stored is not the one the command wrote (L8 and L10 say that the answer is read as JSON and returned).
   `AnswerFaithful` says which words are lost: those that lie across a cut, and no other.

Of these the first is checked as a run that fails; the others are the exceptions that the passing
runs name.

What the runs except, because the code has it and no line of the repository denies it, or
because the model states it as it is:

- a run is stored as `pending` before its thread is known to exist; when that fails,
  the record stays `pending` (`runs.service.ts:645`);
- `updateThreadState`'s caller swallows a failing read and goes on from an empty
  conversation (`runs.service.ts:155`);
- `markSavedRunDone` reads the status and writes it one `await` later
  (`runs.service.ts:972`): a cancel in between is overwritten;
- a subscription is made, and the client is ended, by code that looks at the session
  again after an `await` (`runs.streaming.ts:364`); events published after a close are
  dropped (`stream-manager.ts:126`);
- a run's delete that fails between its two blobs leaves a pointer that is never
  removed: `CountAccurate` counts these (`azure-blob-run-storage.ts:115`);
- SQL updates of an assistant write a whole row that was read one `await` before, and lose
  a concurrent change of another field: `FieldsKept` is for memory and blobs (in SQL for clients that wait);
- SQL Server's rollback reads the snapshot and writes the record in two round trips of one READ COMMITTED
  transaction (`sqlserver-assistant-storage.ts:215`, `:240`): when a delete and a create of the same id are
  committed in between, the record holds a snapshot that no longer exists. `CurrentSnapshotted` names this
  exception (`ReturnedToDeleted`), as it does failures between a record and its snapshot;
- in memory an update in flight stores its snapshot after the delete, and a rollback to it
  revives the assistant: there `NoResurrection` needs clients that wait for each other;
- `listVersions` calls `slice` on `{items, total}` and throws with every provider;
- `refresh_ttl` writes the value again without a time to live, so that the item never
  expires; it can also bring back an older value. `ServedInTime` takes the refreshed expiry as the
  promised one;
- SQL ignores a time to live (`plan-002-storage-infrastructure.md`, AC-3.5, says
  "expired items not returned"): `ServedInTime` is for memory and blobs;
- blob searches and gets delete expired blobs late and without a condition: a put in
  between is lost. `ItemsKept` and `AnswersLastWrite` name exactly this exception. A get is judged by the
  instant at which it looked at the clock, a search by the one at which it answers: a blob search looks once,
  and an item that expires while it reads may be left out or not;
- the blob of a namespace whose text is empty (`[""]`) lies beside the folders, and no prefix finds it:
  `AnswersLastWrite` excepts it. A listing in blobs with the prefix `[]` looks in the folder `/`, not
  everywhere; the model's empty prefix stands for one that is left out;
- SQL compares with `LIKE`, which ignores the case of ASCII letters and takes `%` and `_` for wildcards: the
  model's letters (`Letters`) are of one case and none is a wildcard;
- `["a.b"]` and `["a","b"]` are one address in memory (`["a/b"]` in blobs), and prefix
  `["a"]` finds `["ab"]` in memory: `FoundUnderPrefix` is for SQL and, without separators in the
  segments of the namespace and the prefix, blobs;
- an edit of a thread in memory or in blobs that a delete overtakes brings its history back, and concurrent
  creates of one thread replace each other there (`DeletedGone`, `CreatedOnce`); SQL refuses both;
- an SQL update of a thread or a cron writes the whole row it read one `await` before:
  `ConversationKept` is for clients that wait, `CronsChangeAsAsked` excepts SQL under overlap;
- the payload of a cron is built from what the service read: of two overlapping updates, of the input and
  of the config, one is lost with every provider;
- two states of one millisecond are one blob, and SQL Server answers either of them; `before` leaves out
  every state of its instant, so pages are only reliable for distinct times; SQL cuts a page before it
  filters, and may answer an empty one in the middle of a history;
- SQLite copies only the newest 100 states of a thread; a copy keeps the source's `checkpoint.thread_id`
  except in memory; `prune` without ids does nothing;
- memory sorts only when it is asked to, the others by creation time;
- the search of assistants in blobs ignores the metadata, and their count compares objects by identity and
  is 0 for every metadata filter;
- SQL Server counts and reads the page in two queries, and blobs are downloaded one by one:
  `TotalRight` then needs that nothing is written meanwhile;
- a message whose role nobody knows, or without content, is left out of the request, stored as `human`
  (`runs.service.ts:1222`) and sent in the next turn; a channel of the input is stored only if the agent
  returns it; a key `documents` returned by an agent is stored and never sent;
- a stored message has a type and no role, and the type wins when it is stored, the role when it is read
  (`runs.service.ts:1216`, `request-composer.ts:157`): a message of the input in which they disagree is told
  to the agent as one sender's in this turn and as another's in the next. `RequestComplete` names these messages
  (`Odd`) and is about all others;
- a `final` followed by a connection that stays open ends as a timeout;
- a process that a command left behind and that holds its output keeps the call waiting for ever:
  `CallsEnd` excepts exactly this;
- a tuple client that did not ask for `custom` is not told that a text was replaced; `message_replace` means
  "replace" at `runs.service.ts:873` and "forget what was shown" at L1010.

## 4. Proofs

TLAPS proves these for every value of the constants, from the constants' assumptions
in the modules alone. Each has the form: an inductive invariant holds initially, every
action keeps it, and it implies the property.

- **`RunLifecycleProofs`** - `TypeCorrect` strengthens `TypeOK` to `StepInv`: a stateless run
  never stands at a step that touches a thread. `NeverLeftBusyCorrect`
  is inductive over that: whoever marks a thread busy holds it until it marks it idle
  (`HoldKept`), and a step changes nothing of other runs (`OthersStill`).
  `SuccessMeansSavedCorrect` needs `Saved` along the way: a run that stands behind
  `SaveState` has its turn in the history, histories only grow (`HistoryGrows`) and so
  keep it (`SavedStays`). For clients that wait until a thread is free, without cancels, deletes and storage
  faults (`OneAtATime`, which every instance like that of `RunSerial` satisfies), `TurnsInvariant` joins to this what each request has read
  of its thread; `ValuesMatchHistoryCorrect` and the refinement of `ConversationLog`, step by step, follow.
- **`StreamSessionProofs`** - `DeliveryInv` joins the type invariant, "subscribed connections
  follow that object" (`SubscribersFollow`), "no event of an object not created yet was written"
  (`FreshUntouched`), "live objects and replayed ones are different" (`RolesApart`) and the positions of each
  connection; with them `ExactlyOnce`, `AtMostOnce` (together `DeliveredOnceCorrect`) are inductive.
  `StreamKeptCorrect` and `LeavingCancelsCorrect` have the hypothesis that no join of a thread run
  comes before its stream (`EarlyJoin` and `OnThread` not both): without it the stored join closes the live session,
  and who leaves afterwards cancels nothing although the run goes on.
- **`BlobRunsProofs`** - `RunsInv`: each request's calls, what its etag proves about the
  record it read, which creates are under way, which acknowledged updates a reader must
  see. From it follow `UpdatesKept`, `AnswersCurrent` (together `UpdatesVisibleCorrect`), `CountAccurate`, and
  `RunStoreImplemented`: every blob call is an atomic call of `RunStore` or a stutter.
- **`StoreItemsProofs`** - `ItemsInv` follows a value from its put to every copy that a get, a
  search or a refresh holds of it: a value not yet stored is in no item and no answer
  (`UnstoredInv`), so that fixing its expiry takes none back; a stored expiry is never later than
  the promised one (`HonestInv`), nor any answer (`TimelyInv`). `EffectStep` says that a step only removes items
  or writes one value, `ServedFrom` where an answer comes from. `ServedInTime`, `KeptUntilDue` and
  `CreatedKept` (the last two together `ItemsKeptCorrect`) follow, the last for blobs from `SerialInv` (one request at a time).
  Its second part is about what the text of a namespace tells, and on it two properties.
  `PrefixLooked` and `LookedPrefix` say that a search looks at every namespace under its prefix, and in blobs
  at no other. `FoldLeft` is defined by a recursive function: `ClosedGrows` shows that it exists and how
  it grows by a segment, and where an induction over segments would go on, the least place at which the claim fails is
  taken to a contradiction (`LeastElement`). `AnswersInv` adds to `ItemsInv`, for clients that wait for each other, that what was
  acknowledged last stands at its place or has passed its expiry (`Stands`), and that what a request under way
  has read is what the clients know (`Follows`): a blob search has found each item it owes or has it still to
  read. `AnswersLastWriteCorrect` follows for every namespace with a place of its own (`Own`), with failed
  calls, lost answers and late sweeps; `FoundUnderPrefixCorrect` follows from `FoundInv`, for any overlap.
- **`AssistantVersionsProofs`** - `VersionsInv` gives each of the three promises the part of the
  invariant it needs, under its own condition: for clients that wait for each other, what a request has
  read is still what is stored (`SerialInv`); for memory and SQL, who holds a record of a deleted
  assistant (`GoneInv`); for blobs, that an etag proves the record unchanged (`EtagInv`). `CallStep`
  says once what any storage call does, so that each part is proved over its few effects (written,
  snapshotted, rolled back, deleted, nothing) and not over every call of every provider. SQL Server's rollback
  is two calls, and what it read may be gone when it writes: the part on snapshots keeps for such a
  rollback that either the snapshot still exists or a delete was answered meanwhile (`ReturnedToDeleted`).
- **`CronJobsProofs`** - `CronInv` has a part for each thing that a search holds: where it stands
  (`PlaceOK`), that `seen` covers what it found (`WatchOK`), what it has downloaded (`GotOK`), what it answers
  (`AnswerOK`) and its total (`TotalOK`); and for the writers, that an update under way knows the record it
  read (`JobsOK`). `ArrangementProperties` and `PageProperties` are what the proofs know of sorting and
  cutting: they use the characterisation of the order and of a page, never how one is computed. A write
  keeps the searches' parts because it only adds to `seen` (`WriteKept`), a search keeps the writers'.
  `SearchFaithfulCorrect`, `TotalRightCorrect` and the action property `CronsChangeAsAskedCorrect` follow.
- **`AgentCallsProofs`** - a chain of invariants for the way from the stored conversation to the client.
  `TypeInv` strengthens `TypeOK` by what each step of a call has at hand. `UtterInv` and `RequestInv` say that
  the stored messages, read again, are what was said: `RequestCompleteCorrect`. `WireInv` is the heart
  of `AnswerFaithfulCorrect`: what was handled are the first k lines, and what lies in the buffer and on the wire,
  put together, are the pieces of the lines after them; so no cut of a chunk matters, and a line
  is parsed when its end has come or the stream has ended. Over it, `FinalInv` says where the answer came from,
  `TemplateInv` what an agent built on the runner may write, and `OutcomeInv` which failure has which cause.
  A command's answer, `Decoded` from what it wrote, has the same messages, with some words torn (`DecodedFacts`).
  `ReplyWholeCorrect` follows a text on both sides: until it is typed out the client was shown what the service
  has accumulated (`ShownInv`), and both the runner's record of what it streamed and the service's are values of
  one history of the reply's text (`Heard`): the runner's at the lines written, the service's at the lines handled
  (`SeenInv`, `RunnerInv`). At the end that history fits the answer, and `WholeInv` walks the fold
  of `typeOut` over messages with different ids. `FlattenSeq` and `FoldLeft` are defined by recursive functions;
  that these exist, and how they grow by an element, is shown as in `StoreItemsProofs`.
- **`ThreadStatesProofs`** - a chain of invariants, each over those before.
  `ThreadInv` says which calls follow which on each provider (`PlaceOK`), that overlapping requests know
  of each other (`OverlapOK`), that every state stored, read or half copied is that of an edit (`StatesOK`),
  what is stored of what clients were told (`KeptOK`, `BornOK`) and how a deleted thread may come back
  (`GoneOK`): from it `TypeCorrect`, `AnswersHoldCorrect` and `DeletedGoneCorrect`.
  `CopyInv` says that what a copy has written and what it has still to write together cover what it
  owes, for SQLite by position, for blobs by name (SQL Server copies at once): `CopyCompleteCorrect`.
  `SerialInv` says, for clients that make one call at a time, that no requests overlap, that the
  newest state of a thread holds every edit it owes (`TurnsKept`), that its record shows that state
  (`InStep`) and that what the one request has read is still so (`ReadOK`): `ConversationKeptCorrect`.
  `RisingInv` adds that memory then stores states in the order of time. With it `PagesPartitionCorrect`:
  filtering (`PickedKeeps`), cutting (`LastOfTop`) and turning around (`ReverseTurns`) are followed by
  the elements that are kept and by the order of their times, a page is what `IsPage` says whatever the provider,
  and two sequences of falling times with the same elements are equal (`SameElements`).
  A history is put in order by time. That such an order exists is proved without induction:
  the place of a state is its rank, the number of states before it, and ranks are distinct.

In `AssistantVersions`, `StoreItems`, `CronJobs` and `ThreadStates` clients that wait are among those that
`Init` may choose, beside clients that overlap: nothing is assumed of the constants for them. Only in
`RunLifecycle` they are constants, so that two theorems have the hypothesis `OneAtATime`. The assumptions on constants are the types of the parameters,
that values which mean "none" are none of the names, in `RecordSearch` that the ids are
finite in number, and in `AgentCalls` that each connector is called the way the executor calls it and that
an id names one message of an answer.

Every invariant and every action property of the passing runs is a theorem. Only model-checked:

- the liveness properties (`RunsSettle`, `ThreadsReleased`, `EveryFollowerEnds`, `CallsEnd`): TLAPS has no
  `ENABLED`;
- `CancelSticks`, which fails.

## 5. Not modelled, and why

- Routes, schemas and plugins validate and forward. What they pass on is in the inputs of the
  actions; their wording and status texts are in no property.
- Start-up and shutdown: `initializeStorage` and the registry fill module variables once before
  the server listens (`server.ts`), the YAML configuration and the agents' registry are read from files, and a
  provider is only opened and closed; requests arrive in between. Two signals at once may close it twice.
- A crash of the process: nothing is read back at start-up, and no handler is resumed. What a
  crash between two storage calls leaves behind is what a call that throws leaves (`CallFails`, `Fails`).
- Two server processes on one storage: the stream manager and the abort hooks are in
  memory, so the server is a single process. The storage modules do not depend on that.
- The filter on `values` (501 in blobs, JSON paths elsewhere) is one more filter with the same code;
  `select` of single fields is abstracted to with or without the state.
- Search and count of runs, `listVersions` (which throws), graph and schema answers: they change nothing.
- `bulkCancel` without run ids calls `repository.search`, which the storage interface of runs does not have.
- The connectors' `stream()` is called by nothing. What the skill agent asks of a model is external.
- Errors on the child's stdin have no listener (`cli-connector.ts`): what Node makes of them is not modelled.
- The clock does not step back; timers may fire at any moment, in any order.

## 6. Plan

A refinement of `RunLifecycle`'s thread calls by `ThreadStates`, as `BlobRuns` has for runs: `RunLifecycle` takes
for one step what `ThreadStates` shows to be several.
