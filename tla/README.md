# MARE in TLA+

Specifications, model-checking runs and proofs for MARE, the Mongo Adaptive
Retrieval Engine. Paths below are relative to the repository; `store.py` is
`app/indexing/signals/store.py`, `agent_loop.py` and `tool_scheduler.py` are in
`app/retrieval/`.

MARE answers questions over MongoDB. An indexing pass groups the documents of a
database into *cards* and saves them, with an embedding per card, on the same
cluster. An ask loads the saved index and lets a language model navigate it
with tools until the model submits an answer or its budget is spent.

    API, UI, MCP ──► index_database ──► build_generic_index ──► save_generic_index ─┐
         │                                                                          ▼
         │                                              generic_catalog / _cards / _nav_vectors
         │                                                                          │
         └──► run_saved_generic ──► load_generic_handlers ◄─────────────────────────┘
                     │
                     └──► run_agent ──► model ──► tool calls ──► plan_calls ──► run_bounded ──► handlers

## 1. Inventory

| Component | State | Operations | Hard behaviour | Correct when |
|---|---|---|---|---|
| Index store (`store.py`, `nav_vectors.py`, `nav_nodes.py`) | three collections: the catalog row, card rows and vector rows keyed by build id | index, upgrade vectors, load, summarise | no transactions; a call may fail or the process die between any two; several requests at once; an acknowledgement may be lost | the catalog names a whole build; nothing of another build stays; a ready vector belongs to the text it ranks |
| Tool scheduler (`tool_scheduler.py`) | a process-wide thread pool and semaphore; per batch: futures, results, deadline | plan, segment, run a batch | threads of several asks share the pool; handlers cannot be cancelled; results race the deadline | each slot has its own call's outcome; the caller returns; permits are conserved |
| Agent loop (`agent_loop.py`, `tool_policy.py`) | messages, turn and time budget, read gate, reference ledger, session row | call the model, execute its tool calls, force, synthesise, persist | the model may reply anything, any number of calls in any order; anything may raise | every call answered once and in order; the budget holds; the gate and the final status tell the truth |
| Generic tools and ask (`generic_tools.py`, `store.py` reader, `generic_ask.py`, `generic_ui.py`) | the saved index, a surface per ask | index a database, ask, search, retrieve, query | node after node is read while others write; a read may have been short; ids come as texts and ObjectIds | a result is true of the database while it was read, inside what was indexed, and accounts for every requested node |
| Navigation tools, search service (`tools.py`, `app/search`) | index capabilities | search, retrieve, query, find, count; lexical, semantic, hybrid | fall-backs, rank fusion, a tree under maintenance | a scope and a tenant are kept; nothing twice; caps hold |
| Adaptive loop (`loop.py`, `candidate.py`, `best_first.py`, `stopping.py`, `hypothesis.py`, `evidence.py`) | candidate queue, claims, accounting | navigate, pop, retrieve, extract, revise, stop | six budgets, stability and gain counters, several exits | it stops; a node is read once; the status matches the exit |
| Transcript compaction (`context_compact.py`), ACGC sidecar | the message list; a channel | compact, tell, close | pairing of calls and answers; truncation of what is truncated already | pairing survives, every result keeps its first documents |
| Generations, orchestrator, validation | the book of generations, a cache | stage, activate, roll back, build | long sequences; a stale cache; concurrent builds | a failed candidate never becomes active; plans fit the documents of the caller |
| Signal providers, plans (`app/indexing/signals`) | a registry; providers with dependencies | run enabled, profile, mask, validate, compile, investigate | re-queueing with a bound; a model that invents names | each provider once, after its requirements; names only are disclosed; receipts are exact when they say so |
| Hierarchy builder, incremental maintenance | `nav_nodes`, `rag_chunks` | build, rebuild dirty groups, rebuild chunks | delete, read, insert without a transaction; crashes | a tree is whole, no document is lost, chunks follow documents |
| Grouping (three modules) | none | group documents | recursion, shards, merging | each document in exactly one group, counts right |
| RAG baseline, control tools (`rag.py`, `chunker.py`, `mongo_mcp.py`) | `rag_chunks` | chunk, ask; find, count | the chunking loop; fusion over a field chunks lack | the pieces cover the text; the control agrees with the tools |
| API, UI page, MCP server, LLM clients, configuration, evaluation, data generation, scripts | connections, settings | thin handlers, outside services, benchmarks | – | – |

What can go wrong and would hardly be met by a test is listed line by line in
`PROJECT.json` ("hazards"), with the properties that cover it; "components"
says of each part how far it is modelled.

## 2. Modules

| Module | What it is |
|---|---|
| `IndexData` | nodes, texts, vectors, indexes: the data the store specifications share, with the assumptions on them |
| `PublishedIndex` | what the store promises: one visible index, replaced in one step by another whole one |
| `IndexStore` | the store as the code runs it |
| `IndexStoreProofs` | proofs about `IndexStore`, and that it implements `PublishedIndex` |
| `ToolScheduler` | `run_bounded` for several batches on one pool |
| `ToolSchedulerProofs` | proofs about `ToolScheduler` |
| `AgentLoop` | the control of one ask, serial and parallel |
| `AgentLoopProofs` | proofs about `AgentLoop` |
| `AdaptiveLoop` | `run_adaptive` |
| `AdaptiveLoopProofs` | proofs about `AdaptiveLoop` |
| `Lists` | what the code does with lists and dictionaries: stable sorts, filters, `dict.fromkeys`, slices, rank fusion |
| `ListFacts` | lemmas about `Lists`, for the proofs |
| `Signals` | profiles, masking, providers, validation, plans and `investigate`, as operators |
| `GenericBuild` | `build_generic_index` by concurrent callers; EXTENDS `Signals` |
| `GenericBuildProofs` | proofs about `GenericBuild` and `investigate` |
| `Grouping` | the three groupings, as operators |
| `NavSearch` | `app/search` and the navigation tools, as operators over a tree and its documents; EXTENDS `Grouping` |
| `Baselines` | `run_rag`, `MemoryRag`, `find` and `count`; EXTENDS `NavSearch` |
| `NavMaintenance` | building and maintaining the tree and the chunks; EXTENDS `Baselines` and evaluates its operators in every state |
| `NavMaintenanceProofs` | proofs about `NavMaintenance` and `Grouping` |
| `GenericTools` | the tools over a saved index, its readers and the tool policy, as operators |
| `Transcript` | the message list and its compaction, as operators |
| `GenericSession` | indexing a database and asking it: composes `GenericTools` and `Transcript` with the steps of the session |
| `GenericSessionProofs` | proofs about `GenericSession`, its tools and its transcript |
| `MC...` | the finite instances |

How the parts meet: `AgentLoop` relies on `ToolScheduler` for the order of the
results of a batch (`ResultsInRequestOrder`); `GenericSession` relies on
`AgentLoop` for refusals, deadlines and batches and runs the calls of a turn one
after the other; it relies on `IndexStore` for a saved index that is read whole,
and takes the cards and plans of the index it builds as constants, since
`Grouping` and `GenericBuild` say what those are.

### IndexStore

One save per build id, each with a program counter `pc[b]`; any number of
saves and readers interleave. One action is one call to MongoDB, or one row of
an `insert_many` or `delete_many`, since these are not atomic over their rows.

| Code | Actions |
|---|---|
| `index_database` up to the save | `IndexDatabase` |
| `upgrade_vectors` | `UpgradeVectors`, `LoadCards` |
| `_reusable_vectors` (two finds) | `FindPrevious`, `ReadPrevious` |
| `embed_nav_nodes` | `Embed` (operator `Records`) |
| `insert_many` and the counts that follow | `PutVector(sEnd)`, `CheckVectors`, `PutCard(sEnd)`, `CheckCards` |
| `catalog.replace_one` | `Publish`; applied but raising: `PublishUnacknowledged` |
| `_drop_other_builds`, `_drop_build` | `DeleteCard(sEnd)`, `DeleteVector(sEnd)` |
| any exception inside / outside the `try` | `StageFails` / `CallRaises` |
| the process dies | `Crash` |
| `load_generic_bundle`, `_resolve_semantic` | `LoadCatalog`, `LoadBundleCards`, `LoadBundleVectors` |

A text stands for its own sha256. An embedding contract is a model value. A
provider that returns too few vectors or the wrong dimensions raises, which is
`StageFails`. A `find` of one collection and the set of rows a `delete_many`
selects are read in one step: rows inserted while it runs survive it. The group part of a saved index is card rows, the
collection nodes are rebuilt from the catalog row, as in the code.

Two constants name the environment: `Serial` (operators run at most one save
at a time; nothing in the code enforces it) and `LostAck` (a `replace_one` may
be applied and still raise).

### ToolScheduler

Coordinators (`Submit`, `SkipLate`, `Wait`, `TakeResult`, `TimeOut`), pool
threads (`Take`, `Acquire`, `Expire`, `StartHandler`, `HandlerEnds`) and the
clock (`Tick`). The pool's queue is first in, first out, as in
`ThreadPoolExecutor`. A future records when it was resolved. In the program
the semaphore has as many permits as the pool has threads; `run_bounded` also
accepts a semaphore of its own, and fewer permits than threads make the wait
for a permit happen on a small instance. A coordinator that timed out leaves
its call in the queue or with its thread: nothing is cancelled.

### AgentLoop

| Code (`agent_loop.py`) | Actions |
|---|---|
| head of the `while` | `TopOfLoop` |
| the model's reply | `ReplyText`, `ReplyEmpty`, `ReplyForced`, `ReplyCalls` (with `plan_calls`) |
| the calls of a turn | `DeferSubmit`, `Submit`, `RejectInvalid`, `Dispatch`, `RunBatch` |
| after them | `EndTurn`; synthesis, status and final save: `Finish` |
| an exception | `Raise` |
| the clock | `TimePasses` |

`Parallel` is mode "on"; modes "off" and "shadow" run the calls one by one (the
plan of "shadow" is only counted). The model may reply any sequence of at most
`MaxCalls` calls. A tool finds any references and documents or fails. Node ids
and namespaces are both references. An argument error the ledger does not
decide (an empty query, a forbidden operator) is rejected as an unknown
reference is. The turn counter is `session.agent_turns`. `refusedIn` and
`before` are history variables. The branch at `agent_loop.py:259-262` (already
forced and back at the head) is modelled and never taken: every forced reply
leaves the loop (`Budgeted` in the proofs). `run_bounded` appears as one step
`RunBatch` whose results are in request order, which is what
`ResultsInRequestOrder` establishes of the scheduler.

### AdaptiveLoop

| Code | Actions |
|---|---|
| the first search and `generate_hypothesis` | `Begin` |
| `should_stop` | `CheckStop` (the list `Rules`: budgets, contradictions, softer rules) |
| `pop_best` of an empty queue / `pop_best` and `_retrieve` | `PopNothing` / `Retrieve` |
| `extract_evidence`, `apply_extraction`, `identify_gaps` | `Extract` |
| `update_hypothesis`, `merge_claims`, the stability and gain counters | `Update` |
| the search for the first gap, `rerank_for_gaps` | `GapSearch` |
| `generate_answer` and the final status | `Answer` |

Scores are integers; diversity keeps its value of one over one plus the pops of
the collection, in sixths. What a search returns, what documents a node yields and
what the model replies are free.

### GenericBuild and Signals

A builder is one call of `build_generic_index` at a time: `Call` (cache, install),
one `Turn` per turn of the loop in `run_enabled`, `EndOfProviders` (validation and
plans), `Stage`, `Activate`, `Label` (name and cache), `Return`; `Rollback` may
come in anywhere. The registry, the cache and the book are module variables of
the code and shared. `PlansFitTheCaller`, `OnlyNamesDisclosed` and `ReceiptsHold`
evaluate the operators of `Signals` on every index a call may return, cached ones
returned for other documents of the same schema included. Where the code takes
the first of a list whose order means nothing, an operator gives the set of what
it may take.

### NavMaintenance, Grouping, NavSearch and Baselines

| Code | Actions |
|---|---|
| `build_hierarchy` | `EraseTree`, `Discover` (one collection each), `Collect` (one collection each), `Customers`, `InsertNode` |
| `rebuild_dirty_groups` | `FindDirty`, `ReadMembers`, `DeleteDirty` |
| `rebuild_rag_chunks_for_ids`, the chunk pass of `scripts/build_scale.py` | `EraseChunks`, `Chunk`, `InsertChunk` |
| `full_nav_rebuild` | a build; `Start` |
| anyone else | `EditSource`, `Crash` |

Every find, every deletion and every inserted row is a step. Terms are numbers in
the order of the alphabet, the logarithm of a frequency is a table of integers
(`Idf`), and a cosine is the percentage of its square, so that scores compare as
the floats do. Atlas ranks a text by how many of the words it holds; that ranking
is external. The chunks of a document carry the words of the whole document.
`MemoryRagHolds` looks at retrieval from memory once for each state of the
documents, which is all it reads.

### GenericSession, GenericTools and Transcript

| Code | Actions |
|---|---|
| `/ui/index`: `saved_index_summary`, `read_source`, the rest of `index_database` | `BuildIndex`; `ListSource`, `CountSource` per collection; `SaveIndex` |
| `/ui/ask`, `run_saved_generic` | `Ask`, `Load` |
| `run_agent` up to the loop | `Prompt` |
| `_tool_loop` | `TopOfLoop` (with `CompactMessages`), `ReplyCalls`, `ReplyText`, `Dispatch`, `Read` (one find each), `Record`, `EndTurn` |
| synthesis, citations and the end | `Finish` |
| writers of the database | `EditSource` |

`live` and `results` are history variables: what was in the database at some time
of the running call, and all along. An optional sidecar may object to a step it
hears of, which ends the ask (`Heard`). Sizes are weights: a document weighs
`DocumentWeight`, a node `NodeWeight`, and the caps of `context_compact.py` are
in that unit. A find is atomic. The finds that bind the related nodes of a
result are made at once, with the step that records it. Dates and the comparisons
`$gt`, `$gte`, `$lt` and `$lte` are left out; an empty reply and an answer
submitted by a tool call are `AgentLoop`'s.

## 3. Runs

| Run | Instance | Shows |
|---|---|---|
| `IndexStoreSerial` | 2 builds and a legacy one, a reader, one card and one collection node, 2 texts, 2 contracts, one save at a time | `TypeOK`, `ActiveIndexComplete`, `UnchangedCatalogMeansWhole`, `DoneSavesSweep`, `ImplementsPublishedIndex` under failures and crashes at every step |
| `IndexStoreConcurrent` | the same nodes, concurrent saves, lost acknowledgements | `ReadyVectorsMatch` |
| `ToolScheduler` | 2 batches of 2 calls, 2 threads, 1 permit, instants 0 and 1, handlers may hang | `TypeOK`, `ResultsInRequestOrder`, `DeadlineMeansLate`, `PermitsConserved`, `AbandonedCallsNeverStart`, `BatchesReturn`, `ThreadsComeBack` |
| `AgentLoopSerial` | 3 turns of up to 2 calls, synthesis | `ReadOrSeenRefusal`, `TurnBudget`, `StatusTellsHow`, `Ends` |
| `AgentLoopParallel` | 2 turns of up to 3 calls, batches of 2 | `TypeOK`, `AnsweredInOrder`, `NoStaleDraft`, `SiblingsBindNothing`, `ForcedReadsNothing` |
| `AdaptiveLoop` | 3 nodes, 2 claims, budgets of 3 rounds and reads, 2 searches and 1 document, 2 stable or idle rounds | `WithinBudgets`, `StopReasonHolds`, `ClaimsOnlyGain`, `CandidatesOnlyRise`, `Ends`, whatever the searches and the model reply |
| `GenericBuild` | 2 builders, 3 generations, 5 kinds of call over 3 databases, 8 providers | `BookHolds`, `ProvidersInOrder`, `PlansFitTheCaller`, `OnlyNamesDisclosed`, `ReceiptsHold` |
| `NavMaintenance` | 2 workers, 7 jobs, 7 documents of 2 tenants, a crash at any step, one edit, 2 questions | `BuildsRight`, `MaintenanceForgetsNothing` and `ChunksFollowDocuments` for a job that had the database to itself; `ReadsStayInside` in every state |
| `GenericSession` | 3 collections, 2 indexes or none, 11 replies, 2 turns and the forced one, one edit | `ReadsAccounted`, `HopsHold`, `TranscriptHolds`, `CitationsRead` |

Three more runs refute a sentence of the repository; the counterexamples are
behaviours of the code.

| Run | Refutes | Behaviour |
|---|---|---|
| `IndexStoreLostAck` | `store.py:111` "A failed build leaves the previous active catalog in place" | `replace_one` is applied, its acknowledgement is lost, the `except` branch deletes the rows of the build the catalog names |
| `IndexStoreTornLoad` | `MARE_Latency_Optimization_PRD.md:141` "loads one coherent generation" | a save publishes and sweeps between the finds of a load |
| `ToolSchedulerSiblings` | PRD:192 "A sibling failure or timeout leaves successful results available" | a finished future is not looked at once a slower sibling has used up the time |

The type invariants of `AdaptiveLoop`, `GenericBuild`, `GenericSession` and
`NavMaintenance` are theorems; the runs of these modules list the properties above
only.

### What the models show besides

Behaviours of the code that no sentence of the repository contradicts, and that a
maintainer should know:

* A save that sweeps beside another one deletes rows the other has counted already;
  the other then publishes a catalog row without its cards.
* Single and sequential calls of a turn are dispatched past the deadline; only
  batches and the head of the loop look at it.
* The adaptive loop saves `complete` when a critical contradiction is left and the
  queue is empty: `loop.py:216` looks at `stop` alone. `StopReasonHolds` names this
  case.
* Two builds of one tenant beside each other leave a mixture of both trees, and two
  chunk passes leave chunks twice; node ids do not contain the tenant.
  `BuildsRight` and `ChunksFollowDocuments` are therefore about jobs that ran alone.
* `rebuild_dirty_groups` deletes groups and returns their replacement; no caller in
  the repository inserts it.
* The lexical branch of `$rankFusion` ignores the scope, and names `search_text`, a
  field chunks do not have. A scoped search stays inside only because the vector
  branch raises on `parent_id`, so that the search falls back to rank fusion in
  Python (the mutant `VectorFiltersWithParent` shows it).
* The turns of `run_enabled` are bounded by `max(8, 4n)` for `n` names. Long chains of
  providers (six or more) listed in the reverse of their order use them up, and the
  rest is left out without a result. `ProvidersInOrder` claims completeness for
  up to four names only.
* The ids of cards, hops and scopes are texts, and Mongo compares types too. A document
  whose `_id` is a number is in no listed scope and is never found by id; a hop on a
  numeric key is offered and then finds nothing. `ReadsAccounted` claims nothing for
  these (`ById`, `Alike`), and `HopsHold` claims that a hop lists all its documents
  only where the plans that lead there compare keys of one kind (`Joins`).
* A hop lists eight documents at most and does not say that there are more.
* A short read whose surplus is deleted between the find and the count is taken for
  a complete one, and later reads leave what was listed.
* `_brief` drops the hints of a read even of the newest round; documents cut from the
  transcript are cited all the same.

### Bounds

* Two builds make a save, its predecessor and the legacy build coexist; a
  third contender needs no state the second does not have. Two texts make a
  node change; two contracts make reuse apply and not apply. The passing runs
  have one card and one collection node, so vectors are inserted and deleted one
  by one; the refuting runs have a second card, so card rows are too. The
  proofs have any number of both.
* Two batches on two threads make the calls of one ask occupy the pool of the
  other; two calls in a batch make a slow sibling; instants 0 and 1 make
  "before" and "at" a deadline (after it nothing new can happen, `Late` stays
  true), and a deadline of 0 a batch that starts late.
* Two turns are enough to refuse, to be seen and to resubmit, and to use a
  reference found in the turn before; the third is the forced one. Three calls
  make a sequential call or a submission beside a batch of two. One reference
  is known or unknown; the properties do not relate two of them. The proofs
  lift all of these bounds.
* In `AdaptiveLoop` a database, a collection below it and a group below that give a
  queue with a choice, children and a node without a collection, and one search is
  enough to reach all three. Three rounds and reads let stability and low gain (two
  rounds each) be reached before and together with the budgets; a search besides the
  first uses up that budget. A node yields no documents or two (`Batches`), so that
  the document budget of one is passed. A claim that is there and one the model adds
  make a material claim covered and contradicted at once; the model replies three of
  the four statuses, the fourth being what partial support gives. `MinPriority` lies
  between the priorities a candidate can have, so that a low one is not worth opening.
  Of the rules of `should_stop`, `max_loop_rounds` never fires here: each round that
  does not end the loop is a read, the two limits are equal, and reads are asked first.
* In `GenericBuild`, `MaxGenerations` = 3 is the least number that makes a failed
  generation, an active one and a previous one exist together. The calls are chosen
  so that the cache is hit by other documents of the same schema, a model invents a
  field, a collection and a route, two providers wait for each other, one needs a
  provider nobody enabled, and the judge raises.
* In `NavMaintenance`, two workers are the least that interleave (they are
  interchangeable: `SYMMETRY`), and one edit (`MaxEdits`) falls between any two steps
  of either. The tickets share words so that signatures, monthly splits, hash shards,
  splits by a term and medoids all occur; one is of another tenant, as is the log
  line, one is empty, one has no customer, and the edit gives this one a customer,
  removes it or adds a log line. `ChunkSize` 2 with an overlap of 1 gives texts of no,
  one, and several pieces.
* In `GenericSession`, one edit falls between any two finds of a call or of an
  indexing pass. A card of two members is too large to be prefetched
  (`PrefetchLimit` = 1), one of the customers is out of scope, an index may name a
  document that is gone, and the calls name known, unknown, large, empty and made-up
  nodes, filters that Python checks again and filters that are refused. The caps are
  small enough for raw bodies, the last round and older receipts each to be cut.
* `CHECK_DEADLOCK FALSE` is given where the instance has finitely many saves,
  batches, jobs, generations or asks and stops when they have ended.

### Fairness

* `ToolScheduler!FairSpec`: the clock advances and each coordinator and pool
  thread is scheduled (they are OS threads). Weak fairness is enough: a pool
  thread waiting for a permit is not promised to get one. Nothing is assumed of
  handlers, and callers need not start batches. `HandlersEnd`, that a handler
  ends some day (the drivers' own timeouts), is a hypothesis of `ThreadsComeBack`
  alone.
* `AgentLoop!FairSpec`: the one thread of the loop goes on; the model and the
  tools return or raise. `TimePasses` is not fair: `Ends` does not need the
  deadline, the budget of turns suffices.
* `AdaptiveLoop!Spec`: the same; nothing is assumed of time or of what the model
  says, the budget of rounds suffices.
* `IndexStore` and `NavMaintenance` have no liveness property: a save or a job may
  crash at every step. `GenericBuild` and `GenericSession` are specified without
  fairness: that an ask ends is `AgentLoop`'s matter.

## 4. Proofs

All theorems hold for every value of the constants under the named assumptions
of the modules (`IndexAssumption`, `ModelAssumption`, `StoreAssumption`,
`CatalogAssumption`, `SchedulerAssumption`, `LoopAssumption` of the agent's loop and
of the adaptive one, `BuildAssumption`, `CallAssumption`, `SignalsAssumption`,
`SessionAssumption`, `ToolsAssumption`, `TranscriptAssumption`, `GroupingAssumption`,
`MaintenanceAssumption`, `DocumentAssumption`, `TableAssumption`, `JobAssumption`,
`QuestionAssumption`, `SearchAssumption`).
These say what the configuration and the database give: limits are natural numbers,
ids are unique in a collection, cards, plans and replies are lists. TLC evaluates
them in every run. Of those of `NavMaintenance`: a chunk has a positive size, as
`build_scale.py` and the settings give it; a build names at least one collection and
each once, as `source_collections` does; a group size is positive; and the table
of weights has an entry for every number of documents a collection can reach. Readers
ask for 1 to 20 documents or nodes, which is what the tools clamp every request to,
with finitely many words, and name collections that exist, each once
(`QuestionAssumption`); the settings of the searches are natural numbers
(`SearchAssumption`). Of those of `GenericSession` (`SessionAssumption`): the cards made
of a collection are about it and the plans of an index lead to its collections
(`Coherent`), as `build_nav_nodes` and the planner make them; no card has the id of a
hop; an index without a reader covers the documents at hand; and a reply of the model is
a list of calls of the three tools with a limit that is a number (`IsCall`), since
anything else is refused before it reads (that is `AgentLoop`'s). `ToolsAssumption`
says that the order in which Python sorts ids is a list.

**`IndexStoreProofs`.** `TypeCorrect` rests on `Typed`: the types, that a
save being embedded has a contract, and that whoever follows a catalog row has
one. `ReadyVectorsAlwaysMatch`
holds without `Serial` and with lost acknowledgements. It is not inductive:
the status of a load is computed from rows other saves wrote, possibly reused
from earlier builds. `Provenance` adds where rows come from: every row of a
build, stored, in flight or held for reuse, is of that build's index and
contract; a build that has not decided its index has no rows and no catalog
row names it; every catalog row ever seen agrees with its build. Build ids are
not reused, so what was once known of a build stays true (`KnownStays`), also
for a reader in the middle of a load.

Under `Serial` and `~LostAck`, `SerialInv` adds: at
most one save runs (`Alone`), it is not the active build before it publishes
and is the active one after (`Roles`), what is to be inserted and what is
stored make up the whole (`Stored`), upgrades copy the active index
(`Sources`), and a save that has started its second delete has finished the
first (`Swept`). The counts before `replace_one` then imply equality, because
a build's rows are among the intended ones and nodes are unique. This gives
`ActiveIndexAlwaysComplete`, `FinishedSavesSweep` and
`StoreImplementsPublishedIndex`: `Publish` maps to the abstract `Publish`, every
other step to a stutter. The refuted sentences above show that neither
assumption can be dropped. `ReaderInv` adds what readers hold: nobody has seen the
row of a build that is not published (`Unseen`), and as long as the catalog is the
row a load began with, the rows it has read are all of that build's (`ReadWhole`).
Hence `UnchangedCatalogIsEnough`: a load that finds the catalog as it was needs no
further check.

**`AgentLoopProofs`.** `IInv` is `TypeOK` with one conjunct per piece of the
loop: `Replied` (answers against the cursor), `Gated` (the read gate and the
turn of the refusal), `Budgeted` (the loop never returns to its head once
forced), `Concluded` (status against the way out) and `Planned` (the plan is
that of the turn's first ledger). Each conjunct has its own step lemma. The
theorems `EveryCallAnswered`, `UnreadAnswerWasRefused`, `TurnsWithinBudget`,
`StatusIsTruthful` and `StaleDraftsDeferred` are its consequences, the action
properties `ForcedAsksOnlyConclude`, `RefusedInOneTurn` and
`ReferencesFromEarlierTurns` follow from it step by step.

**`ToolSchedulerProofs`.** `ResultsInRequestOrder` alone is not inductive: that a
slot agrees with its future needs that a future is set once, hence that no
two threads ever work on the same call. `IInv` therefore says where a call is:
not yet submitted (`Submitted`), in the queue and only once (`Queued`), with one
thread (`Worked`) or resolved (`Resolved`), in one place only; and what a batch
has collected (`Collected`). A call enters at `Submit`, where it is new
(`SubmitsNew`), and moves on with `Take` and with the end of its handler.
`PermitsStep` counts the holders of permits with the theorems on finite sets,
and the type of `permits` follows from it: a semaphore released too often or
acquired below zero would break the sum. The results are `TypeCorrect`,
`PermitsAlwaysConserved`, `ResultsAlwaysInOrder`, `NoEarlyDeadline` and
`AbandonedNeverStart`.

**`AdaptiveLoopProofs`.** `IInv` is `TypeOK` with `Frontier` (what is open has not
been read, and there are as many retrievals as nodes read), `Spending` (between a
look at the counters and the next one a round spends at most one of each; `Room` is
what `should_stop` leaves) and `Verdict` (what `should_stop` decided, read off the
list `Rules` by induction over it, still holds when the loop ends). `BudgetsHold` and
`StopReasonIsTrue` are its consequences. The two action properties rest on what the
operators do to one element: `ExtendRises` and `RerankRises` (no priority falls;
`NoCandidateSinks`), `SupportGains`, `ContradictGains` and `MergeGains` (no claim
loses evidence; `EvidenceAccumulates`).

**`GenericBuildProofs`.** `IInv` has one conjunct per concern. `Queued` follows
`run_enabled`: every enabled name is answered or waits, and the names at the tail of
the queue that were passed over since the last result are blocked, so that either
the whole queue is blocked or the turns are bounded by the results. This gives
`LoopKeepsOrder`, with the claim that up to four names are never cut off by the
bound on the turns. `Booked` says that whatever is active, previous, cached or about
to be activated has its status in the book (`OnlyActivatedInForce`), `Grounded`
that the plans of an index, cached or in hand, fit the schema they are cached for
(`PlansFitEveryCaller`), `Masking` what payloads hold (`OnlyNamesReachTheModel`).
`EveryReceiptHolds` is about the operator `Investigate`: the first of its stages
that finds anything answers (`InvestigateIs`), and every stage gives sound receipts
(`StagesAreSound`).

**`ListFacts`.** The induction theorems of the library take the property as an
operator, which none of the installed provers can instantiate. `Induction` here
takes it as the set of numbers that have it, and proves the step from the least
number that is missing (`Least`). The facts on lists follow: what `Picked` (hence a
filter or `dict.fromkeys`) returns keeps the order of its list and holds just the
elements picked (`PickedIs`, `PickedSet`, `UniqueIs`), and flattening a list of
lists by a fold gives a list (`FlattenedIs`). `ArrangedIs` says what Python's `sorted`
returns: the same elements, by falling score and by their old places where scores are
equal. For reciprocal rank fusion, `SumIs` and `SumLess` are about sums over the
rankings, and `FusedLess` says that what comes first in every ranking scores more. That
holds of the code's fractions; the model adds them up in millionths, or for long lists in
units so fine that the last two ranks still differ.

**`GenericSessionProofs`.** The first half is about operators: every tool returns a
result whose parts are lists (`ResultIs`), and `CompactMessages` returns a transcript
of the same roles, ids and calls in which each body begins as the old one did
(`ShortensKeeps`, `ShortensTells`) and is within its cap, since what is a receipt
already is only cut again (`SecondReceipt`). The invariant then need not know how
often it was shortened. `TranscriptInv` says: the ids of a call are its turn and its
place, so no two are the same (`Numbered`, `Different`); a tool message stands in the
block behind its assistant message at the place of its call (`Answering`,
`Answered`); before the model is asked all turns are closed, and during a turn all
but the last (`AllClosed`, `OpenAt`); each result has its tool message, which shows
how its documents begin (`Told`). `TranscriptIsWhole` counts the answers from that.
`GatheredInv` keeps the gathered list equal to the union of the results, and
`FinishCites` follows it through `_dedupe`, `_merge` and `_prefer_cited` to
`CitesWhatWasRead`. The remaining conjuncts say that the source holds storable
documents with unique ids (`SourceInv`), that the index made from what is listed is
made of lists (`FoundInv`, `IndexInv`), and where the cursors of a turn are
(`CallInv`, `TurnInv`). They are needed because the index of an ask may have been
built while the source was edited.

`ReadsAccounted` compares a result with the database over the time of the call, and
each find sees another state of it. `ReadInv` therefore carries what a find saw on to
the end. The source lies between what was always there and what was ever there
(`Spans`). `Reading` says for each tool that what was read so far was there and
permitted, and that what was there all along has been read or is still to be read; it
names the cap and the hints as the only reasons to have left it out. An edit widens
`live.ever` and narrows `live.always`, so that both halves stay true (`LaterReading`).
`OfferInv` says that ids in the ledger are nodes of the index or hops to its
collections, which is why validated calls never leave the index; with calls that are
not validated a made-up hop may, and the property says so. `ScopeInv` and `ShortInv`
follow an index from the read it was made of: its scope keeps just the ids that a short
read listed.

The lemmas below say what the operators do: `RowsAre` what a find returns of the
documents of that moment, under the filter the database evaluates and the one Python
checks again; `AddIs` how rows join a capped result; `ReadNodeIs` and `NamedReadsIs` what
reading a node and looking up named ids add; `RelatedIs` what binds a hop and what it
lists. One lemma per tool makes a step of `Read` of them (`SearchStep`, `RetrieveStep`,
`QueryStep`). At `Record` nothing is left to be read or the cap is reached, and the two
halves become `SoundRead` (`ReadIsSound`) and `CompleteRead` (`ReadIsComplete`):
`ReadsAreAccounted`. The hops are bound in that step, of the origins the result shows,
and `RelatedHold` gives `HopsAreBound`.

**`NavMaintenanceProofs`.** The invariant grows by concern. `Control` says where a
worker is and what it holds there, and that a worker which is alone is the only one
running; `Documents` that every collection is a list of documents with unique ids,
whatever is edited. `ChunksInv` follows a chunk pass that is alone: what is stale has
been erased, and what is stored and what is left of its batch make up the chunks of
the documents it is about, each once; the pieces of a text cover it by an induction
from its end (`Chopped`). This gives `ChunkPassesFollowDocuments`. `DirtyInv` does
the same for a rebuild of dirty groups: which groups are gone, and that the new ones
are a partition of the documents read (`RebuildsForgetNothing`). The property speaks
of the changed documents where it forbids an old group: another member of a deleted
group may well be in a group that is left, since two builds that ran at once leave
overlapping groups.

`BuildInv` follows a build that is alone through its stages: the tree of the tenant is
empty while it plans, its batch is the root and a branch per collection done so far,
and from then on what is inserted and what is left of the batch make up the whole tree
(`Whole`). `insert_many` writes all of it only if ids are unique, which is why the
keys of groups have to be told apart (`GroupsForWell`). What a whole tree is like is
then a matter of the operators: `TopicalPartition` and `SemanticPartition`, and for
entities the lemmas beside them, say that each document to be grouped is selected by one
group and that groups count right. For `semantic` this goes from the buckets of the medoids (cosines are natural
numbers, so a closest medoid exists) over the recursion of `_recursive_split`, by
induction on the levels left, to the merge of the smallest leaves, which permutes its
list (`ArrangedIs`) and unites two. `BuildsAreRight` is the consequence. Where two guards of
the code overlap the first is taken, so the models say IF and ELSE IF: with CASE a
proof could not tell which branch is meant.

`ReadersStayInside` is about readers, who come at any moment: in the middle of a build,
after a worker died, between two edits. They do not need a whole tree. `ReadersInv`
says of every node, stored or planned by any build, alone or not, that it is fit to be
read (`WellNode`), and what every build has at its place (`Sound`); it is preserved by
every step. What follows is about the operators. A search returns part of what it was given
(`SearchInside`, `RelatedFrom`). `retrieve_evidence` reads one node after the other: an
induction over the nodes asked for (`AllRead`) keeps `Progress` (documents that exist
and are the tenant's, each once, no more than the cap) and `Answered` (each node so far has
contributed or is missing). `QueriesHold` compares a query with the plain find,
`RagHolds` bounds the citations, and `FusedFirst` says that a chunk put before another
by the fusion is before it in one of the rankings (`MemoryRetrievalHolds`).

**Only model-checked:** the liveness properties (`Ends`, `BatchesReturn`,
`ThreadsComeBack`), which are out of the prover's reach. Every invariant and action
property of a passing run, and the refinement, is a theorem.

## 5. Plan

Every safety property that a run checks is proved, so that what is left is to model
more:

1. Dates and the comparisons `$gt`, `$gte`, `$lt`, `$lte` of `query_documents`. The
   completeness of a query is claimed for filters of equalities, where Python refuses
   nothing the database lets through (`Exact`); comparisons would need the same.
2. The three hazards of `agent_loop.py` without a property (single calls past the
   deadline, a failed read that opens the gate, a session left `running` when the loop
   raises): the models contain them, and `PROJECT.json` says why no property does.

## 6. Not modelled

* Wording: prompts, summaries, explanations, the text of receipts; traces, token
  counting and timing figures; the page of the UI, `/ui/connect`, the MCP server.
* The model and the embedder, which may reply anything; embeddings as numbers; how
  Atlas ranks; creating search indexes and waiting for them.
* Dates and comparisons in filters, nested fields beyond one level.
* The service behind the sidecar, `trigger_gc` and the generated stubs.
* Data generation, evaluation and comparison scripts: programs around the system,
  with no state that outlives a run. Of `scripts/build_scale.py` the chunk pass is
  modelled.

`PROJECT.json` ("components") gives the reason for each part.

## 7. Running

    tlc -config IndexStoreSerial.cfg MCIndexStore.tla
    tlc -config ToolScheduler.cfg ToolScheduler.tla
    tlc -config AgentLoopSerial.cfg AgentLoop.tla
    tlc -config AdaptiveLoop.cfg MCAdaptiveLoop.tla
    tlc -config GenericBuild.cfg MCGenericBuild.tla
    tlc -config NavMaintenance.cfg MCNavMaintenance.tla
    tlc -config GenericSession.cfg MCGenericSession.tla
    tlapm AdaptiveLoopProofs.tla
    tlapm AgentLoopProofs.tla
    tlapm GenericBuildProofs.tla
    tlapm GenericSessionProofs.tla
    tlapm IndexStoreProofs.tla
    tlapm ListFacts.tla
    tlapm NavMaintenanceProofs.tla
    tlapm ToolSchedulerProofs.tla

Each module holds, before the definition concerned, an operator commented as a
mutant: a plausible wrong version of that step, under which the property named
beside it in `PROJECT.json` fails.
