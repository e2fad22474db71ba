# ConspectAI: a verification development

ConspectAI is a FastAPI service (Python, `src/backend/`) for studying with a
language model: users chat with Gemini, attach files, build courses of
documents that answers are grounded in, and pay for it with the quota of a
subscription. All state is in PostgreSQL (asyncpg), with Redis as an optional
cache; two uvicorn workers run the same code, each a single asyncio event loop.
Inside a worker control changes hands at every `await`; between workers it may
change at any statement. The database works in READ COMMITTED.

Paths below are relative to `src/backend/`.

## 1. Inventory

| Component | State | Operations | What is hard | What makes it correct | Module |
|---|---|---|---|---|---|
| **Quota** `app/middleware/quota.py`, `app/repositories/oltp/usage.py`, `app/repositories/olap/request_metrics.py` | per user three resettable counters (day, week, month); per request a log row with a status and the periods it was charged in | reserve, deny, refund, metrics event, plan change, user deletion | transactions whose date precedes their lock wait; refunds of old periods; refund and event both write the status; crash between reservation and settlement | counters equal what the logs account for; admission and refusal respect the plan; settlement is final; every charge is settled | `Quota`, `QuotaLedger` |
| **Ingestion** `rag.py`, `app/services/rag_service.py`, `app/repositories/oltp/rag_ingestion.py`, `rag_routes.py`, `app/domain/rag/schema.py` | documents with a status, chunks and images shared by content, links between them | upload (course, public, chat, URL), the ingestion task, deletion of document, course, user | find-then-upsert across an embedding call; deletion during a task; content shared by documents with different owners; worker death | a ready document is completely stored; no row without its document; links are grounded; counts are bounded; tasks end, and what they leave unsaid is known | `Ingestion`, `ContentStore` |
| **Chat turn** `app/services/ai_chat_service.py`, `app/api/routes/chats.py` | chats, messages, the chat's course | send message: load, block check, history, save, ingest, answer, save, title, background tasks | concurrent turns of one chat; deletion and blocking in the middle; automatic course creation | exchanges in order; a kept charge has an answer; rows go together | `Conversation`, `Dialogue` |
| **History** `app/rag/history.py` | one summary per chat | trim to a budget, summarise in the background | concurrent summary tasks; where older messages are inserted; three budgets | what the model gets is the recent end of the chat, within the budget, in order | `Conversation`, `History` |
| **Retrieval and caches** `rag.py`, `app/rag/cache_manager.py`, `app/repositories/oltp/rag_cache.py`, `rag_retrieval.py` | per-process LRU, Redis, PostgreSQL | embed, retrieve, answer | late writes, promotions, evictions, restarts; invalidation that is never called; scopes of several courses | an answer fits its question and its chunks; results stay in scope; tables stay bounded | `Answers`, `AnswerService`, `Conversation` |
| **Context** `app/rag/context.py` | none | pack ranked chunks, cut excerpts | sizes rounded piece by piece | the context keeps its budget but for the rounding of one excerpt | `Context` |
| **Courses and documents** `app/services/rag_service.py`, `app/repositories/oltp/rag_routes.py`, `rag_retrieval.py` | courses, documents, `chats.course_id` | create, delete, file, link, list, search | check of a course, then a write that names it; courses deleted with documents left | no dangling course; nobody reaches another's private documents | `Courses` |
| **Mindmaps** `app/services/mindmap_service.py`, `mindmap_generation_service.py` | one map per chat | regenerate after an answer or on demand | read, model call, write | a map is of its chat, and goes with it | `Mindmap` |
| **File store** `storage.py`, `app/services/file_service.py`, `app/repositories/oltp/files.py` | files by content, their rows | store, register, read | existence test against a running write; full disk; two paths and one row | a registered file can be read, and is whole unless a write was torn off | `FileStore` |
| **Accounts** `app/services/auth_service.py`, `app/api/dependencies.py`, `app/services/admin_user_service.py`, `app/api/routes/admin.py` | users, tokens | register, log in, block, promote, revoke, delete | check then insert; check then command | unique names; the last administrator | `Accounts` |
| **Feedback** `app/api/routes/feedback.py`, `app/repositories/oltp/feedback.py`, `app/rag/tracer.py` | traces, signals | trace an answer, send a signal | the trace and its sender go at different times | a signal is about a trace of its sender | `Feedback` |
| **Events** `app/events/` | in-memory tasks | publish, handle | swallowed exceptions, process death | what is logged is logged once | `Quota` |
| **Database** `app/db/`, `db.py` | pool, schema | acquire, transaction, initialise | lock order | nobody waits for ever | not modelled |
| **Analytics, reports, billing, pages** | append-only rows, price tables | read, append, clean up | little | little | not modelled |

The parts meet in the database. The quota middleware wraps the chat turn; the
turn stores files, creates a course, starts ingestion, retrieves, answers, and
leaves mindmap, summary, cache writes and metrics to background tasks; ingestion
fills what retrieval reads; deleting a user cascades through every table.

## 2. Plan

The order was that of consequence: money, then the shared store, then the turn
that uses both, then what surrounds them.

1. `QuotaLedger` (what the quota promises), `Quota` (what the code does), their
   refinement, proofs. Done.
2. `Ingestion`, its runs and proofs. Done.
3. `Conversation`: concurrent turns, course creation, retrieval and its cache,
   deletions, summary tasks; proofs. Done.
4. `Answers` (the three cache levels) with its proofs; `Context` (packing) and
   `History` (trimming), two pure algorithms evaluated on the states of the
   modules they extend. Done.
5. `Accounts`, `FileStore`, `Mindmap`, `Courses`, `Feedback`, and `Workspace`,
   which composes them under authorisation and cascading deletion; proofs. Done.
6. An abstract specification for each of the other parts that are shared by
   concurrent tasks: `ContentStore` (implemented by `Ingestion`), `Dialogue`
   (`Conversation`), `AnswerService` (`Answers`); the refinements; the bounds that
   are sums and folds over data of any size (`SourcesBounded`, `HistoryIsWindow`,
   `ContextBounded`), on `FoldLemmas`. Done.
7. Left: the splitter `split_text` against a reference definition; the order of row
   locks inside a transaction; what the parts of `Workspace` promise, as abstract
   specifications of their own.

## 3. Modules

| Module | Content |
|---|---|
| `QuotaLedger` | abstract: charges held and kept, the room they leave |
| `Quota` | the middleware and its three transactions; properties; the inductive invariant |
| `QuotaProofs`, `QuotaRefinement` | theorems of `Quota`; `Quota` implements `QuotaLedger` |
| `ContentStore` | abstract: documents that share equal chunks and pictures |
| `Ingestion`, `IngestionProofs` | uploads, the ingestion task, deletions; `Ingestion` implements `ContentStore` |
| `Dialogue` | abstract: what is said in a chat, and who has been answered |
| `Conversation`, `ConversationProofs` | the turns of one chat, its course, the retrieval cache, its summary; `Conversation` implements `Dialogue` |
| `History`, `HistoryProofs` | EXTENDS `Conversation`: what of the messages a turn has read goes to the model |
| `AnswerService` | abstract: the model's answers, and who may be given which |
| `Answers`, `AnswersProofs` | `rag_query` and the caches of embeddings and answers; `Answers` implements `AnswerService` |
| `Context` | EXTENDS `Answers`: how the ranked chunks are packed (its theorem is in `AnswersProofs`) |
| `FoldLemmas` | induction and sums, for sets of any finite size |
| `Accounts`, `FileStore`, `Mindmap`, `Courses`, `Feedback` | one component each: state, operations, properties, invariant |
| `Workspace`, `WorkspaceProofs` | EXTENDS those five: requests of authorised users, what follows from deleting one |
| `MCQuota`, `MCIngestion`, `MCConversation`, `MCAnswers`, `MCWorkspace` | the small instances |

A component of `Workspace` (`Accounts` to `Feedback`) defines actions on its own
variables only; `Workspace` joins them into requests. Operators written "Plausible
bug first" are mutated forms of the definition after them, kept beside it to show
that the property concerned notices.

### Quota

`start` and `used` are the columns of `user_usage`, `status` and `period` those
of `request_logs`, `activity` the sum of a user's `user_activity_daily` rows;
`pc` is the position of `subscription_quota_middleware` and `event` the
in-memory metrics event. A transaction is one action, since the lock on the
user's row serialises it, with one exception that matters: `CURRENT_DATE` and
the plan read by the statement's snapshot belong to the time before the lock
wait. So `Begin` fixes `txDate` and `txPlan`, and `Reserve`, `Deny` or
`Unknown` happen when the lock is granted. `Refund` is
`fail_and_refund_request`; an exception is refunded and then published, a
response of 400 and above only refunded. `Abandon` is a worker's death or a
cancellation, `LoseEvent` an event that dies with its process or whose handler
raises because the user is gone. `MidnightRace` and `Faults` switch the two
sources of trouble on and off, so that each result says what it depends on.

Not in the model: token, cost and model columns of the log, the request's
path, the answer's quota headers.

### Ingestion

`status` and `course` are columns of `rag_documents`; `holder` and `sources`
are `rag_chunks.document_id` and `source_count` by content, `shown` is
`rag_images.document_id` by hash, `links` is `rag_chunk_images`. `pc`, `known`,
`ids`, `todo` and `image` are the locals of `ingest_document`. A row's id is
the pair of its content and the document that inserted it: a document inserts a
content at most once, so a row that was deleted and inserted again by another
document has another id, as in the database. `Text[s]` is the list of chunks
`split_text` makes of a source, repetitions included. Each statement or
transaction is an action, with two reductions: linking a picture to all its
chunks is one action (each link is inserted or skipped on its own, nothing else
writes links, and a row deleted in between takes its links along), and
`DeleteDocument` is the SELECT and the DELETE of one id. `Fail` is the `except`
branch, taken from any step of the `try`: an unreadable file, an empty text, a
failing model call, a foreign key, a deadlock broken by PostgreSQL. Two statements
that write the status lie outside the `try`: the first one (`rag.py:339`) and the one
in the `except` (`rag.py:467-469`). When one of them raises, the task ends without a
word in its row, which stays pending or indexing; the stage "silent" stands for this
and for a process that stops. `Cascade`
is what `ON DELETE` does. Deleting a course sets its documents' course to null
(`schema.py:161-163`).

`ContentStore` sees the same rows without tasks: "pending" and "indexing" are its
"work", an upsert is its `TakeChunks`, `MarkReady` its `Finish`, which demands a
complete document. A link may be written after its document's deletion, between
rows that other documents hold; the code does so, and `Link` allows it.

Not in the model: embeddings, captions, full-text vectors and token counts
(payload), progress fields, the files the pictures are written to, the order of pictures
(a set), and lists of chunks and embeddings of unequal length, which the code pairs up
to the shorter.

### Conversation

One chat of one user. `user`, `chat`, `messages`, `course` (`chats.course_id`)
and `courses` are rows, `doc[t]` is the course of the ready document made of the
files of turn `t`, `summary` is `message_count` of the chat's summary. `pc[t]`
is the position of `send_message`; `seen`, `linked` and `auto` are the locals
that outlive an await: the length of `history_rows`, `chat["course_id"]` as read
at the start, and `auto_course`. `found[t]` is what a retrieval brought the turn,
by the turns whose files were in scope. Each statement of the turn is an action,
and so is each of the summary task (`task[t]`), since no transaction spans two
of them. A turn may create one course, so its name is also that course's name.

`EnsureFails` is the `except` around the ingestion of attachments, which swallows
everything; `Raise` is any other error, a 500 that the quota refunds. A cached
retrieval is an entry per scope, for the one question that the turns in `Repeats`
ask in the same words; `StoreSearch` is the task that writes it and `ExpireSearch`
its end, be it time or a Redis that fails. The thresholds (6 recent messages, 10
fresh ones, every 10th question) are `Kept`, `Fresh` and `Every`; the threshold
in tokens is a nondeterministic choice.

Two reductions: `IngestFiles` is one action for an ingestion that is awaited
(Ingestion has its steps), and `Relink` is the access check and the update, to none or
to a course the user has: one of `Offered`, or one that a turn created.
`Search` stands for the documents a search may look at; ranking them is data.

`Dialogue` sees the chat without stages: its log is `messages`, a turn has returned
when `pc` is "ok", deletion closes it. The response of a turn whose chat was deleted
after it saved its answer is still sent, hence the condition in `Return`.

Not in the model: the text of messages, parts and prompts, prices, the global
knowledge base (no attachment is public). Trimming is in `History`, the caches of
embeddings and answers in `Answers`, the mindmap in `Mindmap`.

### Answers, Context

`question` and `worker` are a call of `rag_query`, `pc` its position between
awaits, `vec`, `ranked` and `answer` its locals. `local[w]` is `_l1` of a worker's
`ThreeLayerCacheManager`, `shared` Redis, `rows` the two tables of the database,
and `jobs` the writes left to `asyncio.create_task`. What lies between two awaits
is one action, so `Rank` also looks into level 1, which needs no await. An entry of
level 1 or 2 may be gone at any look (`Forget`, and the second disjunct of each
look): lifetimes, other keys and Redis itself decide. What a request finds in
Redis or in the database it puts into level 1, with an eviction (`Remember`).

An embedding is `"vector"` or `"text"`: no codec is registered for the column type,
so what level 3 returns is the text of the vector (`FromRow`), and `to_pgvector`
refuses it (`RejectEmbedding`). A ranking is a sequence of chunk hashes; the key of
an answer is its question with the *set* of them, since the code sorts. An answer
is named by the request it was generated for.

`AnswerService` has neither levels nor tasks: the context of a request is the set of
its ranked chunks, and an answer is generated for it or is the one that the model gave
to a request with the same question and the same set.

`Context` packs `ranked` as `ContextBuilder.build` does, in bytes: a token is six
bytes, rounded down. Retrieved chunks carry neither `token_count` nor
`importance_hint`, and the scores stay below the threshold that forbids an excerpt,
so that what decides is the room left. The reranker's scores themselves are data.

### History

`Trimmed(n)` is `get_trimmed_history` of a turn that has read `n` messages, with the
summary of that moment; a history is a sequence of positions. `InsertOlder` is the
insertion of history.py:77 as it is written.

### Accounts, FileStore, Mindmap, Courses, Feedback, Workspace

*Accounts*: `session` is the position of a registration or login between its
statements, `command` a command whose sender has passed `require_admin`. The unique
indexes are the test in `InsertUser`. A registration whose answer fails
(`AnswerSession`) leaves its account.

*FileStore*: `disk` is what lies under a path, `upload` the position of an upload,
`late` the writers whose file another has truncated since, `file` the rows. The
handlers of one worker run `store_file` to its end (`Busy`); other workers come in
between its system calls. `StopWorker` and `WriteFails` leave a torn file.

*Mindmap*: messages are positions, a map the set of messages its branches come from,
`seen` and `base` what a regeneration has read before it asks the model. `Drafts` is
what the model may return: any branches out of what it was given, since nothing checks
that it keeps them all, as the prompt tells it to.

*Courses*: `filing` and `linking` are requests between their check and their write.
`RemoveRows` is what `ON DELETE SET NULL` and the deletions do. `Listed`,
`Illustrated` and `Searched` are the three ways to see a document. A document counts
from its insertion on, as if it were ready at once.

*Feedback*: traces without a foreign key to users, signals with one.

*Workspace*: every request but registration and login needs an authorised user at
its first step and never looks again. `Execute` is a command with its cascade.
A request is one of at most `MaxRequests`; every handler may be interleaved with
every other at its awaits. Ingestion, turns and quota have modules of their own and
appear here only by the rows they write: `AddMessage`, `InsertDocument`, `RecordTrace`.

Not in these models: passwords and the expiry of tokens, titles, models and
templates of chats, the content of maps and files, `ref_count`, `update_course`, and
`/api/files/{sha256}/raw`, which gives a file to whoever asks for its hash and is no part
of `Reach`.

## 4. Runs

| Run | Instance | Shows |
|---|---|---|
| `quota_core` | 1 user, 3 requests, 2 plans, 3 days, faults | `CountersExact`, `ActivityAgrees`, `AdmittedWithinPlan`, `RefusedForAReason`, `SettlementIsFinal`, the refinement `ImplementsLedger`, and `ExactInv` |
| `quota_live` | 2 users, 2 requests, 2 plans, midnight inside reservations, no faults, fair | `NoOvercharge`, `PendingHasOwner`, `ChargesAreSettled` |
| `quota_overrun` | 3 requests, midnight inside reservations | counterexample to `AdmittedWithinPlan` |
| `ingest_core` | 3 uploads, 2 sources that share a chunk, 2 users, 1 course, worker death, fair | `ReadyIsComplete`, `NoOrphanRows`, `LinksAreGrounded`, `SourcesBounded`, `HoldersNeverMove`, `IngestionsEnd`, the refinement `ImplementsStore`, and `IngestInv` |
| `ingest_attach` | 2 uploads of one text, for 2 courses | counterexample to `AttachmentsParticipate` |
| `chat_core` | 2 turns that ask the same, one with files, links that change, two earlier exchanges, a summary task of each turn | `ExchangeInOrder`, `KeptChargeHasAnswer`, `SummaryLeavesRecent`, `FoundWithinScope`, `SearchFindsAttachment`, `HistoryIsWindow`, the refinement `ImplementsDialogue`, and `ConvInv` (with `RowsStayTogether`) |
| `chat_link` | 2 turns with files, no course at first | counterexample to `FilesStayWithChat` |
| `chat_cache` | 2 turns that ask the same, the second with files | counterexample to `AttachmentsAreRetrieved` |
| `chat_history` | 2 turns in a chat with three earlier exchanges | counterexample to `HistoryInOrder` |
| `rag_core` | 2 requests in any of 2 workers, 3 rankings, tables of 2 entries, restarts | `AnswerFitsQuestion`, `OnlyRepetitionsFail`, `ContextBounded`, the refinement `ImplementsService`, and `AnswersInv` (with `LocalBounded`); the assumption `ExcerptMayOverrun`, that the budget is no hard limit |
| `rag_embedding` | the same | counterexample to `EmbeddingsAreVectors` |
| `workspace_core` | 2 administrators, 2 registrations of one name, a login, 2 commands, 3 uploads of the same bytes in 2 workers, 2 chats, 3 courses, 2 documents, 2 regenerations, feedback; any 3 requests | `LastAdminFallsToARace`, `RowHasItsPath`, `WholeUnlessTorn`, `MapCoversItsChat`, `ReachIsPermitted`, `OwnersExist`, and `WorkspaceInv` (with `UniqueAccounts` and `NamedCoursesExist`) |

Bounds. *Quota.* Three days suffice for a day and a week to end while the month
goes on; `MCStartOf` puts days 1 and 2 in one new week. The limits are such that a
day, a week or the month may each be the one that is full, and that a remainder
below one request's cost is left over. Three requests are needed for a charge of
the old day, one of the new and the one that is admitted wrongly or rightly.
*Ingestion.* Three documents are the fewest with a duplicate, an overlap and a
bystander; one text repeats a chunk, so that an upsert conflicts with itself. The chat's files go
to the course of the first upload, so that the search for a duplicate may find one;
what two courses add is for `ingest_attach` to show.
*Conversation.* Two turns make every race between turns, and with one of them
without files they differ in all that matters to retrieval; `Kept` = 2 with two earlier exchanges
lets a summary be written between two turns and during one, and with `Every` = 1 both
turns start a summary task, so that the later one may move the prefix back. For the
time the run takes, `chat_core` offers no course besides those that turns create;
`chat_cache` does, and the theorems hold for any. A question takes 10 tokens and an answer 40, so that with a budget of
100 the recent exchange and part of an older one fit, with or without the summary;
the counterexample needs room for two older messages. *Answers.* One request that
fills the caches and one that finds them; a table of two entries is full with the
embedding and the answer of one question, so the next insertion evicts. One request asks the only
question that is not small talk, or both do: that an answer fits its *question*
rests on the theorem `AnswersFit`, that it fits its chunks is exercised. The two
rankings have the same chunks in different order; the sizes make one chunk an
excerpt whose sentences round down. *Workspace.* Every race named above is between
at most three requests: two to race, and one that prepares or removes what they
race for. Requests that are alike are symmetric where the cfg says so.

What the bounds leave out is covered by the proofs, which have none: the safety
invariants of all five state machines, their action properties and the four
refinements are proved for any number of requests, turns, documents and workers.

Fairness. Weak fairness only for what the event loop and the database run by
themselves: the decision about an open reservation, the answer (the model call
returns or raises), refund and publication, the event handler, and the steps of
a started ingestion. Users, administrators and the clock owe nothing, and no
fairness is assumed for a dead worker. `IngestionsEnd` says that a started ingestion
ends ready or in error, unless it ends in silence: its process stopped, or one of the
two status statements outside the `try` raised. `Answer` being fair means that the call
to Gemini ends. The code sets no timeout of its own; the client library's does.
The other modules state no liveness: their background tasks may be lost with their
process at any step, and nothing in the code promises that a map, a trace, a cache
entry or a summary is ever written.

Deadlock is not checked: every finite set of requests or uploads ends in a state
where nothing more is to do.

## 5. Findings

* **A day's quota can be overrun at midnight** (`quota_overrun`). `CURRENT_DATE` is
  the date of BEGIN, the counters are those after the lock wait
  (`usage.py:66-113`). A transaction of the old day that gets the lock after one
  of the new day has reset the day's counter sees another `day_start` than its own
  date, takes its day for unused, is admitted (4 units of 3 in the run), and writes
  the period starts back.
* **An attachment may not be found** (`ingest_attach`). Retrieval selects chunks
  by the document that inserted them; a text that another private course has
  stored stays with that course, although the attachment is ready
  (`rag.py:821-823` promises participation).
* **Concurrent turns lose the chat's files** (`chat_link`). The automatic course
  is read, created and linked in three statements; of two turns the second takes
  the chat away from the course that holds the first one's files
  (`rag.py:822-839`).
* **A cached retrieval hides a new attachment** (`chat_cache`). The invalidation
  that `cache_manager.py:113` documents is never called, so a repeated question
  is answered without the file attached to it, for up to five minutes. (Its key
  pattern would also miss the scopes of more than one course.)
* **Older messages reach the model in reverse** (`chat_history`). Each older message
  is inserted at the end of what has been kept, newest first (`history.py:74-80`);
  with a summary the first of them even precedes it.
* **An embedding from the database is unusable** (`rag_embedding`). The column comes
  back as text, `list()` makes characters of it (`rag_cache.py:22`), levels 1 and 2
  take it over, and a repeated question fails in `to_pgvector` until both have
  forgotten the embedding, and the next look at level 3 brings it back.
* **The context budget is no hard limit** (`rag_core`, which evaluates the assumption
  `ExcerptMayOverrun` of `MCAnswers`). `rag.py:78` calls 3000 tokens a "hard limit on
  context sent to LLM", but nothing reads that constant, and an excerpt, chosen by the
  sum of its sentences' tokens, each rounded down, may take more than the room left
  once it is joined (`context.py:97-101`, `127-138`): 3001 of 3000. Headings and
  blank lines are sent and not counted at all. `ContextBounded` is the bound that
  holds of what the builder counts.

Met while modelling, and not the subject of a run:

* A plan change during the lock wait makes the joined SELECT return no row;
  `user_or_plan_not_found` is answered as `quota_exceeded` (`usage.py:67-78`,
  `quota.py:41`). `RefusedForAReason` names this case.
* The chunks that a new document shares with stored ones are counted by neither of
  the two paths that increase `source_count` (`rag.py:402-404`), unless all are known.
* The key of an answer ignores the order of the chunks, while the answer may cite
  "[Material N]", which counts them in order (`rag.py:515-519`, `context.py:97`).
* `chunk_index` 0 is taken for missing by the reranker's position bonus
  (`context.py:42`); `MAX_CTX_TOKENS` (`rag.py:78`) and `cleanup_answer_cache`
  (`rag.py:809`) are used by nothing.
* `rag.py:805` says that deleting a course cascades to its documents and to chunks "if
  orphaned". The foreign key sets the documents' course to null, and no route lists or
  deletes them afterwards; and a chunk goes with the document that inserted it, though
  others share it (`schema.py:43`). `ReadyIsComplete` excepts what was lost that way.
* Of two regenerations of a mindmap that read the same map, the later save drops the
  branches the earlier one added, and nothing checks that the model keeps any, though
  its prompt says "Preserve existing branches" (`model_catalog.py:214`).
* A document whose task ended in silence (section 3, Ingestion) is pending or indexing
  for ever; nothing looks for such documents (`rag.py:339`, `467-469`).
* Pictures of public courses and of the global knowledge base are found by every
  search and opened by the course's teacher only (`rag_routes.py:218-237`). A document
  attached to a chat on another's public course is listed by nobody, and found by
  everyone who searches that course, though `rag.py:822` says "Ensure chat has a linked
  private course": any linked course is taken (`rag.py:830-839`). `ReachIsPermitted`
  permits it as a document of a public course.
* `ref_count` never falls, though `storage.py:10` says "on delete we decrement and GC if
  0": `release` and `delete_file_if_unreferenced` are called by nothing. `stored_size` may be that of a
  half-written file (`storage.py:58`).
* A registration whose usage snapshot fails answers 500 although the account exists;
  the retry gets a 409. A blocked administrator still administers.

## 6. Proofs

All theorems hold for every value of the constants that satisfies the named
assumptions. Those of `Quota` say that the calendar is monotone, limits are
naturals, a request costs something and requests are finitely many; those of
`Ingestion` that null values are distinct from ids, that uploads are well typed
with public uploads the only ones without a course, and that texts are
non-empty sequences of chunks; those of `Answers` that requests, embeddings and
"nothing" are distinct, that rankings are sequences and that tables have room for an
entry; those of `History` and `Context` that sizes and budgets are naturals (the least
excerpt a positive one); those of `Workspace` that owners are users, ids of different
kinds do not collide, founders differ, and uploads are finitely many.

* `QuotaProofs`. `SafeInv` is inductive without any condition and gives
  `TypeCorrect` and `NeverOvercharged`. The heart is that the counter of a
  period never exceeds the cardinality of the logs that account for it; a
  refund removes one log from that set exactly if the period is still the
  counter's, and a reset empties what is compared. `StageInv` is needed because
  the refund is sound only while its log is pending. With `~MidnightRace` the
  stronger `ExactInv` is inductive: `DateInv` says that no log is newer than
  its user's counters, so that a reset forgets only finished periods. From it
  follow `CountersAreExact`, `AdmissionIsSound` and `RefusalsHaveReasons`;
  `SettlementsAreFinal` and `NoOrphans` follow from `StageInv`. `ActivityIsExact`
  needs no assumption: a log leaves "success" or "error" only with its user.
* `QuotaRefinement`. `ExactInv` makes the counters a function of the charges;
  a reservation is `Admit`, a refund `Return`, a success event `Keep`, and
  everything else a stutter.
* `IngestionProofs`. `IngestInv` adds to the three store invariants what each
  task knows (`TaskOf`): the chunks it has found or stored are its own content
  and are in the store *or were lost with a deleted document of the same
  content*. The disjunction makes the invariant stable under other tasks'
  deletions; without it `ReadyIsComplete` is not inductive. `HoldersStay` is an
  action property of the same invariant. `SourcesStayBounded` has an invariant of its
  own, `CountInv`: each of the code's two ways to increase a chunk's count happens in
  a step that makes its task one that has counted (`Counted`), and increases the count
  by no more than the occurrences in that task's text; the pairs of a task and a place
  are finitely many and only become more. `IngestionImplementsStore` goes by action:
  a search or a count is a stutter, a store is `TakeChunks` of what is still missing
  *at that moment*, and `MarkReady` is a `Finish` because `TaskInv` says that nothing
  of the document is missing by then. It needs `RowsAwaitTasks`: a row whose task is
  at work is neither ready nor in error, so that no task writes for a finished document.
* `ConversationProofs`. `ConvInv` has a part for each thing a turn relies on:
  `SavedAsReached` ties the stage of a turn to what it has saved (from which
  follow the order of exchanges and `KeptChargeHasAnswer`), `SeenIsKept` that
  messages only go away with their chat, so that what a summary task counted is
  still there when it writes, and `ResultsAreScoped` that a turn's courses and
  files are settled before it appears in any result. The last is what makes a
  cached result as safe as a fresh one. `ConversationImplementsDialogue`: the two saves
  are `Ask` and `Reply`, whose conditions (not said yet; the question before the
  answer) are `SavedAsReached` and `ExchangeInOrder`; a summary task's write is
  `Summarise`, sound by `SeenIsKept`; the step to "ok" is `Return`, and everything
  between is a stutter. The assumptions are that null and the name of the earlier
  messages are distinct from ids and that the counts are naturals.
* `HistoryProofs`. `HistoryStaysWindow` says what `get_trimmed_history` returns for a
  chat of any length. The recent messages and the run of older ones that fits
  (`Fitting`) are intervals of positions (`WindowShape`, `FittingShape`), since the sum
  over an interval grows with it; folding `InsertOlder` over the run, for all its
  reversing, keeps its elements and the summary, each once (`InsertedShape`); the recent ones follow in order, so they are a suffix. When they
  alone exceed the budget no older one fits. The order of the older ones is not
  claimed: `chat_history` refutes it.
* `FoldLemmas`. The provers cannot instantiate the library's induction theorems, which
  take an operator. Here induction is about sets instead: `SubsetInduction` (from the
  well-foundedness of strict inclusion) and `CountingInduction` say that a *set* closed
  under adding an element, or under the successor, is everything. From them follow that
  the fold of a sum exists and is unique on a finite set, and its laws: empty, one
  element less, disjoint union, monotone.
* `AnswersProofs`. `LevelsAreSound` says of every entry of every level, and of every
  write that is still a task, that it is what its key says; `StageOf` says it of what
  a request holds. The argument that an entry stays sound is that a request ranks and
  embeds once: what an entry was generated from no longer changes. That is why `Fits`
  says that the request it names has its own answer (`answer[a] = a`), without which the
  invariant is not inductive: such a request has ended, so its question and its ranking
  stay. `HeldIsFinite` carries the cardinality of the bound.
  `AnswersImplementService`: a request that takes an answer out of any level is `Reuse`,
  since `Fits` is what `Reuse` asks for; looks, late writes, promotions, evictions and
  restarts are stutters. `ContextsStayBounded`: a chunk is taken whole if it fits, so
  only an excerpt can exceed the budget. Its tokens are those of its text, and `RoundingBound` compares the
  sum of its sentences' bytes with that of their tokens: each loses less than one token,
  the blank after it included (`ExcerptFits`), unless a sentence occurs twice. After such
  an excerpt nothing fits any more, so packing adds no second one (`PackStays`).
* `WorkspaceProofs`. `WorkspaceInv` is the conjunction of the components' invariants
  and `OwnersExist`. Each component's lemmas say that its actions keep its invariant;
  `Workspace` is then one step per request. The parts that are needed beyond the
  properties: `PartialHasWriter`, that the *last* writer to open a partial file is
  still at it or torn off (an earlier one may leave a hole, hence `late`);
  `NobodyOrdersHimself`, since the self-check is made when the command is let in;
  `RunOf`, that what a regeneration has read stays in its chat while that is open;
  `OwnShelf` and `OwnLink`, that private courses take only their teacher's documents
  and chats, also for what is still being filed or linked.

Only model-checked: the liveness properties `ChargesAreSettled` and `IngestionsEnd`,
since the prover has no fairness and no ENABLED; and of course the six counterexamples.

## 7. Not modelled

* `main.py` assembles a second application beside `app/main.py`, with its own copy of
  the quota middleware, and is what the Dockerfile serves. Both use the same services
  and repositories; the models follow `app/`, and its line numbers.
* The pool and the order of row locks inside a transaction: a transaction is one
  action. PostgreSQL aborts one of two that lock each other, which the modules have as
  a failing step. The schema script is idempotent DDL under an advisory lock
  (`app/main.py`'s lifespan does not call it).
* `BudgetGate`, MMR and the alpha advisor: numeric, and reached by no route.
* Analytics events, funnels and their handlers append rows that only reports read;
  the outbox dispatcher is a placeholder; retention deletes old rows.
* Billing and the plan catalogue: arithmetic on tables. The limits of plans are
  constants.
* Gemini, password hashes, token signatures: libraries and services, with a result
  that is a nondeterministic choice.
* Pages, templates, static files, HTTP metrics: presentation.
* `update_course` and a chat's settings: one statement each, on columns that no state
  here depends on.
