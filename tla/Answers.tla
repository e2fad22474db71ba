------------------------------ MODULE Answers -------------------------------
(***************************************************************************)
(* Answering questions from course material (rag_query) through the        *)
(* three-level caches of query embeddings and of answers.                  *)
(*                                                                         *)
(* Level 1 is a bounded table in each worker, level 2 is Redis, level 3 is *)
(* two tables of the database whose rows nothing deletes.  Requests of all *)
(* workers interleave at every await, also with the tasks that write the   *)
(* levels after a request has gone on.  Whether an entry of level 1 or 2   *)
(* is still there is open at every look: time, the size limit and Redis    *)
(* itself remove entries.                                                  *)
(***************************************************************************)
EXTENDS Integers, Sequences, FiniteSets

CONSTANTS
  Requests,    \* calls of rag_query; a request also names the answer generated for it
  Workers,     \* uvicorn processes
  Questions,   \* texts of queries
  SmallTalk,   \* questions that are greetings, thanks and the like
  Rankings,    \* what reranking a retrieval may leave: chunk hashes, best first
  LocalSize,   \* _L1_MAXSIZE
  Nothing,     \* no entry, no value
  Faults       \* may worker processes die?

ASSUME RequestAssumption ==
  /\ Requests \cap {"vector", "text", Nothing} = {}
  /\ Nothing \notin {"vector", "text"}
  /\ Faults \in BOOLEAN

ASSUME SizeAssumption == LocalSize \in Nat \ {0}

Texts(ranking) == {ranking[i] : i \in DOMAIN ranking}

Hashes == UNION {Texts(ranking) : ranking \in Rankings}

ASSUME RankingAssumption == << >> \in Rankings /\ \A ranking \in Rankings : ranking \in Seq(Hashes)

VARIABLES
  question, \* what a request asks
  worker,   \* the process it runs in
  pc,       \* where a request stands
  vec,      \* the embedding a request works with
  ranked,   \* chunks after reranking and the relevance threshold
  answer,   \* the answer a request returns, by the request it was generated for
  local,    \* _l1 of each worker's ThreeLayerCacheManager
  shared,   \* Redis
  rows,     \* rag_query_cache and rag_answer_cache
  searched, \* questions with a retrieval in Redis
  jobs      \* writes that requests have left to tasks

call    == <<question, worker>>
request == <<pc, vec, ranked, answer>>
levels  == <<local, shared, rows>>
vars    == <<call, request, levels, searched, jobs>>

Stage == {"start", "redis", "database", "embed", "search", "answerRedis", "answerDatabase",
          "model", "unusable", "ended"}

\* What Gemini returns, and what asyncpg makes of a column of type vector.
Embedding == {"vector", "text"}

EmbeddingKey(q) == [kind |-> "embedding", question |-> q, texts |-> {}]

\* _answer_cache_key, a hash of the question and the sorted chunk hashes.
\* (Plausible bug first: the question alone.)
AnswerKeyWithoutTexts(q, ranking) == [kind |-> "answer", question |-> q, texts |-> {}]

AnswerKey(q, ranking) == [kind |-> "answer", question |-> q, texts |-> Texts(ranking)]

Keys == {EmbeddingKey(q) : q \in Questions} \cup
        {[kind |-> "answer", question |-> q, texts |-> Texts(ranking)] :
           q \in Questions, ranking \in Rankings}

Value == Embedding \cup Requests

Level == {"local", "redis", "database"}
Job   == [by : Requests, level : Level, key : Keys, value : Value]

TypeOK ==
  /\ question \in [Requests -> Questions]
  /\ worker \in [Requests -> Workers]
  /\ pc \in [Requests -> Stage]
  /\ vec \in [Requests -> Embedding \cup {Nothing}]
  /\ ranked \in [Requests -> Rankings]
  /\ answer \in [Requests -> Requests \cup {Nothing}]
  /\ local \in [Workers -> [Keys -> Value \cup {Nothing}]]
  /\ shared \in [Keys -> Value \cup {Nothing}]
  /\ rows \in [Keys -> Value \cup {Nothing}]
  /\ searched \subseteq Questions
  /\ jobs \subseteq Job

Empty == [k \in Keys |-> Nothing]

Init ==
  /\ question \in [Requests -> Questions]
  /\ worker \in [Requests -> Workers]
  /\ pc = [r \in Requests |-> "start"]
  /\ vec = [r \in Requests |-> Nothing]
  /\ ranked = [r \in Requests |-> << >>]
  /\ answer = [r \in Requests |-> Nothing]
  /\ local = [w \in Workers |-> Empty]
  /\ shared = Empty
  /\ rows = Empty
  /\ searched = {}
  /\ jobs = {}

-----------------------------------------------------------------------------
(* The levels *)

Goto(r, stage) == pc' = [pc EXCEPT ![r] = stage]

\* An entry whose time is over is deleted by the look that finds it.
Forget(w, k) == local' = [local EXCEPT ![w][k] = Nothing]

Held(w) == {k \in Keys : local[w][k] # Nothing}

\* _l1_set; which entry is the least recently used is left open.  (Plausible
\* bug first: no eviction.)
RememberAlways(w, k, v) == local' = [local EXCEPT ![w][k] = v]

Remember(w, k, v) ==
  IF k \in Held(w) \/ Cardinality(Held(w)) < LocalSize
    THEN local' = [local EXCEPT ![w][k] = v]
    ELSE \E old \in Held(w) : local' = [local EXCEPT ![w] = [@ EXCEPT ![old] = Nothing, ![k] = v]]

Write(r, level, k, v) == [by |-> r, level |-> level, key |-> k, value |-> v]

\* set_answer_l1l2 and store_query_embedding set level 1 as soon as they run ...
WriteLocal(j) ==
  /\ j.level = "local"
  /\ Remember(worker[j.by], j.key, j.value)
  /\ jobs' = (jobs \ {j}) \cup {[j EXCEPT !.level = "redis"]}
  /\ UNCHANGED <<call, request, shared, rows, searched>>

\* ... and then await Redis, which may fail.
WriteRedis(j) ==
  /\ j.level = "redis"
  /\ shared' = [shared EXCEPT ![j.key] = j.value] \/ UNCHANGED shared
  /\ jobs' = jobs \ {j}
  /\ UNCHANGED <<call, request, local, rows, searched>>

\* An answer that is there is kept, a second embedding conflicts; or the statement fails.
WriteDatabase(j) ==
  /\ j.level = "database"
  /\ \/ rows' = [rows EXCEPT ![j.key] = IF @ = Nothing THEN j.value ELSE @]
     \/ UNCHANGED rows
  /\ jobs' = jobs \ {j}
  /\ UNCHANGED <<call, request, local, shared, searched>>

-----------------------------------------------------------------------------
(* embed_query *)

\* Small talk goes to the model with the history and is cached nowhere.
Greet(r) ==
  /\ pc[r] = "start"
  /\ question[r] \in SmallTalk
  /\ answer' = [answer EXCEPT ![r] = r]
  /\ Goto(r, "ended")
  /\ UNCHANGED <<call, vec, ranked, levels, searched, jobs>>

LookLocal(r) ==
  LET w == worker[r]
      k == EmbeddingKey(question[r])
  IN /\ pc[r] = "start"
     /\ question[r] \notin SmallTalk
     /\ \/ /\ local[w][k] # Nothing
           /\ vec' = [vec EXCEPT ![r] = local[w][k]]
           /\ Goto(r, "search")
           /\ UNCHANGED local
        \/ Forget(w, k) /\ Goto(r, "redis") /\ UNCHANGED vec
     /\ UNCHANGED <<call, ranked, answer, shared, rows, searched, jobs>>

LookRedis(r) ==
  LET k == EmbeddingKey(question[r]) IN
  /\ pc[r] = "redis"
  /\ \/ /\ shared[k] # Nothing
        /\ vec' = [vec EXCEPT ![r] = shared[k]]
        /\ Remember(worker[r], k, shared[k])
        /\ Goto(r, "search")
        /\ UNCHANGED shared
     \/ /\ shared' = [shared EXCEPT ![k] = Nothing]
        /\ Goto(r, "database")
        /\ UNCHANGED <<vec, local>>
  /\ UNCHANGED <<call, ranked, answer, rows, searched, jobs>>

\* No codec is registered for the type vector: list(row["embedding"]) is the list
\* of the characters of its text, and goes to both upper levels.
FromRow(v) == IF v \in Embedding THEN "text" ELSE v

LookDatabase(r) ==
  LET k == EmbeddingKey(question[r])
      v == FromRow(rows[k])
  IN /\ pc[r] = "database"
     /\ IF rows[k] # Nothing
          THEN /\ vec' = [vec EXCEPT ![r] = v]
               /\ jobs' = jobs \cup {Write(r, "redis", k, v)}
               /\ Remember(worker[r], k, v)
               /\ Goto(r, "search")
          ELSE Goto(r, "embed") /\ UNCHANGED <<vec, local, jobs>>
     /\ UNCHANGED <<call, ranked, answer, shared, rows, searched>>

\* The embedding model.  (Plausible bug first: a failure is stored as well.)
EmbedAnything(r) ==
  LET k == EmbeddingKey(question[r]) IN
  /\ pc[r] = "embed"
  /\ \E v \in Embedding :
       /\ vec' = [vec EXCEPT ![r] = v]
       /\ jobs' = jobs \cup {Write(r, level, k, v) : level \in {"local", "database"}}
  /\ Goto(r, "search")
  /\ UNCHANGED <<call, ranked, answer, levels, searched>>

Embed(r) ==
  LET k == EmbeddingKey(question[r]) IN
  /\ pc[r] = "embed"
  /\ vec' = [vec EXCEPT ![r] = "vector"]
  /\ jobs' = jobs \cup {Write(r, level, k, "vector") : level \in {"local", "database"}}
  /\ Goto(r, "search")
  /\ UNCHANGED <<call, ranked, answer, levels, searched>>

-----------------------------------------------------------------------------
(* retrieve, rerank, and the answer *)

\* Chunks are ranked, or dropped together; up to the next await the request
\* also looks for an answer in its own worker.
Rank(r, ranking) ==
  LET w == worker[r]
      k == AnswerKey(question[r], ranking)
  IN /\ ranked' = [ranked EXCEPT ![r] = ranking]
     /\ \/ /\ local[w][k] # Nothing
           /\ answer' = [answer EXCEPT ![r] = local[w][k]]
           /\ Goto(r, "ended")
           /\ UNCHANGED local
        \/ Forget(w, k) /\ Goto(r, "answerRedis") /\ UNCHANGED answer
     /\ UNCHANGED <<call, vec, shared, rows>>

\* The cached retrieval needs no embedding.
ReuseSearch(r) ==
  /\ pc[r] = "search"
  /\ question[r] \in searched
  /\ \E ranking \in Rankings : Rank(r, ranking)
  /\ UNCHANGED <<searched, jobs>>

\* The search in the database needs one that is a vector; a task caches what it
\* found, or fails.
Search(r) ==
  /\ pc[r] = "search"
  /\ vec[r] = "vector"
  /\ \E ranking \in Rankings : Rank(r, ranking)
  /\ searched' = searched \cup {question[r]} \/ UNCHANGED searched
  /\ UNCHANGED jobs

\* to_pgvector formats the elements as numbers: ValueError.
RejectEmbedding(r) ==
  /\ pc[r] = "search"
  /\ vec[r] = "text"
  /\ Goto(r, "unusable")
  /\ UNCHANGED <<call, vec, ranked, answer, levels, searched, jobs>>

AnswerFromRedis(r) ==
  LET k == AnswerKey(question[r], ranked[r]) IN
  /\ pc[r] = "answerRedis"
  /\ \/ /\ shared[k] # Nothing
        /\ answer' = [answer EXCEPT ![r] = shared[k]]
        /\ Remember(worker[r], k, shared[k])
        /\ Goto(r, "ended")
        /\ UNCHANGED shared
     \/ /\ shared' = [shared EXCEPT ![k] = Nothing]
        /\ Goto(r, "answerDatabase")
        /\ UNCHANGED <<answer, local>>
  /\ UNCHANGED <<call, vec, ranked, rows, searched, jobs>>

\* A row found is promoted by a task.
AnswerFromDatabase(r) ==
  LET k == AnswerKey(question[r], ranked[r]) IN
  /\ pc[r] = "answerDatabase"
  /\ IF rows[k] # Nothing
       THEN /\ answer' = [answer EXCEPT ![r] = rows[k]]
            /\ jobs' = jobs \cup {Write(r, "local", k, rows[k])}
            /\ Goto(r, "ended")
       ELSE Goto(r, "model") /\ UNCHANGED <<answer, jobs>>
  /\ UNCHANGED <<call, vec, ranked, levels, searched>>

\* The model answers from the packed context; a task stores the answer.  (Plausible
\* bug first: the task is created whether the call has returned or raised.)
GenerateAndStoreAnyway(r) ==
  LET k == AnswerKey(question[r], ranked[r]) IN
  /\ pc[r] = "model"
  /\ answer' \in {answer, [answer EXCEPT ![r] = r]}
  /\ jobs' = jobs \cup {Write(r, level, k, r) : level \in {"local", "database"}}
  /\ Goto(r, "ended")
  /\ UNCHANGED <<call, vec, ranked, levels, searched>>

Generate(r) ==
  LET k == AnswerKey(question[r], ranked[r]) IN
  /\ pc[r] = "model"
  /\ answer' = [answer EXCEPT ![r] = r]
  /\ jobs' = jobs \cup {Write(r, level, k, r) : level \in {"local", "database"}}
  /\ Goto(r, "ended")
  /\ UNCHANGED <<call, vec, ranked, levels, searched>>

\* Gemini, Redis or the database raises: the turn is a 500.  (The errors of the
\* trace writer are swallowed.)
Raise(r) ==
  /\ pc[r] \in {"start", "redis", "database", "embed", "search", "answerRedis",
                "answerDatabase", "model"}
  /\ Goto(r, "ended")
  /\ UNCHANGED <<call, vec, ranked, answer, levels, searched, jobs>>

\* A worker dies with its requests, its tasks and its table; another takes its place.
Restart(w) ==
  /\ Faults
  /\ pc' = [r \in Requests |-> IF worker[r] = w /\ pc[r] \notin {"start", "unusable"}
                                 THEN "ended" ELSE pc[r]]
  /\ local' = [local EXCEPT ![w] = Empty]
  /\ jobs' = {j \in jobs : worker[j.by] # w}
  /\ UNCHANGED <<call, vec, ranked, answer, shared, rows, searched>>

-----------------------------------------------------------------------------
RequestStep(r) ==
  \/ Greet(r) \/ LookLocal(r) \/ LookRedis(r) \/ LookDatabase(r) \/ Embed(r)
  \/ ReuseSearch(r) \/ Search(r) \/ RejectEmbedding(r)
  \/ AnswerFromRedis(r) \/ AnswerFromDatabase(r) \/ Generate(r) \/ Raise(r)

JobStep(j) == WriteLocal(j) \/ WriteRedis(j) \/ WriteDatabase(j)

Next ==
  \/ \E r \in Requests : RequestStep(r)
  \/ \E j \in jobs : JobStep(j)
  \/ \E w \in Workers : Restart(w)

Spec == Init /\ [][Next]_vars

-----------------------------------------------------------------------------
(* Properties *)

\* Whatever level an answer comes from, and however promotions, evictions, late
\* writes and restarts interleave, it was generated for the question asked and
\* from exactly the chunks this request retrieved (schema.py 90: "same query
\* against same context").
AnswerFitsQuestion ==
  \A r \in Requests : answer[r] # Nothing /\ question[r] \notin SmallTalk =>
    /\ answer[r] \in Requests
    /\ question[answer[r]] = question[r]
    /\ Texts(ranked[answer[r]]) = Texts(ranked[r])

\* A question fails for its embedding only if it is a repetition: an earlier
\* request embedded it and is the one that succeeded (rag.py 489-498).
OnlyRepetitionsFail ==
  \A r \in Requests : pc[r] = "unusable" =>
    \E s \in Requests \ {r} : question[s] = question[r] /\ vec[s] = "vector"

\* A request is answered by the model or with what the model has answered before to
\* the same question with the same chunks, and an answer once given stays: the three
\* levels, written by tasks that come late, twice or never, cannot be told from a
\* memory of the model's answers (cache_manager.py 1-11, rag.py 640-700).
Service ==
  INSTANCE AnswerService WITH
    Contexts <- {Texts(ranking) : ranking \in Rankings},
    context <- [r \in Requests |-> Texts(ranked[r])]

ImplementsService == Service!Spec

\* The table of a worker stays within its maximum, although requests and tasks of
\* the worker write it between each other's looks (cache_manager.py 161-167).
LocalBounded == \A w \in Workers : Cardinality(Held(w)) <= LocalSize

\* rag.py 147 ("Embed a single query string with three-layer caching (L1→L2→L3)",
\* -> list[float]) and cache_manager.py 46 ("durable"): an embedding is a list of
\* numbers from whatever level it comes.
EmbeddingsAreVectors == \A r \in Requests : vec[r] # "text"

-----------------------------------------------------------------------------
(* The inductive invariant *)

\* a was generated, for the question and the chunks of the key k.
Fits(a, k) ==
  /\ a \in Requests
  /\ answer[a] = a
  /\ question[a] = k.question
  /\ Texts(ranked[a]) = k.texts

Embedded(q) == \E s \in Requests : question[s] = q /\ vec[s] = "vector"

\* An entry of a level or of a pending write is what its key says.
Sound(k, v) ==
  v # Nothing => IF k.kind = "embedding" THEN v \in Embedding /\ Embedded(k.question) ELSE Fits(v, k)

LevelsAreSound ==
  /\ \A k \in Keys : Sound(k, shared[k]) /\ Sound(k, rows[k])
  /\ \A w \in Workers, k \in Keys : Sound(k, local[w][k])
  /\ \A j \in jobs : Sound(j.key, j.value)

\* What a request holds fits its stage.
StageOf(r) ==
  /\ vec[r] = "text" => Embedded(question[r])
  /\ pc[r] = "unusable" => vec[r] = "text"
  /\ pc[r] \in {"start", "redis", "database", "embed"} => vec[r] = Nothing
  /\ pc[r] # "ended" => answer[r] = Nothing
  /\ pc[r] \notin {"start", "ended"} => question[r] \notin SmallTalk
  /\ answer[r] # Nothing /\ question[r] \notin SmallTalk =>
       Fits(answer[r], AnswerKey(question[r], ranked[r]))

StageInv == \A r \in Requests : StageOf(r)

HeldIsFinite == \A w \in Workers : IsFiniteSet(Held(w))

AnswersInv == TypeOK /\ LevelsAreSound /\ StageInv /\ HeldIsFinite /\ LocalBounded
=============================================================================
