---------------------------- MODULE AnswersProofs ---------------------------
(* AnswersInv is inductive.  A step may add one value to one level, which is *)
(* sound because the request that adds it has found it or made it; and what  *)
(* has been sound stays so, since no request ranks or embeds twice.          *)
(* From it follows that the levels cannot be told from a memory of the       *)
(* model's answers (AnswerService).                                          *)
(* The last part is about the context: what an excerpt takes, and that       *)
(* packing keeps within the budget for rankings of every length.             *)
EXTENDS Context, FoldLemmas, FiniteSetTheorems, TLAPS

-----------------------------------------------------------------------------
(* Keys and levels *)

LEMMA KeysOfQuestions ==
  ASSUME NEW q \in Questions
  PROVE  /\ EmbeddingKey(q) \in Keys
         /\ EmbeddingKey(q).kind = "embedding" /\ EmbeddingKey(q).question = q
         /\ \A ranking \in Rankings :
              /\ AnswerKey(q, ranking) \in Keys
              /\ AnswerKey(q, ranking).kind = "answer"
              /\ AnswerKey(q, ranking).question = q
              /\ AnswerKey(q, ranking).texts = Texts(ranking)
<1>1. EmbeddingKey(q) \in Keys  BY DEF Keys
<1>2. ASSUME NEW ranking \in Rankings PROVE AnswerKey(q, ranking) \in Keys
  <2>1. AnswerKey(q, ranking) \in {[kind |-> "answer", question |-> p, texts |-> Texts(other)] :
                                     p \in Questions, other \in Rankings}
    BY DEF AnswerKey
  <2> QED BY <2>1 DEF Keys
<1> QED BY <1>1, <1>2 DEF EmbeddingKey, AnswerKey

\* Remembering adds one entry, and forgets another one when there is no room.
LEMMA RememberAdds ==
  ASSUME local \in [Workers -> [Keys -> Value \cup {Nothing}]], HeldIsFinite, LocalBounded,
         NEW w \in Workers, NEW k \in Keys, NEW v \in Value, Remember(w, k, v)
  PROVE  /\ local' \in [Workers -> [Keys -> Value \cup {Nothing}]]
         /\ \A x \in Workers, y \in Keys :
              \/ local'[x][y] = local[x][y] \/ local'[x][y] = Nothing
              \/ x = w /\ y = k /\ local'[x][y] = v
         /\ HeldIsFinite' /\ LocalBounded'
<1> DEFINE table == [Keys -> Value \cup {Nothing}]
<1>0. /\ local[w] \in table /\ IsFiniteSet(Held(w)) /\ Cardinality(Held(w)) <= LocalSize
      /\ v # Nothing /\ LocalSize \in Nat /\ Cardinality(Held(w)) \in Nat
  BY FS_CardinalityType, RequestAssumption, SizeAssumption
     DEF HeldIsFinite, LocalBounded, Value, Embedding
<1>1. CASE k \in Held(w) \/ Cardinality(Held(w)) < LocalSize
  <2>1. local' = [local EXCEPT ![w][k] = v]  BY <1>1 DEF Remember
  <2>2. local'[w] = [local[w] EXCEPT ![k] = v] /\ \A x \in Workers \ {w} : local'[x] = local[x]
    BY <2>1
  <2>3. Held(w)' = Held(w) \cup {k}  BY <1>0, <2>2 DEF Held
  <2>4. \A x \in Workers \ {w} : Held(x)' = Held(x)  BY <2>2 DEF Held
  <2>5. IsFiniteSet(Held(w)') /\ Cardinality(Held(w)') <= LocalSize
    <3>1. CASE k \in Held(w)
      <4>1. Held(w)' = Held(w)  BY <3>1, <2>3
      <4> QED BY <4>1, <1>0
    <3>2. CASE k \notin Held(w)
      <4>1. /\ IsFiniteSet(Held(w) \cup {k})
            /\ Cardinality(Held(w) \cup {k}) = Cardinality(Held(w)) + 1
        BY <3>2, <1>0, FS_AddElement
      <4> QED BY <1>0, <1>1, <2>3, <3>2, <4>1
    <3> QED BY <3>1, <3>2
  <2>6. HeldIsFinite' /\ LocalBounded'  BY <2>4, <2>5 DEF HeldIsFinite, LocalBounded
  <2> QED BY <1>0, <2>1, <2>2, <2>6
<1>2. CASE ~(k \in Held(w) \/ Cardinality(Held(w)) < LocalSize)
  <2>1. PICK old \in Held(w) :
          local' = [local EXCEPT ![w] = [local[w] EXCEPT ![old] = Nothing, ![k] = v]]
    BY <1>2 DEF Remember
  <2>2. /\ local'[w] = [local[w] EXCEPT ![old] = Nothing, ![k] = v]
        /\ \A x \in Workers \ {w} : local'[x] = local[x]
    BY <2>1
  <2>3. old \in Keys /\ old # k  BY <1>2 DEF Held
  <2>4. Held(w)' = (Held(w) \ {old}) \cup {k}  BY <1>0, <2>2, <2>3 DEF Held
  <2>5. \A x \in Workers \ {w} : Held(x)' = Held(x)  BY <2>2 DEF Held
  <2>6. IsFiniteSet(Held(w)') /\ Cardinality(Held(w)') <= LocalSize
    <3>1. /\ IsFiniteSet(Held(w) \ {old})
          /\ Cardinality(Held(w) \ {old}) = Cardinality(Held(w)) - 1
      BY <1>0, FS_RemoveElement
    <3>2. k \notin Held(w) \ {old}  BY <1>2
    <3>3. /\ IsFiniteSet((Held(w) \ {old}) \cup {k})
          /\ Cardinality((Held(w) \ {old}) \cup {k}) = Cardinality(Held(w) \ {old}) + 1
      BY <3>1, <3>2, FS_AddElement
    <3> QED BY <1>0, <2>4, <3>1, <3>3
  <2>7. HeldIsFinite' /\ LocalBounded'  BY <2>5, <2>6 DEF HeldIsFinite, LocalBounded
  <2>8. local'[w] \in table  BY <1>0, <2>2, <2>3
  <2>9. local' \in [Workers -> table]  BY <2>1, <2>8
  <2>10. \A y \in Keys : local'[w][y] = local[w][y] \/ local'[w][y] = Nothing \/ (y = k /\ local'[w][y] = v)
    BY <1>0, <2>2, <2>3
  <2> QED BY <2>2, <2>7, <2>9, <2>10
<1> QED BY <1>1, <1>2

LEMMA ForgetDrops ==
  ASSUME local \in [Workers -> [Keys -> Value \cup {Nothing}]], HeldIsFinite, LocalBounded,
         NEW w \in Workers, NEW k \in Keys, Forget(w, k)
  PROVE  /\ local' \in [Workers -> [Keys -> Value \cup {Nothing}]]
         /\ \A x \in Workers, y \in Keys : local'[x][y] = local[x][y] \/ local'[x][y] = Nothing
         /\ HeldIsFinite' /\ LocalBounded'
<1>1. local' = [local EXCEPT ![w][k] = Nothing]  BY DEF Forget
<1>2. \A x \in Workers : Held(x)' \subseteq Held(x)  BY <1>1 DEF Held
<1>3. \A x \in Workers : /\ IsFiniteSet(Held(x)')
                         /\ Cardinality(Held(x)') <= Cardinality(Held(x))
  BY <1>2, FS_Subset DEF HeldIsFinite
<1>4. \A x \in Workers : Cardinality(Held(x)') \in Nat /\ Cardinality(Held(x)) \in Nat
  BY <1>3, FS_CardinalityType DEF HeldIsFinite
<1>5. HeldIsFinite' /\ LocalBounded'
  BY <1>3, <1>4, SizeAssumption DEF HeldIsFinite, LocalBounded
<1> QED BY <1>1, <1>5

-----------------------------------------------------------------------------
(* What a request has embedded stays, and what it was answered and from what *)

Persists(r) ==
  /\ vec[r] = "vector" => vec'[r] = "vector"
  /\ answer[r] # Nothing => answer'[r] = answer[r] /\ ranked'[r] = ranked[r]

\* A step of one request: its position, and what it holds.
LEMMA StepOfRequest ==
  ASSUME TypeOK, StageInv, NEW r \in Requests, RequestStep(r)
  PROVE  /\ UNCHANGED <<call, rows>>
         /\ \A s \in Requests \ {r} :
              pc'[s] = pc[s] /\ vec'[s] = vec[s] /\ ranked'[s] = ranked[s] /\ answer'[s] = answer[s]
         /\ Persists(r)
         /\ pc' \in [Requests -> Stage] /\ ranked' \in [Requests -> Rankings]
<1> USE RequestAssumption DEF TypeOK, StageInv, StageOf, Goto, Stage, Persists, levels
<1>1. CASE Greet(r)  BY <1>1 DEF Greet
<1>2. CASE LookLocal(r)  BY <1>2 DEF LookLocal
<1>3. CASE LookRedis(r)  BY <1>3 DEF LookRedis
<1>4. CASE LookDatabase(r)  BY <1>4 DEF LookDatabase
<1>5. CASE Embed(r)  BY <1>5 DEF Embed
<1>6. CASE ReuseSearch(r) \/ Search(r)
  <2>1. pc[r] = "search" /\ \E ranking \in Rankings : Rank(r, ranking)
    BY <1>6 DEF ReuseSearch, Search
  <2>2. PICK ranking \in Rankings : Rank(r, ranking)  BY <2>1
  <2>3. answer[r] = Nothing  BY <2>1
  <2>4. /\ UNCHANGED <<call, vec, rows>>
        /\ ranked' = [ranked EXCEPT ![r] = ranking]
        /\ pc' = [pc EXCEPT ![r] = "ended"] \/ pc' = [pc EXCEPT ![r] = "answerRedis"]
        /\ \A s \in Requests \ {r} : answer'[s] = answer[s]
    BY <2>2 DEF Rank
  <2> QED BY <2>3, <2>4
<1>7. CASE RejectEmbedding(r)  BY <1>7 DEF RejectEmbedding
<1>8. CASE AnswerFromRedis(r)  BY <1>8 DEF AnswerFromRedis
<1>9. CASE AnswerFromDatabase(r)  BY <1>9 DEF AnswerFromDatabase
<1>10. CASE Generate(r)  BY <1>10 DEF Generate
<1>11. CASE Raise(r)  BY <1>11 DEF Raise
<1> QED BY <1>1, <1>2, <1>3, <1>4, <1>5, <1>6, <1>7, <1>8, <1>9, <1>10, <1>11 DEF RequestStep

LEMMA StepPersists ==
  ASSUME AnswersInv, [Next]_vars
  PROVE  UNCHANGED call /\ \A r \in Requests : Persists(r)
<1> USE DEF AnswersInv
<1>1. ASSUME NEW r \in Requests, RequestStep(r) PROVE UNCHANGED call /\ \A s \in Requests : Persists(s)
  BY <1>1, StepOfRequest DEF Persists
<1>2. ASSUME NEW j \in jobs, JobStep(j) PROVE UNCHANGED call /\ \A s \in Requests : Persists(s)
  BY <1>2 DEF JobStep, WriteLocal, WriteRedis, WriteDatabase, request, Persists
<1>3. ASSUME NEW w \in Workers, Restart(w) PROVE UNCHANGED call /\ \A s \in Requests : Persists(s)
  BY <1>3 DEF Restart, Persists, TypeOK
<1>4. CASE UNCHANGED vars  BY <1>4 DEF vars, request, Persists
<1> QED BY <1>1, <1>2, <1>3, <1>4 DEF Next

\* What is sound, fits or has been embedded remains so.
LEMMA SoundRemains ==
  ASSUME UNCHANGED call, \A r \in Requests : Persists(r)
  PROVE  /\ \A k, v : Sound(k, v) => Sound(k, v)'
         /\ \A q : Embedded(q) => Embedded(q)'
         /\ \A a, k : Fits(a, k) => Fits(a, k)'
<1>1. \A q : Embedded(q) => Embedded(q)'  BY DEF Embedded, Persists, call
<1>2. \A a, k : Fits(a, k) => Fits(a, k)'
  BY RequestAssumption DEF Fits, Persists, call
<1> QED BY <1>1, <1>2 DEF Sound

-----------------------------------------------------------------------------
(* What a step has to show *)

LEMMA LevelsKept ==
  ASSUME LevelsAreSound, UNCHANGED call, \A r \in Requests : Persists(r),
         \A k \in Keys : \A v : shared'[k] = v => v = shared[k] \/ Sound(k, v)',
         \A k \in Keys : \A v : rows'[k] = v => v = rows[k] \/ Sound(k, v)',
         \A w \in Workers, k \in Keys : \A v : local'[w][k] = v => v = local[w][k] \/ Sound(k, v)',
         \A j \in jobs' : j \in jobs \/ Sound(j.key, j.value)'
  PROVE  LevelsAreSound'
<1>1. ASSUME NEW k \in Keys PROVE Sound(k, shared[k])'
  <2>1. PICK v : v = shared'[k]  OBVIOUS
  <2>2. Sound(k, v)'  BY <2>1, SoundRemains DEF LevelsAreSound
  <2> QED BY <2>1, <2>2 DEF Sound, Fits
<1>2. ASSUME NEW k \in Keys PROVE Sound(k, rows[k])'
  <2>1. PICK v : v = rows'[k]  OBVIOUS
  <2>2. Sound(k, v)'  BY <2>1, SoundRemains DEF LevelsAreSound
  <2> QED BY <2>1, <2>2 DEF Sound, Fits
<1>3. ASSUME NEW w \in Workers, NEW k \in Keys PROVE Sound(k, local[w][k])'
  <2>1. PICK v : v = local'[w][k]  OBVIOUS
  <2>2. Sound(k, v)'  BY <2>1, SoundRemains DEF LevelsAreSound
  <2> QED BY <2>1, <2>2 DEF Sound, Fits
<1>4. ASSUME NEW j \in jobs' PROVE Sound(j.key, j.value)'
  BY SoundRemains DEF LevelsAreSound
<1> QED BY <1>1, <1>2, <1>3, <1>4 DEF LevelsAreSound

\* A request that nothing happens to.
LEMMA StageKept ==
  ASSUME UNCHANGED call, \A r \in Requests : Persists(r),
         NEW s \in Requests, StageOf(s),
         pc'[s] = pc[s], vec'[s] = vec[s], ranked'[s] = ranked[s], answer'[s] = answer[s]
  PROVE  StageOf(s)'
<1>1. vec'[s] = "text" => Embedded(question[s])'
  BY DEF StageOf, Embedded, Persists, call
<1>2. answer'[s] # Nothing /\ question[s] \notin SmallTalk => Fits(answer[s], AnswerKey(question[s], ranked[s]))'
  BY DEF StageOf, Fits, AnswerKey, Persists, call
<1> QED BY <1>1, <1>2 DEF StageOf, call

LEMMA LocalKept ==
  ASSUME HeldIsFinite, LocalBounded, UNCHANGED local
  PROVE  HeldIsFinite' /\ LocalBounded'
BY DEF HeldIsFinite, LocalBounded, Held

-----------------------------------------------------------------------------
(* The steps of a request *)

\* A request that has neither ranked nor answered, with another embedding or
\* none; it may have written levels and left jobs.
LEMMA EmbeddingStep ==
  ASSUME AnswersInv, NEW r \in Requests,
         LookLocal(r) \/ LookRedis(r) \/ LookDatabase(r) \/ Embed(r)
  PROVE  AnswersInv'
<1> USE DEF AnswersInv
<1>0. PICK k \in Keys :
        /\ k = EmbeddingKey(question[r]) /\ k.kind = "embedding" /\ k.question = question[r]
        /\ worker[r] \in Workers /\ question[r] \in Questions
  BY KeysOfQuestions DEF TypeOK
<1>1. RequestStep(r)  BY DEF RequestStep
<1>2. /\ UNCHANGED <<call, rows>>
      /\ \A s \in Requests \ {r} :
           pc'[s] = pc[s] /\ vec'[s] = vec[s] /\ ranked'[s] = ranked[s] /\ answer'[s] = answer[s]
      /\ \A s \in Requests : Persists(s)
      /\ pc' \in [Requests -> Stage] /\ ranked' \in [Requests -> Rankings]
  BY <1>1, StepOfRequest DEF Persists
<1>3. /\ pc[r] \in {"start", "redis", "database", "embed"}
      /\ UNCHANGED <<call, ranked, answer, rows, searched>>
      /\ answer[r] = Nothing /\ question[r] \notin SmallTalk
  BY DEF LookLocal, LookRedis, LookDatabase, Embed, levels, StageInv, StageOf
\* What comes from a level, or from the model.
<1>4. ASSUME NEW v \in Embedding,
             vec' = [vec EXCEPT ![r] = v], pc'[r] = "search",
             v = "vector" \/ Embedded(question[r])
      PROVE  StageInv' /\ Sound(k, v)'
  <2>1. vec'[r] = v  BY <1>4 DEF TypeOK
  <2>2. \A q : Embedded(q) => Embedded(q)'  BY <1>2, SoundRemains
  <2>3. PICK q : q = question[r] /\ q = question'[r]  BY <1>2 DEF call
  <2>4. Embedded(q)'
    <3>1. CASE v = "vector"  BY <2>1, <2>3, <3>1 DEF Embedded
    <3>2. CASE Embedded(question[r])  BY <2>2, <2>3, <3>2
    <3> QED BY <1>4, <3>1, <3>2
  <2>5. StageOf(r)'
    BY <1>3, <1>4, <2>3, <2>4 DEF StageOf, Embedded, call
  <2>6. Sound(k, v)'  BY <1>0, <2>3, <2>4 DEF Sound, Embedded
  <2> QED BY <1>2, <2>5, <2>6, StageKept DEF StageInv
<1>5. ASSUME NEW stage \in {"redis", "database", "embed"}, pc'[r] = stage, UNCHANGED vec
      PROVE  StageInv'
  <2>1. vec[r] = Nothing  BY <1>3 DEF StageInv, StageOf
  <2>2. StageOf(r)'  BY <1>3, <1>5, <2>1, RequestAssumption DEF StageOf, call
  <2> QED BY <1>2, <2>2, StageKept DEF StageInv
<1>6. CASE LookLocal(r)
  <2>1. pc[r] = "start" /\ UNCHANGED <<shared, rows, jobs>>  BY <1>6 DEF LookLocal
  <2>2. CASE local[worker[r]][k] # Nothing /\ vec' = [vec EXCEPT ![r] = local[worker[r]][k]]
             /\ Goto(r, "search") /\ UNCHANGED local
    <3>1. PICK v : v = local[worker[r]][k]  OBVIOUS
    <3>2. v \in Embedding /\ Embedded(question[r])
      BY <1>0, <2>2, <3>1 DEF LevelsAreSound, Sound
    <3>3. pc'[r] = "search"  BY <2>2 DEF Goto, TypeOK
    <3>4. StageInv'  BY <2>2, <3>1, <3>2, <3>3, <1>4
    <3>5. TypeOK'  BY <1>2, <1>3, <2>1, <2>2, <3>1, <3>2 DEF TypeOK, call
    <3>6. LevelsAreSound'  BY <1>2, <2>1, <2>2, LevelsKept
    <3> QED BY <2>2, <3>4, <3>5, <3>6, LocalKept
  <2>3. CASE Forget(worker[r], k) /\ Goto(r, "redis") /\ UNCHANGED vec
    <3>1. pc'[r] = "redis"  BY <2>3 DEF Goto, TypeOK
    <3>2. StageInv'  BY <2>3, <3>1, <1>5
    <3>3. /\ local' \in [Workers -> [Keys -> Value \cup {Nothing}]]
          /\ \A x \in Workers, y \in Keys : local'[x][y] = local[x][y] \/ local'[x][y] = Nothing
          /\ HeldIsFinite' /\ LocalBounded'
      BY <1>0, <2>3, ForgetDrops DEF TypeOK
    <3>4. TypeOK'  BY <1>2, <1>3, <2>1, <2>3, <3>3 DEF TypeOK, call
    <3>5. \A w \in Workers, y \in Keys : \A v : local'[w][y] = v => v = local[w][y] \/ Sound(y, v)'
      BY <3>3 DEF Sound
    <3>6. LevelsAreSound'  BY <1>2, <2>1, <3>5, LevelsKept
    <3> QED BY <3>2, <3>3, <3>4, <3>6
  <2> QED BY <1>0, <1>6, <2>2, <2>3 DEF LookLocal
<1>7. CASE LookRedis(r)
  <2>1. pc[r] = "redis" /\ UNCHANGED <<rows, jobs>>  BY <1>7 DEF LookRedis
  <2>2. CASE shared[k] # Nothing /\ vec' = [vec EXCEPT ![r] = shared[k]]
             /\ Remember(worker[r], k, shared[k]) /\ Goto(r, "search") /\ UNCHANGED shared
    <3>1. PICK v : v = shared[k]  OBVIOUS
    <3>2. v \in Embedding /\ Embedded(question[r])
      BY <1>0, <2>2, <3>1 DEF LevelsAreSound, Sound
    <3>3. pc'[r] = "search"  BY <2>2 DEF Goto, TypeOK
    <3>4. StageInv' /\ Sound(k, v)'  BY <2>2, <3>1, <3>2, <3>3, <1>4
    <3>5. /\ local' \in [Workers -> [Keys -> Value \cup {Nothing}]]
          /\ \A x \in Workers, y \in Keys :
               \/ local'[x][y] = local[x][y] \/ local'[x][y] = Nothing
               \/ x = worker[r] /\ y = k /\ local'[x][y] = v
          /\ HeldIsFinite' /\ LocalBounded'
      BY <1>0, <2>2, <3>1, <3>2, RememberAdds DEF TypeOK, Value
    <3>6. TypeOK'  BY <1>2, <1>3, <2>1, <2>2, <3>1, <3>2, <3>5 DEF TypeOK, call
    <3>7. \A w \in Workers, y \in Keys : \A u : local'[w][y] = u => u = local[w][y] \/ Sound(y, u)'
      <4> SUFFICES ASSUME NEW w \in Workers, NEW y \in Keys, NEW u, local'[w][y] = u, u # local[w][y]
                   PROVE  Sound(y, u)'
        OBVIOUS
      <4>1. u = Nothing \/ (y = k /\ u = v)  BY <3>5
      <4> QED BY <3>4, <4>1 DEF Sound
    <3>8. LevelsAreSound'  BY <1>2, <2>1, <2>2, <3>7, LevelsKept
    <3> QED BY <3>4, <3>5, <3>6, <3>8
  <2>3. CASE shared' = [shared EXCEPT ![k] = Nothing] /\ Goto(r, "database") /\ UNCHANGED <<vec, local>>
    <3>1. pc'[r] = "database"  BY <2>3 DEF Goto, TypeOK
    <3>2. StageInv'  BY <2>3, <3>1, <1>5
    <3>3. TypeOK'  BY <1>0, <1>2, <1>3, <2>1, <2>3 DEF TypeOK, call
    <3>4. \A y \in Keys : \A v : shared'[y] = v => v = shared[y] \/ Sound(y, v)'
      BY <2>3 DEF Sound, TypeOK
    <3>5. LevelsAreSound'  BY <1>2, <2>1, <2>3, <3>4, LevelsKept
    <3> QED BY <2>3, <3>2, <3>3, <3>5, LocalKept
  <2> QED BY <1>0, <1>7, <2>2, <2>3 DEF LookRedis
<1>8. CASE LookDatabase(r)
  <2>1. pc[r] = "database" /\ UNCHANGED <<shared, rows>>  BY <1>8 DEF LookDatabase
  <2>2. CASE rows[k] # Nothing
    <3> DEFINE j == Write(r, "redis", k, "text")
    <3>1. rows[k] \in Embedding /\ Embedded(question[r])
      BY <1>0, <2>2 DEF LevelsAreSound, Sound
    <3>2. FromRow(rows[k]) = "text" /\ "text" \in Embedding  BY <3>1 DEF FromRow, Embedding
    <3>3. /\ vec' = [vec EXCEPT ![r] = "text"]
          /\ jobs' = jobs \cup {j}
          /\ Remember(worker[r], k, "text")
          /\ pc' = [pc EXCEPT ![r] = "search"]
      BY <1>0, <1>8, <2>2, <3>2 DEF LookDatabase, Goto
    <3>4. pc'[r] = "search"  BY <3>3 DEF TypeOK
    <3>5. StageInv' /\ Sound(k, "text")'  BY <3>1, <3>2, <3>3, <3>4, <1>4
    <3>6. /\ local' \in [Workers -> [Keys -> Value \cup {Nothing}]]
          /\ \A x \in Workers, y \in Keys :
               \/ local'[x][y] = local[x][y] \/ local'[x][y] = Nothing
               \/ x = worker[r] /\ y = k /\ local'[x][y] = "text"
          /\ HeldIsFinite' /\ LocalBounded'
      BY <1>0, <3>2, <3>3, RememberAdds DEF TypeOK, Value
    <3>7. j \in Job /\ j.key = k /\ j.value = "text"
      BY <1>0, <3>2 DEF Write, Job, Level, Value
    <3>8. TypeOK'  BY <1>2, <1>3, <2>1, <3>2, <3>3, <3>6, <3>7 DEF TypeOK, call
    <3>9. \A w \in Workers, y \in Keys : \A u : local'[w][y] = u => u = local[w][y] \/ Sound(y, u)'
      <4> SUFFICES ASSUME NEW w \in Workers, NEW y \in Keys, NEW u, local'[w][y] = u, u # local[w][y]
                   PROVE  Sound(y, u)'
        OBVIOUS
      <4>1. u = Nothing \/ (y = k /\ u = "text")  BY <3>6
      <4> QED BY <3>5, <4>1 DEF Sound
    <3>10. \A i \in jobs' : i \in jobs \/ Sound(i.key, i.value)'
      BY <3>3, <3>5, <3>7
    <3>11. LevelsAreSound'  BY <1>2, <2>1, <3>9, <3>10, LevelsKept
    <3> QED BY <3>5, <3>6, <3>8, <3>11
  <2>3. CASE rows[k] = Nothing
    <3>1. Goto(r, "embed") /\ UNCHANGED <<vec, local, jobs>>  BY <1>0, <1>8, <2>3 DEF LookDatabase
    <3>2. pc'[r] = "embed"  BY <3>1 DEF Goto, TypeOK
    <3>3. StageInv'  BY <3>1, <3>2, <1>5
    <3>4. TypeOK'  BY <1>2, <1>3, <2>1, <3>1 DEF TypeOK, call
    <3>5. LevelsAreSound'  BY <1>2, <2>1, <3>1, LevelsKept
    <3> QED BY <3>1, <3>3, <3>4, <3>5, LocalKept
  <2> QED BY <2>2, <2>3
<1>9. CASE Embed(r)
  <2> DEFINE new == {Write(r, level, k, "vector") : level \in {"local", "database"}}
  <2>1. /\ vec' = [vec EXCEPT ![r] = "vector"] /\ pc' = [pc EXCEPT ![r] = "search"]
        /\ jobs' = jobs \cup new
        /\ UNCHANGED <<local, shared, rows>>
    BY <1>0, <1>9 DEF Embed, Goto, levels
  <2>2. pc'[r] = "search" /\ "vector" \in Embedding  BY <2>1 DEF TypeOK, Embedding
  <2>3. StageInv' /\ Sound(k, "vector")'  BY <2>1, <2>2, <1>4
  <2>4. \A j \in new : j \in Job /\ j.key = k /\ j.value = "vector"
    BY <1>0, <2>2 DEF Write, Job, Level, Value
  <2>5. TypeOK'  BY <1>2, <1>3, <2>1, <2>2, <2>4 DEF TypeOK, call
  <2>6. \A i \in jobs' : i \in jobs \/ Sound(i.key, i.value)'
    BY <2>1, <2>3, <2>4
  <2>7. LevelsAreSound'  BY <1>2, <2>1, <2>6, LevelsKept
  <2> QED BY <2>1, <2>3, <2>5, <2>7, LocalKept
<1> QED BY <1>6, <1>7, <1>8, <1>9

\* A request that writes neither a level nor a job, and gets no answer from one.
LEMMA PlainStep ==
  ASSUME AnswersInv, NEW r \in Requests, Greet(r) \/ RejectEmbedding(r) \/ Raise(r)
  PROVE  AnswersInv'
<1> USE DEF AnswersInv
<1>1. RequestStep(r)  BY DEF RequestStep
<1>2. /\ UNCHANGED <<call, rows>>
      /\ \A s \in Requests \ {r} :
           pc'[s] = pc[s] /\ vec'[s] = vec[s] /\ ranked'[s] = ranked[s] /\ answer'[s] = answer[s]
      /\ \A s \in Requests : Persists(s)
      /\ pc' \in [Requests -> Stage] /\ ranked' \in [Requests -> Rankings]
  BY <1>1, StepOfRequest DEF Persists
<1>3. UNCHANGED <<vec, ranked, local, shared, rows, searched, jobs>>
  BY DEF Greet, RejectEmbedding, Raise, levels
<1>4. answer' \in [Requests -> Requests \cup {Nothing}]
  BY DEF Greet, RejectEmbedding, Raise, TypeOK
<1>5. TypeOK'  BY <1>2, <1>3, <1>4 DEF TypeOK, call
<1>6. LevelsAreSound'  BY <1>2, <1>3, LevelsKept
<1>7. /\ pc'[r] \in {"ended", "unusable"}
      /\ pc'[r] = "unusable" => /\ vec[r] = "text" /\ answer'[r] = Nothing
                                /\ question[r] \notin SmallTalk
      /\ question[r] \in SmallTalk \/ answer'[r] = answer[r]
  BY DEF Greet, RejectEmbedding, Raise, Goto, TypeOK, StageInv, StageOf
<1>8. StageOf(r)'
  <2>1. vec'[r] = "text" => Embedded(question[r])'
    BY <1>2, <1>3 DEF StageInv, StageOf, Embedded, Persists, call
  <2>2. answer'[r] # Nothing /\ question[r] \notin SmallTalk => Fits(answer[r], AnswerKey(question[r], ranked[r]))'
    BY <1>2, <1>3, <1>7 DEF StageInv, StageOf, Fits, AnswerKey, Persists, call
  <2> QED BY <1>2, <1>3, <1>7, <2>1, <2>2 DEF StageOf, call
<1>9. StageInv'  BY <1>2, <1>8, StageKept DEF StageInv
<1> QED BY <1>3, <1>5, <1>6, <1>9, LocalKept

\* A request that ranks, and finds an answer in its worker or not.
LEMMA RankingStep ==
  ASSUME AnswersInv, NEW r \in Requests, ReuseSearch(r) \/ Search(r)
  PROVE  AnswersInv'
<1> USE DEF AnswersInv
<1>1. RequestStep(r)  BY DEF RequestStep
<1>2. /\ UNCHANGED <<call, rows>>
      /\ \A s \in Requests \ {r} :
           pc'[s] = pc[s] /\ vec'[s] = vec[s] /\ ranked'[s] = ranked[s] /\ answer'[s] = answer[s]
      /\ \A s \in Requests : Persists(s)
      /\ pc' \in [Requests -> Stage] /\ ranked' \in [Requests -> Rankings]
  BY <1>1, StepOfRequest DEF Persists
<1>3. PICK ranking \in Rankings : Rank(r, ranking)  BY DEF ReuseSearch, Search
<1>4. pc[r] = "search" /\ UNCHANGED jobs /\ searched' \subseteq Questions
  BY DEF ReuseSearch, Search, TypeOK
<1>5. PICK k \in Keys :
        /\ k = AnswerKey(question[r], ranking) /\ k.kind = "answer" /\ k.question = question[r]
        /\ k.texts = Texts(ranking)
        /\ worker[r] \in Workers /\ question[r] \in Questions
  BY KeysOfQuestions DEF TypeOK
<1>6. /\ ranked'[r] = ranking /\ UNCHANGED <<call, vec, shared, rows>>
      /\ answer[r] = Nothing /\ question[r] \notin SmallTalk
  BY <1>3, <1>4 DEF Rank, TypeOK, StageInv, StageOf
<1>7. vec'[r] = "text" => Embedded(question[r])'
  BY <1>2, <1>6 DEF StageInv, StageOf, Embedded, Persists, call
<1>8. CASE /\ local[worker[r]][k] # Nothing
           /\ answer' = [answer EXCEPT ![r] = local[worker[r]][k]]
           /\ Goto(r, "ended")
           /\ UNCHANGED local
  <2>1. PICK a : a = local[worker[r]][k]  OBVIOUS
  <2>2. Fits(a, k)  BY <1>5, <1>8, <2>1 DEF LevelsAreSound, Sound
  <2>3. a \in Requests /\ Fits(a, k)'  BY <1>2, <2>2, SoundRemains DEF Fits
  <2>4. answer'[r] = a /\ pc'[r] = "ended"  BY <1>8, <2>1 DEF TypeOK, Goto
  <2>5. StageOf(r)'
    BY <1>2, <1>5, <1>6, <1>7, <2>3, <2>4 DEF StageOf, Fits, AnswerKey, call
  <2>6. StageInv'  BY <1>2, <2>5, StageKept DEF StageInv
  <2>7. TypeOK'  BY <1>2, <1>4, <1>6, <1>8, <2>1, <2>3 DEF TypeOK, call
  <2>8. LevelsAreSound'  BY <1>2, <1>4, <1>6, <1>8, LevelsKept
  <2> QED BY <1>8, <2>6, <2>7, <2>8, LocalKept
<1>9. CASE Forget(worker[r], k) /\ Goto(r, "answerRedis") /\ UNCHANGED answer
  <2>1. pc'[r] = "answerRedis"  BY <1>9 DEF TypeOK, Goto
  <2>2. StageOf(r)'  BY <1>6, <1>7, <1>9, <2>1 DEF StageOf, call
  <2>3. StageInv'  BY <1>2, <2>2, StageKept DEF StageInv
  <2>4. /\ local' \in [Workers -> [Keys -> Value \cup {Nothing}]]
        /\ \A x \in Workers, y \in Keys : local'[x][y] = local[x][y] \/ local'[x][y] = Nothing
        /\ HeldIsFinite' /\ LocalBounded'
    BY <1>5, <1>9, ForgetDrops DEF TypeOK
  <2>5. TypeOK'  BY <1>2, <1>4, <1>6, <1>9, <2>4 DEF TypeOK, call
  <2>6. \A w \in Workers, y \in Keys : \A v : local'[w][y] = v => v = local[w][y] \/ Sound(y, v)'
    BY <2>4 DEF Sound
  <2>7. LevelsAreSound'  BY <1>2, <1>4, <1>6, <2>6, LevelsKept
  <2> QED BY <2>3, <2>4, <2>5, <2>7
<1> QED BY <1>3, <1>5, <1>8, <1>9 DEF Rank

\* A request that has ranked and looks further, or generates an answer.
LEMMA AnsweringStep ==
  ASSUME AnswersInv, NEW r \in Requests, AnswerFromRedis(r) \/ AnswerFromDatabase(r) \/ Generate(r)
  PROVE  AnswersInv'
<1> USE DEF AnswersInv
<1>1. RequestStep(r)  BY DEF RequestStep
<1>2. /\ UNCHANGED <<call, rows>>
      /\ \A s \in Requests \ {r} :
           pc'[s] = pc[s] /\ vec'[s] = vec[s] /\ ranked'[s] = ranked[s] /\ answer'[s] = answer[s]
      /\ \A s \in Requests : Persists(s)
      /\ pc' \in [Requests -> Stage] /\ ranked' \in [Requests -> Rankings]
  BY <1>1, StepOfRequest DEF Persists
<1>3. PICK k \in Keys :
        /\ k = AnswerKey(question[r], ranked[r]) /\ k.kind = "answer" /\ k.question = question[r]
        /\ k.texts = Texts(ranked[r])
        /\ worker[r] \in Workers /\ question[r] \in Questions
  BY KeysOfQuestions DEF TypeOK
<1>4. /\ pc[r] \in {"answerRedis", "answerDatabase", "model"}
      /\ UNCHANGED <<vec, ranked, rows, searched>>
      /\ answer[r] = Nothing /\ question[r] \notin SmallTalk
  BY DEF AnswerFromRedis, AnswerFromDatabase, Generate, levels, StageInv, StageOf
<1>5. vec'[r] = "text" => Embedded(question[r])'
  BY <1>2, <1>4 DEF StageInv, StageOf, Embedded, Persists, call
\* What comes from a level, or from the model.
<1>6. ASSUME NEW a, answer' = [answer EXCEPT ![r] = a], pc'[r] = "ended", Fits(a, k)'
      PROVE  StageInv' /\ answer' \in [Requests -> Requests \cup {Nothing}]
  <2>1. a \in Requests /\ answer'[r] = a  BY <1>6 DEF Fits, TypeOK
  <2>2. StageOf(r)'
    BY <1>2, <1>3, <1>4, <1>5, <1>6, <2>1 DEF StageOf, Fits, AnswerKey, call
  <2>3. StageInv'  BY <1>2, <2>2, StageKept DEF StageInv
  <2> QED BY <1>6, <2>1, <2>3 DEF TypeOK
<1>7. ASSUME pc'[r] \in {"answerDatabase", "model"}, UNCHANGED answer PROVE StageInv'
  <2>1. answer'[r] # Nothing /\ question[r] \notin SmallTalk => Fits(answer[r], AnswerKey(question[r], ranked[r]))'
    BY <1>2, <1>4, <1>7 DEF StageInv, StageOf, Fits, AnswerKey, Persists, call
  <2>2. StageOf(r)'  BY <1>2, <1>4, <1>5, <1>7, <2>1 DEF StageOf, call
  <2> QED BY <1>2, <2>2, StageKept DEF StageInv
<1>8. CASE AnswerFromRedis(r)
  <2>1. pc[r] = "answerRedis" /\ UNCHANGED jobs  BY <1>8 DEF AnswerFromRedis
  <2>2. CASE /\ shared[k] # Nothing /\ answer' = [answer EXCEPT ![r] = shared[k]]
             /\ Remember(worker[r], k, shared[k]) /\ Goto(r, "ended") /\ UNCHANGED shared
    <3>1. PICK a : a = shared[k]  OBVIOUS
    <3>2. Fits(a, k)  BY <1>3, <2>2, <3>1 DEF LevelsAreSound, Sound
    <3>3. a \in Requests /\ Fits(a, k)'  BY <1>2, <3>2, SoundRemains DEF Fits
    <3>4. pc'[r] = "ended"  BY <2>2 DEF TypeOK, Goto
    <3>5. StageInv' /\ answer' \in [Requests -> Requests \cup {Nothing}]
      BY <2>2, <3>1, <3>3, <3>4, <1>6
    <3>6. /\ local' \in [Workers -> [Keys -> Value \cup {Nothing}]]
          /\ \A x \in Workers, y \in Keys :
               \/ local'[x][y] = local[x][y] \/ local'[x][y] = Nothing
               \/ x = worker[r] /\ y = k /\ local'[x][y] = a
          /\ HeldIsFinite' /\ LocalBounded'
      BY <1>3, <2>2, <3>1, <3>3, RememberAdds DEF TypeOK, Value
    <3>7. TypeOK'  BY <1>2, <1>4, <2>1, <2>2, <3>5, <3>6 DEF TypeOK, call
    <3>8. Sound(k, a)'  BY <1>3, <3>3 DEF Sound
    <3>9. \A w \in Workers, y \in Keys : \A u : local'[w][y] = u => u = local[w][y] \/ Sound(y, u)'
      <4> SUFFICES ASSUME NEW w \in Workers, NEW y \in Keys, NEW u, local'[w][y] = u, u # local[w][y]
                   PROVE  Sound(y, u)'
        OBVIOUS
      <4>1. u = Nothing \/ (y = k /\ u = a)  BY <3>6
      <4> QED BY <3>8, <4>1 DEF Sound
    <3>10. LevelsAreSound'  BY <1>2, <2>1, <2>2, <3>9, LevelsKept
    <3> QED BY <3>5, <3>6, <3>7, <3>10
  <2>3. CASE shared' = [shared EXCEPT ![k] = Nothing] /\ Goto(r, "answerDatabase") /\ UNCHANGED <<answer, local>>
    <3>1. pc'[r] = "answerDatabase"  BY <2>3 DEF TypeOK, Goto
    <3>2. StageInv'  BY <2>3, <3>1, <1>7
    <3>3. TypeOK'  BY <1>2, <1>4, <2>1, <2>3 DEF TypeOK, call
    <3>4. \A y \in Keys : \A v : shared'[y] = v => v = shared[y] \/ Sound(y, v)'
      BY <2>3 DEF Sound, TypeOK
    <3>5. LevelsAreSound'  BY <1>2, <2>1, <2>3, <3>4, LevelsKept
    <3> QED BY <2>3, <3>2, <3>3, <3>5, LocalKept
  <2> QED BY <1>3, <1>8, <2>2, <2>3 DEF AnswerFromRedis
<1>9. CASE AnswerFromDatabase(r)
  <2>1. pc[r] = "answerDatabase" /\ UNCHANGED <<local, shared, rows>>
    BY <1>9 DEF AnswerFromDatabase, levels
  <2>2. CASE rows[k] # Nothing
    <3>1. PICK a : a = rows[k]  OBVIOUS
    <3> DEFINE j == Write(r, "local", k, a)
    <3>2. Fits(a, k)  BY <1>3, <2>2, <3>1 DEF LevelsAreSound, Sound
    <3>3. a \in Requests /\ Fits(a, k)'  BY <1>2, <3>2, SoundRemains DEF Fits
    <3>4. /\ answer' = [answer EXCEPT ![r] = a]
          /\ jobs' = jobs \cup {j}
          /\ pc'[r] = "ended"
      BY <1>3, <1>9, <2>2, <3>1 DEF AnswerFromDatabase, Goto, TypeOK
    <3>5. StageInv' /\ answer' \in [Requests -> Requests \cup {Nothing}]
      BY <3>3, <3>4, <1>6
    <3>6. j \in Job /\ j.key = k /\ j.value = a
      BY <3>3 DEF Write, Job, Level, Value
    <3>7. TypeOK'  BY <1>2, <1>4, <2>1, <3>4, <3>5, <3>6 DEF TypeOK, call
    <3>8. Sound(k, a)'  BY <1>3, <3>3 DEF Sound
    <3>9. \A i \in jobs' : i \in jobs \/ Sound(i.key, i.value)'  BY <3>4, <3>6, <3>8
    <3>10. LevelsAreSound'  BY <1>2, <2>1, <3>9, LevelsKept
    <3> QED BY <2>1, <3>5, <3>7, <3>10, LocalKept
  <2>3. CASE rows[k] = Nothing
    <3>1. Goto(r, "model") /\ UNCHANGED <<answer, jobs>>
      BY <1>3, <1>9, <2>3 DEF AnswerFromDatabase
    <3>2. pc'[r] = "model"  BY <3>1 DEF TypeOK, Goto
    <3>3. StageInv'  BY <3>1, <3>2, <1>7
    <3>4. TypeOK'  BY <1>2, <1>4, <2>1, <3>1 DEF TypeOK, call
    <3>5. LevelsAreSound'  BY <1>2, <2>1, <3>1, LevelsKept
    <3> QED BY <2>1, <3>3, <3>4, <3>5, LocalKept
  <2> QED BY <2>2, <2>3
<1>10. CASE Generate(r)
  <2> DEFINE new == {Write(r, level, k, r) : level \in {"local", "database"}}
  <2>1. /\ answer' = [answer EXCEPT ![r] = r] /\ pc'[r] = "ended"
        /\ jobs' = jobs \cup new
        /\ UNCHANGED <<local, shared, rows>>
    BY <1>3, <1>10 DEF Generate, Goto, levels, TypeOK
  <2>2. Fits(r, k)'  BY <1>2, <1>3, <1>4, <2>1 DEF Fits, call, TypeOK
  <2>3. StageInv' /\ answer' \in [Requests -> Requests \cup {Nothing}]
    BY <2>1, <2>2, <1>6
  <2>4. \A j \in new : j \in Job /\ j.key = k /\ j.value = r
    BY DEF Write, Job, Level, Value
  <2>5. TypeOK'  BY <1>2, <1>4, <2>1, <2>3, <2>4 DEF TypeOK, call
  <2>6. Sound(k, r)'  BY <1>3, <2>2 DEF Sound
  <2>7. \A i \in jobs' : i \in jobs \/ Sound(i.key, i.value)'  BY <2>1, <2>4, <2>6
  <2>8. LevelsAreSound'  BY <1>2, <2>1, <2>7, LevelsKept
  <2> QED BY <2>1, <2>3, <2>5, <2>8, LocalKept
<1> QED BY <1>8, <1>9, <1>10

-----------------------------------------------------------------------------
(* The tasks, and the workers *)

LEMMA JobsStep ==
  ASSUME AnswersInv, NEW j \in jobs, JobStep(j)
  PROVE  AnswersInv'
<1> USE DEF AnswersInv
<1>1. UNCHANGED call /\ \A r \in Requests : Persists(r)
  BY StepPersists DEF Next
<1>2. /\ j \in Job /\ j.key \in Keys /\ j.value \in Value /\ worker[j.by] \in Workers
      /\ Sound(j.key, j.value)'
      /\ UNCHANGED request /\ UNCHANGED searched
  BY <1>1, SoundRemains
     DEF TypeOK, Job, LevelsAreSound, JobStep, WriteLocal, WriteRedis, WriteDatabase
<1>3. StageInv'  BY <1>1, <1>2, StageKept DEF StageInv, request
<1>4. CASE WriteLocal(j)
  <2> DEFINE next == [j EXCEPT !.level = "redis"]
  <2>1. /\ Remember(worker[j.by], j.key, j.value) /\ jobs' = (jobs \ {j}) \cup {next}
        /\ UNCHANGED <<shared, rows>>
    BY <1>4 DEF WriteLocal
  <2>2. /\ local' \in [Workers -> [Keys -> Value \cup {Nothing}]]
        /\ \A x \in Workers, y \in Keys :
             \/ local'[x][y] = local[x][y] \/ local'[x][y] = Nothing
             \/ x = worker[j.by] /\ y = j.key /\ local'[x][y] = j.value
        /\ HeldIsFinite' /\ LocalBounded'
    BY <1>2, <2>1, RememberAdds DEF TypeOK
  <2>3. next \in Job /\ next.key = j.key /\ next.value = j.value  BY <1>2 DEF Job, Level
  <2>4. TypeOK'  BY <1>1, <1>2, <2>1, <2>2, <2>3 DEF TypeOK, call, request
  <2>5. \A w \in Workers, y \in Keys : \A u : local'[w][y] = u => u = local[w][y] \/ Sound(y, u)'
    <3> SUFFICES ASSUME NEW w \in Workers, NEW y \in Keys, NEW u, local'[w][y] = u, u # local[w][y]
                 PROVE  Sound(y, u)'
      OBVIOUS
    <3>1. u = Nothing \/ (y = j.key /\ u = j.value)  BY <2>2
    <3> QED BY <1>2, <3>1 DEF Sound
  <2>6. \A i \in jobs' : i \in jobs \/ Sound(i.key, i.value)'  BY <1>2, <2>1, <2>3
  <2>7. LevelsAreSound'  BY <1>1, <2>1, <2>5, <2>6, LevelsKept
  <2> QED BY <1>3, <2>2, <2>4, <2>7
<1>5. CASE WriteRedis(j)
  <2>1. /\ shared' = [shared EXCEPT ![j.key] = j.value] \/ UNCHANGED shared
        /\ jobs' = jobs \ {j} /\ UNCHANGED <<local, rows>>
    BY <1>5 DEF WriteRedis
  <2>2. TypeOK'  BY <1>1, <1>2, <2>1 DEF TypeOK, call, request
  <2>3. \A y \in Keys : \A v : shared'[y] = v => v = shared[y] \/ Sound(y, v)'
    BY <1>2, <2>1 DEF TypeOK
  <2>4. LevelsAreSound'  BY <1>1, <2>1, <2>3, LevelsKept
  <2> QED BY <1>3, <2>1, <2>2, <2>4, LocalKept
<1>6. CASE WriteDatabase(j)
  <2>1. /\ rows' = [rows EXCEPT ![j.key] = j.value] \/ UNCHANGED rows
        /\ jobs' = jobs \ {j} /\ UNCHANGED <<local, shared>>
    BY <1>2, <1>6 DEF WriteDatabase, TypeOK
  <2>2. TypeOK'  BY <1>1, <1>2, <2>1 DEF TypeOK, call, request
  <2>3. \A y \in Keys : \A v : rows'[y] = v => v = rows[y] \/ Sound(y, v)'
    BY <1>2, <2>1 DEF TypeOK
  <2>4. LevelsAreSound'  BY <1>1, <2>1, <2>3, LevelsKept
  <2> QED BY <1>3, <2>1, <2>2, <2>4, LocalKept
<1> QED BY <1>4, <1>5, <1>6 DEF JobStep

LEMMA RestartStep ==
  ASSUME AnswersInv, NEW w \in Workers, Restart(w)
  PROVE  AnswersInv'
<1> USE DEF AnswersInv
<1>1. UNCHANGED call /\ \A r \in Requests : Persists(r)
  BY StepPersists DEF Next
<1>2. /\ UNCHANGED <<vec, ranked, answer, shared, rows, searched>>
      /\ local' = [local EXCEPT ![w] = Empty] /\ jobs' \subseteq jobs
      /\ \A r \in Requests :
           pc'[r] = pc[r] \/ (pc'[r] = "ended" /\ pc[r] # "unusable")
      /\ pc' \in [Requests -> Stage]
  BY DEF Restart, TypeOK, Stage
<1>3. TypeOK'
  <2>1. Empty \in [Keys -> Value \cup {Nothing}]  BY DEF Empty
  <2> QED BY <1>1, <1>2, <2>1 DEF TypeOK, call
<1>4. LevelsAreSound'
  <2>1. \A x \in Workers, y \in Keys : \A u : local'[x][y] = u => u = local[x][y] \/ Sound(y, u)'
    BY <1>2 DEF TypeOK, Empty, Sound
  <2> QED BY <1>1, <1>2, <2>1, LevelsKept
<1>5. StageInv'
  <2> SUFFICES ASSUME NEW r \in Requests PROVE StageOf(r)'  BY DEF StageInv
  <2>1. CASE pc'[r] = pc[r]  BY <1>1, <1>2, <2>1, StageKept DEF StageInv
  <2>2. CASE pc'[r] = "ended"
    <3>1. vec'[r] = "text" => Embedded(question[r])'
      BY <1>1, <1>2 DEF StageInv, StageOf, Embedded, Persists, call
    <3>2. answer'[r] # Nothing /\ question[r] \notin SmallTalk => Fits(answer[r], AnswerKey(question[r], ranked[r]))'
      BY <1>1, <1>2 DEF StageInv, StageOf, Fits, AnswerKey, Persists, call
    <3> QED BY <1>1, <2>2, <3>1, <3>2 DEF StageOf, call
  <2> QED BY <1>2, <2>1, <2>2
<1>6. HeldIsFinite' /\ LocalBounded'
  <2>1. \A x \in Workers : Held(x)' = IF x = w THEN {} ELSE Held(x)
    BY <1>2 DEF Held, Empty, TypeOK
  <2>2. IsFiniteSet({}) /\ Cardinality({}) = 0  BY FS_EmptySet
  <2> QED BY <2>1, <2>2, SizeAssumption DEF HeldIsFinite, LocalBounded
<1> QED BY <1>3, <1>4, <1>5, <1>6

-----------------------------------------------------------------------------
(* The whole *)

LEMMA AnswersInit == Init => AnswersInv
<1> SUFFICES ASSUME Init PROVE AnswersInv  OBVIOUS
<1> USE RequestAssumption, SizeAssumption, RankingAssumption DEF Init
<1>1. TypeOK  BY DEF TypeOK, Stage, Empty
<1>2. LevelsAreSound  BY DEF LevelsAreSound, Sound, Empty
<1>3. StageInv  BY DEF StageInv, StageOf
<1>4. \A w \in Workers : Held(w) = {}  BY DEF Held, Empty
<1>5. IsFiniteSet({}) /\ Cardinality({}) = 0  BY FS_EmptySet
<1>6. \A w \in Workers : IsFiniteSet(Held(w)) /\ Cardinality(Held(w)) = 0
  <2> HIDE DEF Init
  <2> QED BY <1>4, <1>5
<1>7. HeldIsFinite /\ LocalBounded
  <2> HIDE DEF Init
  <2> QED BY <1>6 DEF HeldIsFinite, LocalBounded
<1> QED BY <1>1, <1>2, <1>3, <1>7 DEF AnswersInv

\* The inductive invariant of the caches, for any number of requests, workers,
\* questions and rankings, and any size of the local tables.
THEOREM AnswersInvariant == Spec => []AnswersInv
<1>1. AnswersInv /\ [Next]_vars => AnswersInv'
  <2> SUFFICES ASSUME AnswersInv, [Next]_vars PROVE AnswersInv'  OBVIOUS
  <2>1. ASSUME NEW r \in Requests, RequestStep(r) PROVE AnswersInv'
    BY <2>1, PlainStep, EmbeddingStep, RankingStep, AnsweringStep DEF RequestStep
  <2>2. ASSUME NEW j \in jobs, JobStep(j) PROVE AnswersInv'  BY <2>2, JobsStep
  <2>3. ASSUME NEW w \in Workers, Restart(w) PROVE AnswersInv'  BY <2>3, RestartStep
  <2>4. CASE UNCHANGED vars
    <3>1. UNCHANGED call /\ \A r \in Requests : Persists(r)  BY StepPersists
    <3>2. UNCHANGED <<request, local, shared, rows, searched, jobs>>  BY <2>4 DEF vars, levels
    <3>3. LevelsAreSound'  BY <3>1, <3>2, LevelsKept DEF AnswersInv
    <3>4. StageInv'  BY <3>1, <3>2, StageKept DEF AnswersInv, StageInv, request
    <3>5. TypeOK'  BY <3>1, <3>2 DEF AnswersInv, TypeOK, call, request
    <3> QED BY <3>2, <3>3, <3>4, <3>5, LocalKept DEF AnswersInv
  <2> QED BY <2>1, <2>2, <2>3, <2>4 DEF Next
<1> QED BY AnswersInit, <1>1, PTL DEF Spec

\* An answer was generated for the question and from the chunks of its request.
THEOREM AnswersFit == Spec => []AnswerFitsQuestion
<1>1. AnswersInv => AnswerFitsQuestion
  BY DEF AnswersInv, StageInv, StageOf, Fits, AnswerKey, AnswerFitsQuestion
<1> QED BY <1>1, AnswersInvariant, PTL

\* A question whose embedding is of no use is a repetition.
THEOREM FailuresAreRepetitions == Spec => []OnlyRepetitionsFail
<1>1. AnswersInv => OnlyRepetitionsFail
  BY DEF AnswersInv, StageInv, StageOf, Embedded, OnlyRepetitionsFail
<1> QED BY <1>1, AnswersInvariant, PTL

\* The table of a worker stays within its maximum.
THEOREM TablesAreBounded == Spec => []LocalBounded
<1>1. AnswersInv => LocalBounded  BY DEF AnswersInv
<1> QED BY <1>1, AnswersInvariant, PTL

-----------------------------------------------------------------------------
(* The caches implement a memory of the model's answers *)

LEMMA ServiceInit == Init => Service!Init
<1> SUFFICES ASSUME Init PROVE Service!Init  OBVIOUS
<1>1. Texts(<< >>) = {}  BY DEF Texts
<1> QED BY <1>1 DEF Init, Service!Init

\* What a request finds under the key of its answer is what the model has answered.
LEMMA FoundIsAnswered ==
  ASSUME AnswersInv, NEW r \in Requests, NEW ranking \in Rankings, NEW a, a # Nothing,
         Sound(AnswerKey(question[r], ranking), a)
  PROVE  a \in Requests /\ Service!Answered(a, question[r], Texts(ranking))
<1>1. question[r] \in Questions  BY DEF AnswersInv, TypeOK
<1>2. Fits(a, AnswerKey(question[r], ranking))  BY <1>1, KeysOfQuestions DEF Sound
<1>3. a \in Requests /\ answer[a] = a /\ question[a] = question[r] /\ Texts(ranked[a]) = Texts(ranking)
  BY <1>1, <1>2, KeysOfQuestions DEF Fits
<1> QED BY <1>3 DEF Service!Answered

LEMMA ServiceStep ==
  ASSUME AnswersInv, [Next]_vars
  PROVE  [Service!Next]_(Service!vars)
<1> DEFINE context == [r \in Requests |-> Texts(ranked[r])]
           contexts == {Texts(ranking) : ranking \in Rankings}
<1> USE DEF AnswersInv
<1>0. UNCHANGED question  BY StepPersists DEF call
<1>1. ASSUME UNCHANGED <<ranked, answer>> PROVE UNCHANGED Service!vars
  BY <1>0, <1>1 DEF Service!vars
<1>2. ASSUME NEW r \in Requests, RequestStep(r) PROVE [Service!Next]_(Service!vars)
  <2>0. question[r] \in Questions /\ worker[r] \in Workers /\ ranked \in [Requests -> Rankings]
    BY DEF TypeOK
\* A request that finds the answer a after ranking.
  <2>1. ASSUME NEW ranking \in Rankings, NEW a,
               answer[r] = Nothing, question[r] \notin SmallTalk, a # Nothing,
               Sound(AnswerKey(question[r], ranking), a),
               ranked' = [ranked EXCEPT ![r] = ranking], answer' = [answer EXCEPT ![r] = a]
        PROVE  Service!Next
    <3>1. a \in Requests /\ Service!Answered(a, question[r], Texts(ranking))
      BY <2>1, FoundIsAnswered
    <3>2. context' = [context EXCEPT ![r] = Texts(ranking)]
      BY <2>0, <2>1
    <3>3. Texts(ranking) \in contexts  OBVIOUS
    <3>4. Service!Reuse(r, Texts(ranking), a)
      BY <1>0, <2>1, <3>1, <3>2 DEF Service!Reuse
    <3> QED BY <3>1, <3>3, <3>4 DEF Service!Next
  <2>2. CASE ReuseSearch(r) \/ Search(r)
    <3>1. pc[r] = "search" /\ \E ranking \in Rankings : Rank(r, ranking)
      BY <2>2 DEF ReuseSearch, Search
    <3>2. PICK ranking \in Rankings : Rank(r, ranking)  BY <3>1
    <3>3. answer[r] = Nothing /\ question[r] \notin SmallTalk
      BY <3>1 DEF StageInv, StageOf
    <3>4. ranked' = [ranked EXCEPT ![r] = ranking]  BY <3>2 DEF Rank
    <3> DEFINE k == AnswerKey(question[r], ranking)
    <3>5. CASE local[worker[r]][k] # Nothing /\ answer' = [answer EXCEPT ![r] = local[worker[r]][k]]
      <4>1. Sound(k, local[worker[r]][k])  BY <2>0, KeysOfQuestions DEF LevelsAreSound
      <4> QED BY <2>1, <3>3, <3>4, <3>5, <4>1
    <3>6. CASE UNCHANGED answer
      <4>1. context' = [context EXCEPT ![r] = Texts(ranking)]  BY <2>0, <3>4
      <4>2. Service!Retrieve(r, Texts(ranking))
        BY <1>0, <3>3, <3>6, <4>1 DEF Service!Retrieve
      <4> QED BY <4>2 DEF Service!Next
    <3> QED BY <3>2, <3>5, <3>6 DEF Rank
  <2>3. CASE AnswerFromRedis(r)
    <3> DEFINE k == AnswerKey(question[r], ranked[r])
    <3>1. pc[r] = "answerRedis" /\ UNCHANGED ranked  BY <2>3 DEF AnswerFromRedis
    <3>2. answer[r] = Nothing /\ question[r] \notin SmallTalk
      BY <3>1 DEF StageInv, StageOf
    <3>3. CASE shared[k] # Nothing /\ answer' = [answer EXCEPT ![r] = shared[k]]
      <4>1. Sound(k, shared[k])  BY <2>0, KeysOfQuestions DEF LevelsAreSound
      <4>2. ranked' = [ranked EXCEPT ![r] = ranked[r]] /\ ranked[r] \in Rankings  BY <2>0, <3>1
      <4> QED BY <2>1, <3>2, <3>3, <4>1, <4>2
    <3>4. CASE UNCHANGED answer  BY <1>1, <3>1, <3>4
    <3> QED BY <2>3, <3>3, <3>4 DEF AnswerFromRedis
  <2>4. CASE AnswerFromDatabase(r)
    <3> DEFINE k == AnswerKey(question[r], ranked[r])
    <3>1. pc[r] = "answerDatabase" /\ UNCHANGED ranked  BY <2>4 DEF AnswerFromDatabase
    <3>2. answer[r] = Nothing /\ question[r] \notin SmallTalk
      BY <3>1 DEF StageInv, StageOf
    <3>3. CASE rows[k] # Nothing /\ answer' = [answer EXCEPT ![r] = rows[k]]
      <4>1. Sound(k, rows[k])  BY <2>0, KeysOfQuestions DEF LevelsAreSound
      <4>2. ranked' = [ranked EXCEPT ![r] = ranked[r]] /\ ranked[r] \in Rankings  BY <2>0, <3>1
      <4> QED BY <2>1, <3>2, <3>3, <4>1, <4>2
    <3>4. CASE UNCHANGED answer  BY <1>1, <3>1, <3>4
    <3> QED BY <2>4, <3>3, <3>4 DEF AnswerFromDatabase
  <2>5. CASE Greet(r) \/ Generate(r)
    <3>1. UNCHANGED ranked /\ answer' = [answer EXCEPT ![r] = r] /\ answer[r] = Nothing
      BY <2>5 DEF Greet, Generate, StageInv, StageOf
    <3>2. Service!Generate(r)  BY <1>0, <3>1 DEF Service!Generate
    <3> QED BY <3>2 DEF Service!Next
  <2>6. CASE LookLocal(r) \/ LookRedis(r) \/ LookDatabase(r) \/ Embed(r) \/ RejectEmbedding(r) \/ Raise(r)
    <3>1. UNCHANGED <<ranked, answer>>
      BY <2>6 DEF LookLocal, LookRedis, LookDatabase, Embed, RejectEmbedding, Raise
    <3> QED BY <1>1, <3>1
  <2> QED BY <1>2, <2>2, <2>3, <2>4, <2>5, <2>6 DEF RequestStep
<1>3. ASSUME NEW j \in jobs, JobStep(j) PROVE [Service!Next]_(Service!vars)
  BY <1>1, <1>3 DEF JobStep, WriteLocal, WriteRedis, WriteDatabase, request
<1>4. ASSUME NEW w \in Workers, Restart(w) PROVE [Service!Next]_(Service!vars)
  BY <1>1, <1>4 DEF Restart
<1>5. CASE UNCHANGED vars  BY <1>1, <1>5 DEF vars, request
<1> QED BY <1>2, <1>3, <1>4, <1>5 DEF Next

\* The three levels cannot be told from a memory of what the model has answered, however
\* tasks, evictions, promotions, failures and restarts interleave.
THEOREM AnswersImplementService == Spec => ImplementsService
<1>1. AnswersInv /\ [Next]_vars => [Service!Next]_(Service!vars)
  BY ServiceStep
<1> QED BY ServiceInit, <1>1, AnswersInvariant, PTL DEF Spec, ImplementsService, Service!Spec

-----------------------------------------------------------------------------
(* The context: tokens *)

LEMMA TokensType ==
  ASSUME NEW b \in Int
  PROVE  Tokens(b) \in Nat \ {0} /\ b + 1 <= 6 * Tokens(b) + 6
<1>1. CASE b < 6
  BY <1>1 DEF Tokens
<1>2. CASE b >= 6
  <2>1. b \div 6 \in Int /\ 6 * (b \div 6) <= b /\ b <= 6 * (b \div 6) + 5
    OBVIOUS
  <2>2. Tokens(b) = b \div 6
    BY <1>2 DEF Tokens
  <2> QED
    BY <1>2, <2>1, <2>2
<1> QED
  BY <1>1, <1>2

LEMMA TokensAtMost ==
  ASSUME NEW b \in Int, NEW c \in Nat \ {0}, b <= 6 * c + 5
  PROVE  Tokens(b) <= c
<1>1. CASE b < 6
  BY <1>1 DEF Tokens
<1>2. CASE b >= 6
  <2>1. b \div 6 \in Int /\ 6 * (b \div 6) <= b
    OBVIOUS
  <2>2. Tokens(b) = b \div 6
    BY <1>2 DEF Tokens
  <2> QED
    BY <2>1, <2>2
<1> QED
  BY <1>1, <1>2

LEMMA TokensGrow ==
  ASSUME NEW a \in Int, NEW b \in Int, a <= b
  PROVE  Tokens(a) <= Tokens(b)
<1>1. Tokens(b) \in Nat \ {0} /\ b + 1 <= 6 * Tokens(b) + 6
  BY TokensType
<1>2. a <= 6 * Tokens(b) + 5
  BY <1>1
<1> QED
  BY <1>1, <1>2, TokensAtMost

-----------------------------------------------------------------------------
(* Sentences *)

\* Rounding loses less than a token, with the blank no more than one, for each sentence.
LEMMA RoundingBound ==
  ASSUME NEW S, IsFiniteSet(S), NEW f, NEW g,
         \A x \in S : f[x] \in Nat /\ g[x] \in Nat /\ f[x] <= 6 * g[x] + 6
  PROVE  SumFunctionOnSet(f, S) <= 6 * SumFunctionOnSet(g, S) + 6 * Cardinality(S)
<1> DEFINE F(s) == SumFunctionOnSet(f, s)
           G(s) == SumFunctionOnSet(g, s)
           P == {s \in SUBSET S : F(s) <= 6 * G(s) + 6 * Cardinality(s)}
<1>1. ASSUME NEW s \in SUBSET S
      PROVE  /\ IsFiniteSet(s) /\ F(s) \in Nat /\ G(s) \in Nat /\ Cardinality(s) \in Nat
             /\ \A x \in s : F(s) = f[x] + F(s \ {x}) /\ G(s) = g[x] + G(s \ {x})
  <2>1. IsFiniteSet(s)
    BY FS_Subset
  <2>2. \A x \in s : f[x] \in Nat /\ g[x] \in Nat
    OBVIOUS
  <2> QED
    BY <2>1, <2>2, SumType, SumRemove, FS_CardinalityType
<1>2. ASSUME NEW s \in SUBSET S, \A x \in s : s \ {x} \in P PROVE s \in P
  <2>1. CASE s = {}
    <3>1. F(s) = 0 /\ G(s) = 0 /\ Cardinality(s) = 0
      BY <2>1, SumEmpty, FS_EmptySet
    <3> QED
      BY <3>1
  <2>2. CASE s # {}
    <3>1. PICK x \in s : TRUE
      BY <2>2
    <3> DEFINE r == s \ {x}
    <3>2. r \in P /\ r \in SUBSET S /\ Cardinality(r) = Cardinality(s) - 1
      BY <1>1, <1>2, FS_RemoveElement
    <3>3. F(s) = f[x] + F(r) /\ G(s) = g[x] + G(r)
      BY <1>1
    <3>4. F(r) <= 6 * G(r) + 6 * Cardinality(r)
      BY <3>2
    <3>5. f[x] \in Nat /\ g[x] \in Nat /\ f[x] <= 6 * g[x] + 6
      OBVIOUS
    <3>6. F(r) \in Nat /\ G(r) \in Nat /\ Cardinality(s) \in Nat
      BY <1>1, <3>2
    <3> HIDE DEF F, G, r
    <3>7. F(s) <= 6 * G(s) + 6 * Cardinality(s)
      BY <3>2, <3>3, <3>4, <3>5, <3>6
    <3> QED
      BY <3>7
  <2> QED
    BY <2>1, <2>2
<1>3. SUBSET S \subseteq P
  <2> HIDE DEF P
  <2> QED
    BY <1>2, SubsetInduction
<1> QED
  BY <1>3

LEMMA TextType ==
  ASSUME NEW h \in Hashes
  PROVE  LET text == Sentences[h]
         IN  /\ text \in Seq(DOMAIN Bytes) /\ Len(text) \in Nat
             /\ DOMAIN text = 1..Len(text) /\ IsFiniteSet(DOMAIN text)
             /\ \A i \in DOMAIN text : Bytes[text[i]] \in Nat /\ Density[text[i]] \in Nat
<1>1. Sentences[h] \in Seq(DOMAIN Bytes)
  BY ContextAssumption
<1>2. \A i \in DOMAIN Sentences[h] : Sentences[h][i] \in DOMAIN Bytes
  BY <1>1
<1>3. Len(Sentences[h]) \in Nat /\ DOMAIN Sentences[h] = 1..Len(Sentences[h])
  BY <1>1
<1>4. IsFiniteSet(1..Len(Sentences[h]))
  BY <1>3, FS_Interval
<1> QED
  BY <1>1, <1>2, <1>3, <1>4, ContextAssumption

LEMMA JoinedType ==
  ASSUME NEW h \in Hashes, NEW places \in SUBSET DOMAIN Sentences[h]
  PROVE  /\ Joined(Sentences[h], places) \in Int
         /\ Joined(Sentences[h], places) <= Joined(Sentences[h], DOMAIN Sentences[h])
<1> DEFINE text == Sentences[h]
           f == [i \in DOMAIN text |-> Bytes[text[i]] + 1]
<1>1. IsFiniteSet(DOMAIN text) /\ \A i \in DOMAIN text : f[i] \in Nat
  BY TextType
<1>2. IsFiniteSet(places)
  BY <1>1, FS_Subset
<1> HIDE DEF f
<1>3. /\ SumFunctionOnSet(f, places) \in Nat
      /\ SumFunctionOnSet(f, DOMAIN text) \in Nat
      /\ SumFunctionOnSet(f, places) <= SumFunctionOnSet(f, DOMAIN text)
  BY <1>1, <1>2, SumType, SumMonotone
<1> QED
  BY <1>3 DEF Joined, f

\* Of some sentences one comes last in the order of their scores.
LEMMA LastInOrder ==
  ASSUME NEW h \in Hashes, NEW U \in SUBSET DOMAIN Sentences[h], U # {}
  PROVE  \E i \in U : \A k \in U : Before(Sentences[h], k, i)
<1> DEFINE text == Sentences[h]
           P == {s \in SUBSET U : s # {} => \E i \in s : \A k \in s : Before(text, k, i)}
<1>1. IsFiniteSet(U) /\ \A i \in U : i \in Nat /\ Density[text[i]] \in Nat
  <2>1. DOMAIN text = 1..Len(text)
    BY TextType
  <2> QED
    BY <2>1, TextType, FS_Subset
<1>2. \A i, j \in U : Before(text, i, j) \/ Before(text, j, i)
  BY <1>1 DEF Before
<1>3. \A i, j, k \in U : Before(text, i, j) /\ Before(text, j, k) => Before(text, i, k)
  BY <1>1 DEF Before
<1>4. ASSUME NEW s \in SUBSET U, \A x \in s : s \ {x} \in P PROVE s \in P
  <2> SUFFICES ASSUME NEW z \in s PROVE \E i \in s : \A k \in s : Before(text, k, i)
    OBVIOUS
  <2>0. Before(text, z, z)
    BY <1>2
  <2>1. CASE s \ {z} = {}
    <3>1. \A k \in s : k = z
      BY <2>1
    <3> QED
      BY <2>0, <3>1
  <2>2. CASE s \ {z} # {}
    <3>1. PICK i \in s \ {z} : \A k \in s \ {z} : Before(text, k, i)
      BY <1>4, <2>2
    <3>2. CASE Before(text, z, i)
      <4>1. \A k \in s : Before(text, k, i)
        BY <3>1, <3>2
      <4> QED
        BY <4>1
    <3>3. CASE Before(text, i, z)
      <4>1. \A k \in s : Before(text, k, z)
        BY <1>3, <2>0, <3>1, <3>3
      <4> QED
        BY <4>1
    <3> QED
      BY <1>2, <3>2, <3>3
  <2> QED
    BY <2>1, <2>2
<1>5. SUBSET U \subseteq P
  <2> HIDE DEF P
  <2> QED
    BY <1>1, <1>4, SubsetInduction
<1> QED
  BY <1>5

-----------------------------------------------------------------------------
(* Excerpts *)

\* Without repetitions, what is kept are the sentences up to the first that does not fit.
LEMMA DistinctSentences ==
  ASSUME NEW h \in Hashes, Distinct(Sentences[h]),
         NEW i \in DOMAIN Sentences[h], NEW j \in DOMAIN Sentences[h],
         Sentences[h][i] = Sentences[h][j]
  PROVE  i = j
<1> DEFINE text == Sentences[h]
           n == Len(text)
           image == [x \in 1..n |-> text[x]]
<1>1. n \in Nat /\ DOMAIN text = 1..n
  BY TextType
<1>2. IsFiniteSet(1..n) /\ Cardinality(1..n) = n
  BY <1>1, FS_Interval
<1>3. SUFFICES ASSUME i # j PROVE FALSE
  OBVIOUS
<1>4. ToSet(text) = {text[x] : x \in (1..n) \ {j}}
  BY <1>1, <1>3 DEF ToSet
<1>5. Cardinality(ToSet(text)) <= Cardinality((1..n) \ {j})
  <2> DEFINE A == (1..n) \ {j}
             B == ToSet(text)
             f == [x \in A |-> text[x]]
  <2>1. IsFiniteSet(A)
    BY <1>2, FS_RemoveElement
  <2>2. f \in Surjection(A, B)
    BY <1>4 DEF Surjection
  <2> HIDE DEF A, B, f
  <2>3. Cardinality(B) <= Cardinality(A)
    BY <2>1, <2>2, FS_Surjection
  <2> QED
    BY <2>3 DEF A, B
<1>6. Cardinality((1..n) \ {j}) = n - 1
  <2>1. j \in 1..n
    BY <1>1
  <2> HIDE DEF n
  <2> QED
    BY <1>2, <2>1, FS_RemoveElement
<1> QED
  BY <1>1, <1>5, <1>6 DEF Distinct

LEMMA ExcerptFits ==
  ASSUME NEW h \in Hashes, NEW room \in Nat \ {0}
  PROVE  /\ ExcerptTokens(h, room) \in Nat
         /\ ExcerptTokens(h, room) <= room + Excess(h)
         /\ Excess(h) \in Nat
<1> DEFINE text == Sentences[h]
           K == Excerpt(h, room)
           D == DOMAIN text
           f == [k \in D |-> Bytes[text[k]] + 1]
           g == [k \in D |-> Tokens(Bytes[text[k]])]
           Upto(i) == {k \in D : Before(text, k, i)}
           I == {i \in D : SumFunctionOnSet(g, Upto(i)) <= room}
<1>1. /\ IsFiniteSet(D) /\ Len(text) \in Nat /\ D = 1..Len(text)
      /\ \A k \in D : Bytes[text[k]] \in Nat
  BY TextType
<1>2. K \in SUBSET D /\ K = {i \in D : \E j \in I : text[i] = text[j]}
  BY DEF Excerpt, Chosen
<1>3. Joined(text, K) \in Int /\ Joined(text, D) \in Int /\ Joined(text, K) <= Joined(text, D)
  <2> HIDE DEF K
  <2> QED
    BY <1>2, JoinedType
<1>4. ExcerptTokens(h, room) = Tokens(Joined(text, K)) /\ ChunkTokens(h) = Tokens(Joined(text, D))
  BY DEF ExcerptTokens, ChunkTokens
<1>5. ExcerptTokens(h, room) \in Nat /\ ChunkTokens(h) \in Nat /\ ExcerptTokens(h, room) <= ChunkTokens(h)
  <2> HIDE DEF K, D
  <2> QED
    BY <1>3, <1>4, TokensType, TokensGrow
<1>6. Excess(h) \in Nat
  BY <1>1, <1>5 DEF Excess
<1>7. CASE ~Distinct(text)
  BY <1>5, <1>7 DEF Excess
<1>8. CASE Distinct(text)
  <2>1. K = I
    BY <1>2, <1>8, DistinctSentences
  <2>2. SumFunctionOnSet(f, K) <= 6 * room + 6 * Len(text)
    <3>1. CASE I = {}
      <4> HIDE DEF f, K, I
      <4>1. SumFunctionOnSet(f, K) = 0
        BY <2>1, <3>1, SumEmpty
      <4> DEFINE n == Len(text)
      <4>2. n \in Nat
        BY <1>1
      <4> HIDE DEF n
      <4>3. 0 <= 6 * room + 6 * n
        BY <4>2
      <4> QED
        BY <4>1, <4>3 DEF n
    <3>2. CASE I # {}
      <4>1. I \in SUBSET D
        OBVIOUS
      <4> HIDE DEF I, f, g
      <4>2. PICK i \in I : \A k \in I : Before(text, k, i)
        BY <3>2, <4>1, LastInOrder
      <4>3. I \in SUBSET Upto(i) /\ SumFunctionOnSet(g, Upto(i)) <= room
        BY <4>1, <4>2 DEF I
      <4>4. \A k \in D : f[k] \in Nat /\ g[k] \in Nat /\ f[k] <= 6 * g[k] + 6
        <5> SUFFICES ASSUME NEW k \in D
                     PROVE  f[k] \in Nat /\ g[k] \in Nat /\ f[k] <= 6 * g[k] + 6
          OBVIOUS
        <5> DEFINE b == Bytes[text[k]]
        <5>1. b \in Nat
          BY <1>1
        <5>2. f[k] = b + 1 /\ g[k] = Tokens(b)
          BY DEF f, g
        <5> HIDE DEF b
        <5>3. Tokens(b) \in Nat /\ b + 1 <= 6 * Tokens(b) + 6
          BY <5>1, TokensType
        <5> QED
          BY <5>1, <5>2, <5>3
      <4>5. IsFiniteSet(Upto(i)) /\ IsFiniteSet(I)
        BY <1>1, <4>1, FS_Subset
      <4>6. SumFunctionOnSet(g, I) <= SumFunctionOnSet(g, Upto(i))
        BY <4>3, <4>4, <4>5, SumMonotone
      <4>7. SumFunctionOnSet(f, I) <= 6 * SumFunctionOnSet(g, I) + 6 * Cardinality(I)
        BY <4>1, <4>4, <4>5, RoundingBound
      <4>8. Cardinality(I) \in Nat /\ Cardinality(I) <= Len(text)
        <5>1. IsFiniteSet(1..Len(text)) /\ Cardinality(1..Len(text)) = Len(text)
          BY <1>1, FS_Interval
        <5>2. I \in SUBSET (1..Len(text))
          BY <1>1, <4>1
        <5> QED
          BY <5>1, <5>2, FS_Subset, FS_CardinalityType
      <4>9. SumFunctionOnSet(g, I) \in Nat /\ SumFunctionOnSet(g, Upto(i)) \in Nat /\ SumFunctionOnSet(f, I) \in Nat
        BY <4>1, <4>4, <4>5, SumType
      <4> DEFINE x == SumFunctionOnSet(f, I)
                 y == SumFunctionOnSet(g, I)
                 z == SumFunctionOnSet(g, Upto(i))
                 c == Cardinality(I)
                 n == Len(text)
      <4>10. /\ x \in Nat /\ y \in Nat /\ z \in Nat /\ c \in Nat /\ n \in Nat
             /\ x <= 6 * y + 6 * c /\ y <= z /\ z <= room /\ c <= n
        BY <1>1, <4>3, <4>6, <4>7, <4>8, <4>9
      <4> HIDE DEF x, y, z, c, n
      <4>11. x <= 6 * room + 6 * n
        BY <4>10
      <4> QED
        BY <2>1, <4>11 DEF x, n
    <3> QED
      BY <3>1, <3>2
  <2>3. Joined(text, K) <= 6 * (room + Len(text)) - 1
    <3>1. Joined(text, K) = SumFunctionOnSet(f, K) - 1
      BY DEF Joined
    <3> HIDE DEF K, f
    <3>2. SumFunctionOnSet(f, K) \in Nat
      <4>1. \A k \in D : f[k] \in Nat
        BY <1>1 DEF f
      <4>2. IsFiniteSet(K)
        BY <1>1, <1>2, FS_Subset
      <4> QED
        BY <1>2, <4>1, <4>2, SumType
    <3> DEFINE n == Len(text)
               x == SumFunctionOnSet(f, K)
    <3>3. n \in Nat /\ x \in Nat /\ x <= 6 * room + 6 * n
      BY <1>1, <2>2, <3>2
    <3> HIDE DEF n, x
    <3>4. x - 1 <= 6 * (room + n) - 1
      BY <3>3
    <3> QED
      BY <3>1, <3>4 DEF n, x
  <2>4. room + Len(text) \in Nat \ {0}
    BY <1>1
  <2>5. ExcerptTokens(h, room) <= room + Len(text)
    <3> DEFINE c == room + Len(text)
    <3>1. Joined(text, K) <= 6 * c + 5 /\ c \in Nat \ {0}
      BY <1>3, <2>3, <2>4
    <3> HIDE DEF c, K
    <3>2. Tokens(Joined(text, K)) <= c
      BY <1>3, <3>1, TokensAtMost
    <3> QED
      BY <1>4, <3>2 DEF c
  <2>6. Excess(h) = Len(text)
    BY <1>8 DEF Excess
  <2> QED
    BY <1>5, <1>6, <2>5, <2>6
<1> QED
  BY <1>5, <1>6, <1>7, <1>8

-----------------------------------------------------------------------------
(* Packing *)

\* What has been packed is within the budget, but for one excerpt.
Within(p) ==
  /\ p.used <= Budget \/ \E h \in p.excerpts : p.used <= Budget + Excess(h)

Packing == [used : Nat, full : SUBSET Hashes, excerpts : SUBSET Hashes]

WithinBudget == {p \in Packing : Within(p)}

LEMMA PackStays ==
  ASSUME NEW p \in WithinBudget, NEW h \in Hashes, NEW compress \in BOOLEAN
  PROVE  Pack(p, h, compress) \in WithinBudget
<1> DEFINE room == Budget - p.used
<1>1. p \in Packing /\ Within(p) /\ p.used \in Nat /\ Budget \in Nat /\ MinExcerpt \in Nat \ {0}
  BY ContextAssumption DEF WithinBudget, Packing
<1>2. ChunkTokens(h) \in Nat \ {0} /\ \A e \in p.excerpts : Excess(e) \in Nat
  <2>1. Joined(Sentences[h], DOMAIN Sentences[h]) \in Int
    BY JoinedType
  <2>2. \A e \in p.excerpts : e \in Hashes
    BY <1>1 DEF Packing
  <2>3. 1 \in Nat \ {0}
    OBVIOUS
  <2> QED
    BY <2>1, <2>2, <2>3, TokensType, ExcerptFits DEF ChunkTokens
<1>3. CASE p.used + ChunkTokens(h) <= Budget
  <2> DEFINE q == [p EXCEPT !.used = @ + ChunkTokens(h), !.full = @ \cup {h}]
  <2>1. Pack(p, h, compress) = q
    BY <1>3 DEF Pack
  <2>2. q \in Packing /\ q.used = p.used + ChunkTokens(h)
    <3> DEFINE c == ChunkTokens(h)
               new == p.full \cup {h}
               used == p.used + c
    <3>1. used \in Nat /\ new \in SUBSET Hashes
      BY <1>1, <1>2 DEF Packing
    <3>2. q = [p EXCEPT !.used = used, !.full = new]
      OBVIOUS
    <3> HIDE DEF q, c, new, used
    <3>3. /\ [p EXCEPT !.used = used, !.full = new] \in Packing
          /\ [p EXCEPT !.used = used, !.full = new].used = used
      <4>1. p \in Packing /\ used \in Nat /\ new \in SUBSET Hashes
        BY <1>1, <3>1
      <4> QED
        BY ONLY <4>1 DEF Packing
    <3>4. q \in Packing /\ q.used = used
      BY ONLY <3>2, <3>3
    <3> QED
      BY <3>4 DEF c, used
  <2> HIDE DEF q
  <2> QED
    BY <1>3, <2>1, <2>2 DEF WithinBudget, Within
<1>4. CASE /\ ~(p.used + ChunkTokens(h) <= Budget)
           /\ compress /\ 100 * p.used < 85 * Budget /\ Budget - p.used >= MinExcerpt
  <2> DEFINE q == [p EXCEPT !.used = @ + ExcerptTokens(h, room), !.excerpts = @ \cup {h}]
  <2>1. Pack(p, h, compress) = q
    BY <1>4 DEF Pack
  <2>2. room \in Nat \ {0}
    BY <1>1, <1>4
  <2>3. /\ ExcerptTokens(h, room) \in Nat /\ ExcerptTokens(h, room) <= room + Excess(h)
        /\ Excess(h) \in Nat
    <3> HIDE DEF room
    <3> QED
      BY <2>2, ExcerptFits
  <2>4. q \in Packing /\ q.used = p.used + ExcerptTokens(h, room) /\ h \in q.excerpts
    <3> DEFINE c == ExcerptTokens(h, room)
               new == p.excerpts \cup {h}
               used == p.used + c
    <3>1. used \in Nat /\ new \in SUBSET Hashes /\ h \in new
      BY <1>1, <2>3 DEF Packing
    <3>2. q = [p EXCEPT !.used = used, !.excerpts = new]
      OBVIOUS
    <3> HIDE DEF q, c, new, used
    <3>3. /\ [p EXCEPT !.used = used, !.excerpts = new] \in Packing
          /\ [p EXCEPT !.used = used, !.excerpts = new].used = used
          /\ [p EXCEPT !.used = used, !.excerpts = new].excerpts = new
      <4>1. p \in Packing /\ used \in Nat /\ new \in SUBSET Hashes
        BY <1>1, <3>1
      <4> QED
        BY ONLY <4>1 DEF Packing
    <3>4. q \in Packing /\ q.used = used /\ q.excerpts = new
      BY ONLY <3>2, <3>3
    <3> QED
      BY <3>1, <3>4 DEF c, used
  <2>5. p.used + ExcerptTokens(h, room) <= Budget + Excess(h)
    BY <1>1, <2>3
  <2> HIDE DEF q
  <2> QED
    BY <2>1, <2>4, <2>5 DEF WithinBudget, Within
<1>5. CASE /\ ~(p.used + ChunkTokens(h) <= Budget)
           /\ ~(compress /\ 100 * p.used < 85 * Budget /\ Budget - p.used >= MinExcerpt)
  BY <1>5 DEF Pack
<1> QED
  BY <1>3, <1>4, <1>5

LEMMA PackedStays ==
  ASSUME NEW ranking \in Seq(Hashes)
  PROVE  Packed(ranking) \in WithinBudget
<1> DEFINE n == Len(ranking)
           compress == n > 2
           Eq(g) == g = [s \in SUBSET DOMAIN ranking |->
                           IF s = {} THEN Unpacked
                           ELSE Pack(g[s \ {Max(s)}], ranking[Max(s)], Len(ranking) > 2)]
           op == [iv \in (1..n) \X WithinBudget |-> Pack(iv[2], ranking[iv[1]], Len(ranking) > 2)]
           G == CHOOSE g : Eq(g)
<1>1. n \in Nat /\ DOMAIN ranking = 1..n /\ \A i \in 1..n : ranking[i] \in Hashes
  OBVIOUS
<1>2. \A i \in 1..n, v \in WithinBudget :
        /\ op[<<i, v>>] = Pack(v, ranking[i], Len(ranking) > 2)
        /\ op[<<i, v>>] \in WithinBudget
  <2> SUFFICES ASSUME NEW i \in 1..n, NEW v \in WithinBudget
               PROVE  /\ op[<<i, v>>] = Pack(v, ranking[i], Len(ranking) > 2)
                      /\ op[<<i, v>>] \in WithinBudget
    OBVIOUS
  <2>1. op[<<i, v>>] = Pack(v, ranking[i], Len(ranking) > 2)
    OBVIOUS
  <2>2. Pack(v, ranking[i], Len(ranking) > 2) \in WithinBudget
    <3>1. ranking[i] \in Hashes /\ (Len(ranking) > 2) \in BOOLEAN
      BY <1>1
    <3> HIDE DEF n
    <3> QED
      BY <3>1, PackStays
  <2> HIDE DEF op
  <2> QED
    BY <2>1, <2>2
<1>3. Unpacked \in WithinBudget
  BY ContextAssumption DEF Unpacked, WithinBudget, Within, Packing
<1>4. PICK g \in [SUBSET (1..n) -> WithinBudget] : Walks(g, n, Unpacked, op)
  <2> HIDE DEF op, n
  <2> QED
    BY <1>1, <1>2, <1>3, WalkExists
<1>5. Eq(g)
  <2> HIDE DEF op, n
  <2>1. ASSUME NEW s \in SUBSET (1..n), s # {}
        PROVE  g[s] = Pack(g[s \ {Max(s)}], ranking[Max(s)], Len(ranking) > 2)
    <3>1. Max(s) \in 1..n /\ g[s \ {Max(s)}] \in WithinBudget
      BY <1>4, <2>1 DEF Walks
    <3> QED
      BY <1>2, <1>4, <2>1, <3>1 DEF Walks
  <2> QED
    BY <1>1, <1>4, <2>1 DEF Walks
<1>6. Eq(G)
  <2> HIDE DEF Eq
  <2> QED
    BY <1>5
<1>7. Packed(ranking) = G[1..n]
  BY <1>1 DEF Packed, FoldLeft, MapThenFoldSet
<1> HIDE DEF G, op
<1> DEFINE P == {k \in 0..n : G[1..k] \in WithinBudget}
<1>8. 0 \in P
  <2>1. 1..0 = {} /\ {} \in SUBSET (1..n)
    OBVIOUS
  <2>2. G[1..0] = Unpacked
    BY <1>1, <1>6, <2>1
  <2> QED
    BY <1>1, <1>3, <2>2
<1>9. ASSUME NEW k \in 0..(n - 1), k \in P PROVE k + 1 \in P
  <2>1. Max(1..(k + 1)) = k + 1 /\ (1..(k + 1)) \ {Max(1..(k + 1))} = 1..k
    <3>1. k + 1 \in Nat \ {0} /\ (k + 1) - 1 = k
      OBVIOUS
    <3> QED
      BY <3>1, MaxOfSegment
  <2>2. 1..(k + 1) \in SUBSET (1..n) /\ 1..(k + 1) # {}
    <3> HIDE DEF n
    <3>1. k + 1 \in 1..(k + 1) /\ k + 1 <= n
      BY <1>1
    <3>2. \A x \in 1..(k + 1) : x \in 1..n
      BY <1>1, <3>1
    <3> QED
      BY <3>1, <3>2
  <2>3. G[1..(k + 1)] = Pack(G[1..k], ranking[k + 1], Len(ranking) > 2)
    <3> HIDE DEF n
    <3> QED
      BY <1>1, <1>6, <2>1, <2>2
  <2>4. ranking[k + 1] \in Hashes /\ k + 1 \in 0..n
    BY <1>1
  <2>5. G[1..(k + 1)] \in WithinBudget
    <3>1. G[1..k] \in WithinBudget /\ (Len(ranking) > 2) \in BOOLEAN
      BY <1>9
    <3>2. Pack(G[1..k], ranking[k + 1], Len(ranking) > 2) \in WithinBudget
      BY <2>4, <3>1, PackStays
    <3> QED
      BY <2>3, <3>2
  <2> HIDE DEF n
  <2> QED
    BY <2>4, <2>5
<1>10. n \in P
  <2> HIDE DEF P, n
  <2>1. 0..n \subseteq P
    BY <1>1, <1>8, <1>9, CountingInduction
  <2> QED
    BY <1>1, <2>1
<1> QED
  BY <1>7, <1>10

\* The context of an answer is within the budget, but for the rounding of one excerpt;
\* for every budget and chunks of every length, of any sentences in any order.
THEOREM ContextsStayBounded == Spec => []ContextBounded
<1>1. ASSUME AnswersInv PROVE ContextBounded
  <2> SUFFICES ASSUME NEW r \in Requests, pc[r] = "model"
               PROVE  LET p == Packed(ranked[r]) IN
                      p.used <= Budget \/ \E h \in p.excerpts : p.used <= Budget + Excess(h)
    BY DEF ContextBounded
  <2>1. ranked[r] \in Seq(Hashes)
    BY <1>1, RankingAssumption DEF AnswersInv, TypeOK
  <2>2. Packed(ranked[r]) \in WithinBudget
    BY <2>1, PackedStays
  <2> QED
    BY <2>2 DEF WithinBudget, Within
<1> QED
  BY <1>1, AnswersInvariant, PTL
=============================================================================
