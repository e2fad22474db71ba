------------------------------ MODULE Context -------------------------------
(***************************************************************************)
(* Packing the ranked chunks of a request into the context of its prompt   *)
(* (ContextBuilder): pure functions of what Answers has ranked.            *)
(*                                                                         *)
(* Sizes are in bytes; a token is six bytes, rounded down, and at least    *)
(* one.  Retrieved chunks come without importance, so that the thresholds  *)
(* that protect important or high-ranked chunks never apply.               *)
(***************************************************************************)
EXTENDS Answers, FiniteSetsExt, SequencesExt

CONSTANTS
  Budget,     \* DEFAULT_BUDGET, in tokens
  MinExcerpt, \* room below which no excerpt is made
  Sentences,  \* Sentences[h]: the sentences of the chunk with hash h, in order
  Bytes,      \* Bytes[s]: length of a sentence
  Density     \* Density[s]: share of its words that are distinct, in percent

ASSUME ContextAssumption ==
  /\ Budget \in Nat
  /\ MinExcerpt \in Nat \ {0}
  /\ \A h \in Hashes : Sentences[h] \in Seq(DOMAIN Bytes)
  /\ \A s \in DOMAIN Bytes : Bytes[s] \in Nat /\ Density[s] \in Nat

Tokens(bytes) == IF bytes < 6 THEN 1 ELSE bytes \div 6

\* The sentences at some places of a text, joined by blanks.
Joined(text, places) == SumFunctionOnSet([i \in DOMAIN text |-> Bytes[text[i]] + 1], places) - 1

ChunkTokens(h) == Tokens(Joined(Sentences[h], DOMAIN Sentences[h]))

-----------------------------------------------------------------------------
(* _extractive_compress *)

\* Sentence i is scored no lower than j; the sort is stable.
Before(text, i, j) ==
  \/ Density[text[i]] > Density[text[j]]
  \/ Density[text[i]] = Density[text[j]] /\ i <= j

\* The sentences up to the first that does not fit.
Chosen(text, room) ==
  {text[j] : j \in {i \in DOMAIN text :
     SumFunctionOnSet([k \in DOMAIN text |-> Tokens(Bytes[text[k]])],
                      {k \in DOMAIN text : Before(text, k, i)}) <= room}}

\* The places of what is kept: a sentence is kept with all its repetitions.
Excerpt(h, room) ==
  {i \in DOMAIN Sentences[h] : Sentences[h][i] \in Chosen(Sentences[h], room)}

ExcerptTokens(h, room) == Tokens(Joined(Sentences[h], Excerpt(h, room)))

-----------------------------------------------------------------------------
(* build *)

Unpacked == [used |-> 0, full |-> {}, excerpts |-> {}]

\* (Plausible bug first: the excerpt may fill the whole budget.)
PackGenerously(p, h, compress) ==
  IF p.used + ChunkTokens(h) <= Budget
    THEN [p EXCEPT !.used = @ + ChunkTokens(h), !.full = @ \cup {h}]
  ELSE IF compress /\ 100 * p.used < 85 * Budget /\ Budget - p.used >= MinExcerpt
    THEN [p EXCEPT !.used = @ + ExcerptTokens(h, Budget), !.excerpts = @ \cup {h}]
  ELSE p

Pack(p, h, compress) ==
  IF p.used + ChunkTokens(h) <= Budget
    THEN [p EXCEPT !.used = @ + ChunkTokens(h), !.full = @ \cup {h}]
  ELSE IF compress /\ 100 * p.used < 85 * Budget /\ Budget - p.used >= MinExcerpt
    THEN [p EXCEPT !.used = @ + ExcerptTokens(h, Budget - p.used), !.excerpts = @ \cup {h}]
  ELSE p

\* Few chunks are never compressed.
Packed(ranking) ==
  FoldLeft(LAMBDA p, h : Pack(p, h, Len(ranking) > 2), Unpacked, ranking)

-----------------------------------------------------------------------------
(* Property *)

Distinct(text) == Cardinality(ToSet(text)) = Len(text)

\* What an excerpt may exceed its room by: the rounding of each of its sentences,
\* and all of it when a sentence is repeated.
Excess(h) == IF Distinct(Sentences[h]) THEN Len(Sentences[h]) ELSE ChunkTokens(h)

\* Chunks taken whole never exceed the budget; one excerpt may, by the rounding of
\* its sentences, and nothing is packed after it (context.py 89-108, 128-138).  This
\* is not the "hard limit on context sent to LLM" of rag.py 78, which no code reads,
\* nor the "up to max_tokens" of context.py 116: MCAnswers has a ranking that breaks
\* those.  The headings "[Material N]" and the blank lines, which the builder does
\* not count, are not counted here either.
ContextBounded ==
  \A r \in Requests : pc[r] = "model" =>
    LET p == Packed(ranked[r]) IN
    \/ p.used <= Budget
    \/ \E h \in p.excerpts : p.used <= Budget + Excess(h)
=============================================================================
