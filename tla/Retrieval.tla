----------------------------- MODULE Retrieval -----------------------------
(***************************************************************************)
(* From a query to rows: what the search index is asked for                *)
(* (retriever/query_parser.py, storage/fts.py), how the two rankings are   *)
(* fused (retriever/hybrid.py) and which part of a chunk is shown          *)
(* (retriever/snippet.py).  A text is a sequence of symbols, a word a run  *)
(* of letters.  The analyser makes tokens of a word: its stem without      *)
(* particles and endings, several parts, or nothing at all.  Here it looks *)
(* at one word at a time; which tokens it makes is left open (Forms).      *)
(***************************************************************************)
EXTENDS Integers, Sequences, FiniteSets, FiniteSetsExt, SequencesExt, Functions

CONSTANTS
  Forms(_),      \* the tokens of a word
  Stopwords,     \* tokens a query drops
  Synonyms,      \* for some words, a set of others
  RrfK,          \* RRF_K
  ListTop,       \* bm25_top_k and dense_top_k of the settings
  KeepAtLeast,   \* how many candidates are kept whatever top_k is
  SnippetWindow, BeforeMatch

\* In the code 60 for RRF_K and 240 and 60 for the snippet.  The lists have 50 places
\* unless the user sets bm25_top_k or dense_top_k (settings.py:87): below 62 is assumed.
ASSUME Scaled == /\ RrfK \in Nat \ {0} /\ ListTop \in Nat /\ ListTop < RrfK + 2
                 /\ BeforeMatch \in Nat /\ SnippetWindow \in Nat /\ BeforeMatch < SnippetWindow
                 /\ KeepAtLeast \in Nat

IsLetter(x) == x \in {"a", "b"}

\* The words of a text, at their places.
IsWord(s, i, j) ==
  /\ i <= j /\ \A k \in i..j : IsLetter(s[k])
  /\ i = 1 \/ ~IsLetter(s[i - 1])
  /\ j = Len(s) \/ ~IsLetter(s[j + 1])

WordsOf(s) ==
  {SubSeq(s, p[1], p[2]) : p \in {p \in (1..Len(s)) \X (1..Len(s)) : IsWord(s, p[1], p[2])}}

\* What is stored beside a chunk to be searched.
TokensOf(s) == UNION {Forms(w) : w \in WordsOf(s)}

StandsAt(w, s, i) == i + Len(w) - 1 <= Len(s) /\ SubSeq(s, i, i + Len(w) - 1) = w

(***************************************************************************)
(* The query                                                               *)
(***************************************************************************)
\* A query is the words it asks for, and those that must not be there.
Expanded(ws) == ws \cup UNION {Synonyms[w] : w \in ws \cap DOMAIN Synonyms}

\* What the search looks for: the tokens without the stopwords.
Terms(ws) == (UNION {Forms(w) : w \in ws}) \ Stopwords

PositiveTerms(q) == Terms(Expanded(q.wanted))
NegativeTerms(q) == Terms(q.unwanted)

\* One wanted token is enough, no unwanted one may be there; with only unwanted ones
\* the query is anchored to everything, with no words at all nothing is searched.
Matches(q, s) ==
  /\ PositiveTerms(q) # {} \/ NegativeTerms(q) # {}
  /\ TokensOf(s) \cap NegativeTerms(q) = {}
  /\ PositiveTerms(q) # {} => TokensOf(s) \cap PositiveTerms(q) # {}

(***************************************************************************)
(* Fusion                                                                  *)
(***************************************************************************)
\* The orders in which a store may rank n of a set of chunks.
Rankings(n, S) == Injection(1..n, S)

RankIn(list, c) == CHOOSE k \in DOMAIN list : list[k] = c

\* 1/(k + rank), and sums of such shares, as fractions.
Share(list, c) == IF c \in Range(list) THEN <<1, RrfK + RankIn(list, c)>> ELSE <<0, 1>>
Plus(x, y) == <<x[1] * y[2] + y[1] * x[2], x[2] * y[2]>>
Higher(x, y) == x[1] * y[2] > y[1] * x[2]

ScoreBug(bm25, dense, c) ==
  IF c \in Range(dense) THEN Share(dense, c) ELSE Share(bm25, c)

Score(bm25, dense, c) == Plus(Share(bm25, c), Share(dense, c))

\* _rrf_merge: by score, and among equals those of the first list first, in its order.
Place(bm25, dense, c) ==
  IF c \in Range(bm25) THEN RankIn(bm25, c) ELSE Len(bm25) + RankIn(dense, c)

Before(bm25, dense, c, d) ==
  LET x == Score(bm25, dense, c)
      y == Score(bm25, dense, d)
  IN  Higher(x, y) \/ (~Higher(y, x) /\ Place(bm25, dense, c) < Place(bm25, dense, d))

Fused(bm25, dense) ==
  LET all == Range(bm25) \cup Range(dense)
      ahead(c) == Cardinality({d \in all : Before(bm25, dense, d, c)})
  IN  [k \in 1..Cardinality(all) |-> CHOOSE c \in all : ahead(c) = k - 1]

Candidates(bm25, dense, topk) ==
  LET n == Max({topk * 3, KeepAtLeast})
      all == Fused(bm25, dense)
  IN  SubSeq(all, 1, Min({n, Len(all)}))

\* What the reranker sends back are indexes; those out of range are left out, and
\* without a usable one the fused order stays.
Reranked(cands, indexes) ==
  LET good == SelectSeq(indexes, LAMBDA i : i \in DOMAIN cands) IN
  IF good = <<>> THEN cands ELSE [k \in DOMAIN good |-> cands[good[k]]]

(***************************************************************************)
(* The snippet                                                             *)
(***************************************************************************)
\* What is looked for in the text is what was typed, stopwords too, and what was
\* searched for.
Marked(q) == q.wanted \cup PositiveTerms(q)

FirstMatch(s, terms) ==
  LET places == {i \in 1..Len(s) : \E w \in terms : StandsAt(w, s, i)} IN
  IF places = {} THEN 0 ELSE Min(places)

ClipBug(s, center) ==
  IF center <= BeforeMatch THEN <<>>
  ELSE LET end == Min({Len(s), center - BeforeMatch + SnippetWindow - 1})
       IN  SubSeq(s, Max({1, end - SnippetWindow + 1}), end)

\* _window: a little before the match, moved back when the text ends before it is full.
Clip(s, center) ==
  IF center = 0 THEN SubSeq(s, 1, Min({SnippetWindow, Len(s)}))
  ELSE LET start == Max({1, center - BeforeMatch})
           end == start + SnippetWindow - 1
       IN  IF end > Len(s) THEN SubSeq(s, Max({1, Len(s) - SnippetWindow + 1}), Len(s))
           ELSE SubSeq(s, start, end)

Snippet(s, q) == Clip(s, FirstMatch(s, Marked(q)))
=============================================================================
