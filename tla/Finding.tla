------------------------------ MODULE Finding ------------------------------
(***************************************************************************)
(* From the bytes of a document to the rows the user sees: the tokens of   *)
(* an RTF file (RtfReader), or the text another parser has returned, are   *)
(* cut into chunks (Chunker), and a query returns some of them with a part *)
(* of their text (Retrieval).                                              *)
(***************************************************************************)
EXTENDS Chunker, RtfReader, Retrieval

CONSTANTS
  Kits,          \* which tokens may occur together in an RTF file
  MaxTokens,     \* how many
  Texts,         \* what the other parsers return
  Queries,       \* what is asked, word by word
  Fusing,        \* the texts that are also searched by meaning
  TopK           \* how many results are asked for

\* Words are sequences of letters, and with no result asked for nothing is searched.
ASSUME Inputs ==
  LET Word == Seq(Letters) \ {<<>>} IN
  /\ Kits \subseteq SUBSET Tokens /\ Texts \subseteq Seq(Symbols) /\ TopK \in Nat \ {0}
  /\ Queries \subseteq [wanted : SUBSET Word, unwanted : SUBSET Word]
  /\ \A w \in DOMAIN Synonyms : Synonyms[w] \subseteq Word

VARIABLES
  stage,         \* "read", "chunk", "dense", "fused", "done"
  kit, tokens,   \* the tokens that may come, and those that came
  reader,        \* the state of the reader
  mode,          \* "search", or "ask" without and "rerank" with a reranker
  query, bm25, dense,
  results        \* chunks and what is shown of them

reading == <<kit, tokens, reader>>
asking == <<mode, query, bm25, dense, results>>
vars == <<stage, reading, text, at, chunks, asking>>

Nothing == [wanted |-> {}, unwanted |-> {}]

Init ==
  /\ reader = Blank /\ tokens = <<>>
  /\ at = 1 /\ chunks = <<>>
  /\ mode = "none" /\ query = Nothing /\ bm25 = <<>> /\ dense = <<>> /\ results = <<>>
  /\ \/ stage = "read" /\ kit \in Kits /\ text = <<>>
     \/ stage = "chunk" /\ kit = {} /\ text \in Texts

Read(t) ==
  /\ stage = "read" /\ Len(tokens) < MaxTokens
  /\ tokens' = Append(tokens, t)
  /\ reader' = ReadToken(reader, t)
  /\ UNCHANGED <<stage, kit, text, at, chunks, asking>>

\* The end of the file: what the reader holds becomes the text.
EndOfFile ==
  /\ stage = "read"
  /\ text' = Tidy(Flush(reader).out)
  /\ stage' = "chunk"
  /\ kit' = {} /\ tokens' = <<>> /\ reader' = Blank
  /\ UNCHANGED <<at, chunks, asking>>

Chunk ==
  /\ stage = "chunk" /\ NextChunk
  /\ UNCHANGED <<stage, reading, asking>>

\* The blanks around a window are stripped when its text is stored.
ChunkText(c) ==
  LET s == SubSeq(text, chunks[c].from, chunks[c].to)
      seen == {i \in 1..Len(s) : s[i] \notin Blanks}
  IN  IF seen = {} THEN <<>> ELSE SubSeq(s, Min(seen), Max(seen))

Hit(c, q) == [chunk |-> c, snippet |-> Snippet(ChunkText(c), q)]
Shown(list, q) == [k \in 1..Min({TopK, Len(list)}) |-> Hit(list[k], q)]

\* FtsStore.search: of the chunks that match, the best, in whatever order they score.
Rows(q, n) ==
  LET matching == {c \in DOMAIN chunks : Matches(q, ChunkText(c))} IN
  Rankings(Min({n, Cardinality(matching)}), matching)

\* lexical_search.
Search(q) ==
  /\ stage = "chunk" /\ at > Len(text)
  /\ mode' = "search" /\ query' = q /\ stage' = "done"
  /\ \E rows \in Rows(q, TopK) : bm25' = rows /\ results' = Shown(rows, q)
  /\ UNCHANGED <<reading, text, at, chunks, dense>>

\* hybrid_search, first list; the embedding may fail or find nothing.
Ask(q, m) ==
  /\ stage = "chunk" /\ at > Len(text) /\ text \in Fusing
  /\ mode' = m /\ query' = q /\ stage' = "dense"
  /\ bm25' \in Rows(q, ListTop)
  /\ UNCHANGED <<reading, text, at, chunks, dense, results>>

Dense(n) ==
  /\ stage = "dense" /\ n <= Min({ListTop, Len(chunks)})
  /\ dense' \in Rankings(n, DOMAIN chunks)
  /\ stage' = "fused"
  /\ UNCHANGED <<reading, text, at, chunks, mode, query, bm25, results>>

Fuse ==
  /\ stage = "fused" /\ mode = "ask"
  /\ results' = Shown(Candidates(bm25, dense, TopK), query)
  /\ stage' = "done"
  /\ UNCHANGED <<reading, text, at, chunks, mode, query, bm25, dense>>

\* The reranker answers with up to top_k indexes, one of which may be out of range.
Rerank ==
  /\ stage = "fused" /\ mode = "rerank"
  /\ LET cands == Candidates(bm25, dense, TopK) IN
     \E n \in 0..TopK : \E order \in Rankings(n, 1..(Len(cands) + 1)) :
       results' = Shown(Reranked(cands, order), query)
  /\ stage' = "done"
  /\ UNCHANGED <<reading, text, at, chunks, mode, query, bm25, dense>>

Next ==
  \/ \E t \in kit : Read(t)
  \/ EndOfFile
  \/ Chunk
  \/ \E q \in Queries : Search(q)
  \/ \E q \in Queries, m \in {"ask", "rerank"} : Ask(q, m)
  \/ \E n \in 0..ListTop : Dense(n)
  \/ Fuse
  \/ Rerank

Spec == Init /\ [][Next]_vars

(***************************************************************************)
(* Properties                                                              *)
(***************************************************************************)
\* At any point of an RTF file the reader holds what the tokens so far mean: nothing
\* of a hidden destination, of a group that has ended or of a fallback, and no byte
\* read together with the wrong neighbour (rtf_parser.py:115-273, 292-319).
ReadAsMeant == Flush(reader).out = Visible(tokens)

\* Where a text holds the words a query finds it by.
Hits(q, s) ==
  {p \in (1..Len(s)) \X (1..Len(s)) :
     IsWord(s, p[1], p[2]) /\ Forms(SubSeq(s, p[1], p[2])) \cap PositiveTerms(q) # {}}

\* Somewhere in a text, cut into chunks as it may be, is a word the query excludes.
Excluded(q, s) ==
  \E i, j \in 1..Len(s) : i <= j /\ Forms(SubSeq(s, i, j)) \cap NegativeTerms(q) # {}

\* The first place in a text where something stands that was typed or is searched for.
First(q, s, i) ==
  LET stands(h) == \E w \in Marked(q) : StandsAt(w, s, h)
  IN  stands(i) /\ \A h \in 1..(i - 1) : ~stands(h)

\* A snippet has the stretch from i to j of a text, where it stands there.
Shows(snippet, s, i, j) == \E f \in 1..i, t \in j..Len(s) : snippet = SubSeq(s, f, t)

\* A word of the text that is asked for is found, unless it is too long for the
\* overlap, is nothing but stopwords, or the text holds what the query excludes.  Each
\* row holds a word it was found by, and shows whole what stands first of all that was
\* typed or searched for; where that is a word it was found by, this word (chunker.py:86,
\* fts.py:84-108, snippet.py:80-117).  It need not be one: a stopword that was typed, or a
\* term inside another word, may stand before it, although snippet.py:71-73 says that
\* the centre is in sync with the search.
Found ==
  stage = "done" /\ mode = "search" =>
    /\ \A w \in query.wanted \cap WordsOf(text) :
         Terms({w}) # {} /\ Len(w) <= Overlap /\ ~Excluded(query, text) => results # <<>>
    /\ \A k \in DOMAIN results :
         LET s == ChunkText(results[k].chunk) IN
         /\ PositiveTerms(query) # {} => Hits(query, s) # {}
         /\ \A i, j \in 1..Len(s) :
              /\ First(query, s, i) /\ j \in i..(i + SnippetWindow - BeforeMatch - 1)
              /\ <<i, j>> \in Hits(query, s) \/ SubSeq(s, i, j) \in Marked(query)
              => Shows(results[k].snippet, s, i, j)

\* Without a reranker a chunk that both the words and the meaning point to comes before
\* every chunk that only one of them points to, however high that one ranks it
\* (hybrid.py:48-64, RRF_K = 60 over lists of 50).
BothFirst ==
  stage = "done" /\ mode = "ask" =>
    \A i, j \in DOMAIN results :
      LET both(k) == results[k].chunk \in Range(bm25) \cap Range(dense) IN
      both(j) /\ ~both(i) => j < i
=============================================================================
