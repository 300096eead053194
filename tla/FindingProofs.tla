--------------------------- MODULE FindingProofs ---------------------------
(***************************************************************************)
(* What Finding promises of any text, query and limit: no word falls       *)
(* between two chunks, what is there is found, and what both rankings hold *)
(* comes first.                                                            *)
(***************************************************************************)
EXTENDS Finding, Counting, SequenceTheorems

Group == [hidden : BOOLEAN, skip : Nat, paired : BOOLEAN]
Reader == [out : Seq(Symbols), stack : Seq(Group), hidden : BOOLEAN, skip : Nat,
           paired : BOOLEAN, bytes : Nat, left : Nat]
Window == [from : Nat \ {0}, to : Nat]

TypeInv ==
  /\ stage \in {"read", "chunk", "dense", "fused", "done"}
  /\ reader \in Reader /\ text \in Seq(Symbols)
  /\ chunks \in Seq(Window) /\ at \in Nat \ {0}

(* Windows begin before the place the next one begins at and end within    *)
(* the text, and what begins before that place is in one of them unless it *)
(* is longer than the overlap.                                             *)
WindowsInv ==
  /\ stage = "read" => at = 1 /\ chunks = <<>>
  /\ chunks = <<>> => at = 1
  /\ at <= Len(text) + 1
  /\ \A k \in 1..Len(chunks) : chunks[k].from < at /\ chunks[k].to <= Len(text)
  /\ \A k \in 2..Len(chunks) : chunks[k - 1].from < chunks[k].from
  /\ at > Len(text) /\ chunks # <<>> => chunks[Len(chunks)].to = Len(text)
Carried ==
  \A p \in 1..Len(text), n \in 1..Overlap :
    p < at /\ p + n - 1 <= Len(text) =>
      \E k \in 1..Len(chunks) : chunks[k].from <= p /\ p + n - 1 <= chunks[k].to
-----------------------------------------------------------------------------
(* Types: what the reader holds.                                           *)
LEMMA SymbolsAre ==
  /\ {"a", "b", "?", "nl", "par", "gap"} \subseteq Symbols
  /\ Letters \subseteq Symbols /\ \A x \in Letters : x \notin Blanks
BY DEF Symbols, Letters, Blanks, Breaks

LEMMA GreatestIs ==
  ASSUME NEW N \in Nat, NEW T \in SUBSET (0..N), T # {}
  PROVE  Max(T) \in T /\ \A m \in T : Max(T) >= m
<1>1. \E n \in T : \A m \in T : n >= m
  BY Greatest
<1> QED BY <1>1 DEF Max

LEMMA LeastIs ==
  ASSUME NEW T \in SUBSET Nat, T # {}
  PROVE  Min(T) \in T /\ \A m \in T : Min(T) <= m
<1>1. \E n \in T : \A m \in T : n <= m
  BY Least
<1> QED BY <1>1 DEF Min

LEMMA LesserIs ==
  ASSUME NEW m \in Nat, NEW n \in Nat
  PROVE  Min({m, n}) = IF m <= n THEN m ELSE n
<1>1. {m, n} \in SUBSET Nat /\ {m, n} # {}
  OBVIOUS
<1>2. Min({m, n}) \in {m, n} /\ Min({m, n}) <= m /\ Min({m, n}) <= n
  BY <1>1, LeastIs
<1> QED BY <1>2

LEMMA GreaterIs ==
  ASSUME NEW m \in Int, NEW n \in Nat
  PROVE  Max({m, n}) = IF m <= n THEN n ELSE m
<1>1. \E x \in {m, n} : \A y \in {m, n} : x >= y
  <2>1. CASE m <= n
    BY <2>1
  <2>2. CASE m > n
    BY <2>2
  <2> QED BY <2>1, <2>2
<1>2. Max({m, n}) \in {m, n} /\ Max({m, n}) >= m /\ Max({m, n}) >= n
  BY <1>1 DEF Max
<1> QED BY <1>2

LEMMA FunctionIsSeq ==
  ASSUME NEW S, NEW n \in Nat, NEW f \in [1..n -> S]
  PROVE  f \in Seq(S) /\ Len(f) = n
OBVIOUS

LEMMA DecodedType ==
  ASSUME NEW n \in Nat, NEW paired \in BOOLEAN
  PROVE  Decoded(n, paired) \in Seq(Symbols)
<1>1. n \div 2 \in Nat /\ n % 2 \in Nat
  OBVIOUS
<1>2. ASSUME NEW m \in Nat, NEW x \in Symbols PROVE [k \in 1..m |-> x] \in Seq(Symbols)
  BY FunctionIsSeq
<1>3. [k \in 1..n \div 2 |-> "b"] \in Seq(Symbols) /\ [k \in 1..n % 2 |-> "?"] \in Seq(Symbols)
      /\ [k \in 1..n |-> "a"] \in Seq(Symbols)
  BY <1>1, <1>2, SymbolsAre
<1> QED BY <1>3, ConcatProperties DEF Decoded

LEMMA FlushType ==
  ASSUME NEW r \in Reader
  PROVE  /\ Flush(r) \in Reader
         /\ Flush(r).stack = r.stack /\ Flush(r).hidden = r.hidden
<1>1. Decoded(r.bytes, r.paired) \in Seq(Symbols) /\ r.out \in Seq(Symbols)
  BY DecodedType DEF Reader
<1>2. r.out \o Decoded(r.bytes, r.paired) \in Seq(Symbols)
  BY <1>1, ConcatProperties
<1> QED BY <1>1, <1>2 DEF Flush, Reader

LEMMA PutType ==
  ASSUME NEW r \in Reader, NEW x \in Symbols
  PROVE  Put(r, x) \in Reader /\ PutOnce(r, x) \in Reader
<1>1. Append(Flush(r).out, x) \in Seq(Symbols)
  BY FlushType, AppendProperties DEF Reader
<1>2. Put(r, x) \in Reader
  BY <1>1, FlushType DEF Put, Reader
<1> QED BY <1>2, FlushType DEF PutOnce

LEMMA CloseType ==
  ASSUME NEW r \in Reader
  PROVE  Close(r) \in Reader
<1> DEFINE f == Flush(r)
<1>1. f \in Reader /\ f.stack = r.stack
  BY FlushType
<1>2. CASE r.stack = <<>>
  BY <1>1, <1>2 DEF Close
<1>3. CASE r.stack # <<>>
  <2>1. f.stack \in Seq(Group) /\ Len(f.stack) \in Nat \ {0}
    BY <1>1, <1>3, EmptySeq DEF Reader
  <2>2. Front(f.stack) \in Seq(Group)
    BY <2>1, SubSeqProperties, ElementOfSeq DEF Front
  <2>3. Last(f.stack) \in Group
    BY <2>1, ElementOfSeq DEF Last
  <2> HIDE DEF f
  <2>4. [f EXCEPT !.stack = Front(f.stack), !.hidden = Last(f.stack).hidden,
                  !.skip = Last(f.stack).skip, !.paired = Last(f.stack).paired] \in Reader
    BY <1>1, <2>2, <2>3 DEF Reader, Group
  <2> QED BY <1>3, <2>4 DEF Close, f
<1> QED BY <1>2, <1>3

LEMMA OpenType ==
  ASSUME NEW r \in Reader
  PROVE  Open(r) \in Reader
<1> DEFINE f == Flush(r)
           g == [hidden |-> r.hidden, skip |-> r.skip, paired |-> r.paired]
<1>1. f \in Reader /\ f.stack \in Seq(Group) /\ g \in Group
  BY FlushType DEF Reader, Group
<1>2. Append(f.stack, g) \in Seq(Group)
  BY <1>1, AppendProperties
<1> HIDE DEF f, g
<1>3. [f EXCEPT !.stack = Append(f.stack, g)] \in Reader
  BY <1>1, <1>2 DEF Reader
<1> QED BY <1>3 DEF Open, f, g

LEMMA ReadTokenType ==
  ASSUME NEW r \in Reader, NEW t
  PROVE  ReadToken(r, t) \in Reader
<1>1. ASSUME NEW q \in Reader PROVE Act(q, t) \in Reader
  <2>1. Flush(q) \in Reader
    BY FlushType
  <2>2. /\ [Flush(q) EXCEPT !.hidden = TRUE] \in Reader
        /\ [Flush(q) EXCEPT !.paired = TRUE] \in Reader
        /\ [Flush(q) EXCEPT !.skip = 0] \in Reader
        /\ [Flush(q) EXCEPT !.skip = 2] \in Reader
    BY <2>1 DEF Reader
  <2>3. [q EXCEPT !.bytes = q.bytes + 1] \in Reader
    <3>1. q.bytes + 1 \in Nat
      BY DEF Reader
    <3>2. \A n \in Nat : [q EXCEPT !.bytes = n] \in Reader
      BY DEF Reader
    <3> QED BY <3>1, <3>2
  <2>4. /\ Put(q, "a") \in Reader /\ Put(q, "b") \in Reader /\ Put(q, "nl") \in Reader
        /\ Put(q, "par") \in Reader /\ PutOnce(q, "gap") \in Reader /\ PutOnce(q, "nl") \in Reader
    BY PutType, SymbolsAre
  <2>5. [Put(q, "b") EXCEPT !.left = q.skip] \in Reader
    BY <2>4 DEF Reader
  <2> QED BY <2>1, <2>2, <2>3, <2>4, <2>5, CloseType, OpenType DEF Act
<1>2. \A n \in Nat : [r EXCEPT !.left = n] \in Reader
  BY DEF Reader
<1>3. r.left > 0 => r.left - 1 \in Nat
  BY DEF Reader
<1> QED BY <1>1, <1>2, <1>3 DEF ReadToken

(* What is kept of a text stands in it in the same order.                  *)
LEMMA TidyType ==
  ASSUME NEW s \in Seq(Symbols)
  PROVE  Tidy(s) \in Seq(Symbols)
<1> DEFINE kept == Kept(s)
           n == Cardinality(kept)
           R == {p \in kept \X kept : p[1] < p[2]}
           nth(i) == CHOOSE k \in kept : Cardinality({j \in kept : j < k}) = i - 1
           f == [k \in 1..n |-> CHOOSE c \in kept : Cardinality({d \in kept : <<d, c>> \in R}) = k - 1]
           piece(k) == IF s[k] \in Breaks THEN "nl" ELSE s[k]
<1>1. kept \in SUBSET (1..Len(s)) /\ Len(s) \in Nat
  BY DEF Kept
<1>2. Tidy(s) = [i \in 1..n |-> piece(nth(i))]
  BY DEF Tidy
<1> HIDE DEF kept
<1>3. IsFiniteSet(kept) /\ n \in Nat
  <2>1. IsFiniteSet(1..Len(s))
    BY <1>1, FS_Interval
  <2> QED BY <1>1, <2>1, FS_Subset, FS_CardinalityType
<1>4. \A c \in kept : {d \in kept : <<d, c>> \in R} = {j \in kept : j < c}
  OBVIOUS
<1>5. /\ \A x \in kept : <<x, x>> \notin R
      /\ \A x, y, z \in kept : <<x, y>> \in R /\ <<y, z>> \in R => <<x, z>> \in R
      /\ \A x, y \in kept : x # y => <<x, y>> \in R \/ <<y, x>> \in R
  <2>1. \A x, y \in kept : <<x, y>> \in R <=> x < y
    OBVIOUS
  <2>2. \A x \in kept : x \in Int
    BY <1>1
  <2> HIDE DEF R
  <2> QED BY <2>1, <2>2
<1> HIDE DEF R, n
<1>6. /\ \A k \in 1..n : f[k] \in kept
      /\ \A i, j \in 1..n : i < j => <<f[i], f[j]>> \in R
  <2>1. IsFiniteSet(kept)
    BY <1>3
  <2>2. \A x \in kept : <<x, x>> \notin R
    BY <1>5
  <2>3. \A x, y, z \in kept : <<x, y>> \in R /\ <<y, z>> \in R => <<x, z>> \in R
    BY <1>5
  <2>4. \A x, y \in kept : x # y => <<x, y>> \in R \/ <<y, x>> \in R
    BY <1>5
  <2> QED BY <2>1, <2>2, <2>3, <2>4, Ranked DEF n
<1>7. \A i \in 1..n : nth(i) \in kept
  <2>1. \A i \in 1..n : nth(i) = CHOOSE c \in kept : Cardinality({d \in kept : <<d, c>> \in R}) = i - 1
    BY <1>4
  <2> HIDE DEF nth
  <2> QED BY <1>6, <2>1
<1> HIDE DEF nth
<1>8. \A k \in kept : piece(k) \in Symbols
  BY <1>1, ElementOfSeq, SymbolsAre
<1> HIDE DEF piece
<1>9. [i \in 1..n |-> piece(nth(i))] \in [1..n -> Symbols]
  BY <1>7, <1>8
<1> QED BY <1>2, <1>3, <1>9, FunctionIsSeq
-----------------------------------------------------------------------------
(* One window.                                                             *)
LEMMA WindowEndIs ==
  ASSUME text \in Seq(Symbols), NEW i \in 1..Len(text)
  PROVE  /\ WindowEnd(i) \in Nat /\ WindowEnd(i) <= Len(text)
         /\ WindowEnd(i) < Len(text) => WindowEnd(i) + 1 - Overlap > i
<1> USE WindowsAdvance
<1>1. CASE i + Target - 1 > Len(text)
  BY <1>1 DEF WindowEnd
<1>2. CASE i + Target - 1 <= Len(text)
  <2> DEFINE breaks == {b \in (i + Target - LastPart)..(i + Target - 1) : text[b] = "nl"}
  <2>1. CASE breaks = {}
    BY <1>2, <2>1 DEF WindowEnd, BreakEnd
  <2>2. CASE breaks # {}
    <3>1. breaks \in SUBSET (0..Len(text))
      BY <1>2
    <3>2. breaks \subseteq (i + Target - LastPart)..(i + Target - 1) /\ Len(text) \in Nat
      OBVIOUS
    <3>3. WindowEnd(i) = Max(breaks) - 1
      BY <1>2, <2>2 DEF WindowEnd, BreakEnd
    <3> HIDE DEF breaks
    <3>4. Max(breaks) \in breaks
      BY <2>2, <3>1, <3>2, GreatestIs
    <3> DEFINE m == Max(breaks)
    <3>5. m \in (i + Target - LastPart)..(i + Target - 1) /\ WindowEnd(i) = m - 1
      BY <3>2, <3>3, <3>4
    <3> HIDE DEF m
    <3>6. m \in Nat /\ m >= i + Target - LastPart /\ m <= i + Target - 1 /\ i \in Nat /\ i > 0
      BY <3>5
    <3>7. m - 1 \in Nat /\ m - 1 <= Len(text) /\ m - Overlap > i /\ (m - 1) + 1 - Overlap = m - Overlap
      BY <1>2, <3>2, <3>6
    <3> QED BY <3>5, <3>7
  <2> QED BY <2>1, <2>2
<1> QED BY <1>1, <1>2

LEMMA NextAtIs ==
  ASSUME text \in Seq(Symbols), NEW e \in Nat, e <= Len(text), e < Len(text) => e + 1 - Overlap > 0
  PROVE  NextAt(e) = IF e = Len(text) THEN Len(text) + 1 ELSE e + 1 - Overlap
<1> USE WindowsAdvance
<1>1. CASE e < Len(text)
  <2>1. {1, e + 1 - Overlap} = {e + 1 - Overlap, 1} /\ e + 1 - Overlap \in Int
    OBVIOUS
  <2>2. Max({1, e + 1 - Overlap}) = e + 1 - Overlap
    BY <1>1, <2>1, GreaterIs
  <2> QED BY <1>1, <2>2 DEF NextAt
<1>2. CASE e = Len(text)
  BY <1>2 DEF NextAt
<1> QED BY <1>1, <1>2

LEMMA NextChunkIs ==
  ASSUME TypeInv, NextChunk
  PROVE  text' = text /\ at' \in Nat \ {0} /\ chunks' \in Seq(Window)
<1> DEFINE e == WindowEnd(at)
           w == [from |-> at, to |-> e]
<1>1. at \in 1..Len(text) /\ text \in Seq(Symbols) /\ text' = text /\ Len(text) \in Nat
  BY DEF TypeInv, NextChunk
<1>2. e \in Nat /\ e <= Len(text) /\ (e < Len(text) => e + 1 - Overlap > at)
  BY <1>1, WindowEndIs
<1>3. w \in Window
  BY <1>1, <1>2 DEF Window
<1>4. chunks' = Append(chunks, w) /\ at' = NextAt(e) /\ chunks \in Seq(Window)
  BY DEF TypeInv, NextChunk
<1> HIDE DEF e, w
<1>5. at' \in Nat \ {0}
  BY <1>1, <1>2, <1>4, NextAtIs, WindowsAdvance
<1> QED BY <1>1, <1>3, <1>4, <1>5, AppendProperties

THEOREM TypeCorrect == Spec => []TypeInv
<1> USE Inputs
<1>1. Init => TypeInv
  <2> SUFFICES ASSUME Init PROVE TypeInv
    OBVIOUS
  <2>1. Blank \in Reader
    BY DEF Blank, Reader
  <2>2. text \in Seq(Symbols)
    <3>1. <<>> \in Seq(Symbols)
      BY EmptySeq
    <3>2. text = <<>> \/ text \in Texts
      BY DEF Init
    <3> QED BY <3>1, <3>2
  <2> QED BY <2>1, <2>2 DEF Init, TypeInv
<1>2. TypeInv /\ [Next]_vars => TypeInv'
  <2> SUFFICES ASSUME TypeInv, [Next]_vars PROVE TypeInv'
    OBVIOUS
  <2>1. ASSUME NEW t \in kit, Read(t) PROVE TypeInv'
    BY <2>1, ReadTokenType DEF Read, TypeInv
  <2>2. CASE EndOfFile
    <3>1. Tidy(Flush(reader).out) \in Seq(Symbols)
      BY FlushType, TidyType DEF TypeInv, Reader
    <3>2. Blank \in Reader
      BY DEF Blank, Reader
    <3> QED BY <2>2, <3>1, <3>2 DEF EndOfFile, TypeInv
  <2>3. CASE Chunk
    BY <2>3, NextChunkIs DEF Chunk, TypeInv, reading, asking
  <2>4. ASSUME NEW q, Search(q) PROVE TypeInv'
    BY <2>4 DEF Search, TypeInv, reading
  <2>5. ASSUME NEW q, NEW m, Ask(q, m) PROVE TypeInv'
    BY <2>5 DEF Ask, TypeInv, reading
  <2>6. ASSUME NEW n, Dense(n) PROVE TypeInv'
    BY <2>6 DEF Dense, TypeInv, reading
  <2>7. CASE Fuse \/ Rerank
    BY <2>7 DEF Fuse, Rerank, TypeInv, reading
  <2>8. CASE UNCHANGED vars
    BY <2>8 DEF vars, reading, TypeInv
  <2> QED BY <2>1, <2>2, <2>3, <2>4, <2>5, <2>6, <2>7, <2>8 DEF Next
<1> QED BY <1>1, <1>2, PTL DEF Spec
-----------------------------------------------------------------------------
(* Windows.                                                                *)

(* All that happens after the text is read leaves it as it is; a window    *)
(* more is the only thing that happens to its windows.                     *)
LEMMA OnlyChunk ==
  ASSUME [Next]_vars
  PROVE  \/ UNCHANGED <<text, at, chunks>> /\ (stage' = "read" => stage = "read")
         \/ UNCHANGED <<at, chunks>> /\ stage = "read" /\ stage' # "read"
         \/ NextChunk /\ stage = "chunk" /\ stage' = "chunk"
<1>1. ASSUME NEW t \in kit, Read(t) PROVE UNCHANGED <<text, at, chunks, stage>>
  BY <1>1 DEF Read
<1>2. EndOfFile => UNCHANGED <<at, chunks>> /\ stage = "read" /\ stage' # "read"
  BY DEF EndOfFile
<1>3. Chunk => NextChunk /\ stage = "chunk" /\ stage' = "chunk"
  BY DEF Chunk
<1>4. ASSUME NEW q, Search(q) PROVE UNCHANGED <<text, at, chunks>> /\ stage' # "read"
  BY <1>4 DEF Search
<1>5. ASSUME NEW q, NEW m, Ask(q, m) PROVE UNCHANGED <<text, at, chunks>> /\ stage' # "read"
  BY <1>5 DEF Ask
<1>6. ASSUME NEW n, Dense(n) PROVE UNCHANGED <<text, at, chunks>> /\ stage' # "read"
  BY <1>6 DEF Dense
<1>7. ASSUME Fuse \/ Rerank PROVE UNCHANGED <<text, at, chunks>> /\ stage' # "read"
  BY <1>7 DEF Fuse, Rerank
<1>8. UNCHANGED vars => UNCHANGED <<text, at, chunks, stage>>
  BY DEF vars
<1> QED BY <1>1, <1>2, <1>3, <1>4, <1>5, <1>6, <1>7, <1>8 DEF Next

LEMMA WindowsStep == TypeInv /\ WindowsInv /\ Carried /\ TypeInv' /\ [Next]_vars => WindowsInv' /\ Carried'
<1> SUFFICES ASSUME TypeInv, WindowsInv, Carried, TypeInv', [Next]_vars
             PROVE  WindowsInv' /\ Carried'
  OBVIOUS
<1>1. CASE UNCHANGED <<text, at, chunks>> /\ (stage' = "read" => stage = "read")
  BY <1>1 DEF WindowsInv, Carried
<1>2. CASE UNCHANGED <<at, chunks>> /\ stage = "read" /\ stage' # "read"
  <2>1. at' = 1 /\ chunks' = <<>> /\ Len(text') \in Nat /\ Len(chunks') = 0
    BY <1>2 DEF WindowsInv, TypeInv
  <2>2. WindowsInv'
    BY <1>2, <2>1 DEF WindowsInv
  <2>3. Carried'
    BY <2>1 DEF Carried
  <2> QED BY <2>2, <2>3
<1>3. CASE NextChunk /\ stage = "chunk" /\ stage' = "chunk"
  <2> DEFINE e == WindowEnd(at)
             w == [from |-> at, to |-> e]
             n == Len(chunks)
  <2>1. /\ at <= Len(text) /\ text' = text /\ chunks' = Append(chunks, w) /\ at' = NextAt(e)
        /\ chunks \in Seq(Window) /\ n \in Nat /\ Len(text) \in Nat /\ at \in Nat \ {0}
    BY <1>3 DEF NextChunk, TypeInv
  <2>2. e \in Nat /\ e <= Len(text) /\ w \in Window /\ (e < Len(text) => e + 1 - Overlap > at)
    BY <2>1, WindowEndIs DEF TypeInv, Window
  <2>3. at' = IF e = Len(text) THEN Len(text) + 1 ELSE e + 1 - Overlap
    <3>1. text \in Seq(Symbols)
      BY DEF TypeInv
    <3> HIDE DEF e
    <3>2. e < Len(text) => e + 1 - Overlap > 0
      BY <2>1, <2>2, WindowsAdvance
    <3> QED BY <2>1, <2>2, <3>1, <3>2, NextAtIs
  <2>4. at' > at /\ at' <= Len(text) + 1 /\ at' <= e + 1
    BY <2>1, <2>2, <2>3, WindowsAdvance
  <2>5. /\ Len(chunks') = n + 1 /\ chunks'[n + 1] = w /\ chunks' # <<>>
        /\ \A k \in 1..n : chunks'[k] = chunks[k] /\ chunks[k] \in Window
    BY <2>1, <2>2, AppendProperties, ElementOfSeq
  <2> HIDE DEF e, n
  <2>6. w.from = at /\ w.to = e
    OBVIOUS
  <2>0. /\ \A k \in 1..(n + 1) : k = n + 1 \/ k \in 1..n
        /\ \A k \in 2..(n + 1) : k = n + 1 \/ (k \in 2..n /\ k \in 1..n /\ k - 1 \in 1..n)
        /\ \A k \in 1..n : k \in 1..(n + 1)
    <3>1. n \in Nat
      BY <2>1
    <3> QED BY <3>1
  <2> HIDE DEF w
  <2>7. \A k \in 1..n : chunks[k].from < at /\ chunks[k].to <= Len(text) /\ chunks[k].from \in Nat
    BY <2>5 DEF WindowsInv, n, Window
  <2>8. WindowsInv'
    <3>1. \A k \in 1..Len(chunks') : chunks'[k].from < at' /\ chunks'[k].to <= Len(text')
      <4> SUFFICES ASSUME NEW k \in 1..(n + 1)
                   PROVE  chunks'[k].from < at' /\ chunks'[k].to <= Len(text')
        BY <2>5
      <4>1. CASE k = n + 1
        BY <2>1, <2>2, <2>4, <2>5, <2>6, <4>1
      <4>2. CASE k \in 1..n
        BY <2>1, <2>3, <2>2, <2>4, <2>5, <2>7, <4>2
      <4> QED BY <2>0, <4>1, <4>2
    <3>2. \A k \in 2..Len(chunks') : chunks'[k - 1].from < chunks'[k].from
      <4> SUFFICES ASSUME NEW k \in 2..(n + 1)
                   PROVE  chunks'[k - 1].from < chunks'[k].from
        BY <2>5
      <4>1. CASE k = n + 1
        BY <2>1, <2>5, <2>6, <2>7, <4>1
      <4>2. CASE k \in 2..n
        <5>1. chunks[k - 1].from < chunks[k].from
          BY <4>2 DEF WindowsInv, n
        <5> QED BY <2>0, <2>5, <4>2, <5>1
      <4> QED BY <2>0, <4>1, <4>2
    <3>3. at' > Len(text') => chunks'[Len(chunks')].to = Len(text')
      BY <2>1, <2>2, <2>3, <2>5, <2>6, WindowsAdvance
    <3> QED BY <1>3, <2>1, <2>4, <2>5, <3>1, <3>2, <3>3 DEF WindowsInv
  <2>9. Carried'
    <3> SUFFICES ASSUME NEW p \in 1..Len(text), NEW m \in 1..Overlap, p < at', p + m - 1 <= Len(text)
                 PROVE  \E k \in 1..(n + 1) : chunks'[k].from <= p /\ p + m - 1 <= chunks'[k].to
      BY <2>1, <2>5 DEF Carried
    <3>1. CASE p < at
      <4>1. PICK k \in 1..n : chunks[k].from <= p /\ p + m - 1 <= chunks[k].to
        BY <3>1 DEF Carried, n
      <4> QED BY <2>0, <2>5, <4>1
    <3>2. CASE p >= at
      <4>1. p + m - 1 <= e
        BY <2>1, <2>2, <2>3, WindowsAdvance
      <4> QED BY <2>1, <2>5, <2>6, <3>2, <4>1
    <3>3. p \in Int /\ at \in Int
      BY <2>1
    <3> QED BY <3>1, <3>2, <3>3
  <2> QED BY <2>8, <2>9
<1> QED BY <1>1, <1>2, <1>3, OnlyChunk

LEMMA WindowsKept == Spec => [](TypeInv /\ WindowsInv /\ Carried)
<1>1. Init => WindowsInv /\ Carried
  <2> SUFFICES ASSUME Init PROVE WindowsInv /\ Carried
    OBVIOUS
  <2>1. at = 1 /\ chunks = <<>> /\ Len(text) \in Nat /\ Len(chunks) = 0
    BY Inputs DEF Init
  <2> QED BY <2>1 DEF WindowsInv, Carried
<1>2. TypeInv /\ TypeInv' /\ WindowsInv /\ Carried /\ [Next]_vars => WindowsInv' /\ Carried'
  BY WindowsStep
<1> QED BY <1>1, <1>2, TypeCorrect, PTL DEF Spec

(* Every window begins after the one before, the last one ends with the    *)
(* text, and what is no longer than the overlap stands whole in a window.  *)
THEOREM NothingFallsBetween == Spec => []Covered
<1>1. TypeInv /\ WindowsInv /\ Carried => Covered
  <2> SUFFICES ASSUME TypeInv, WindowsInv, Carried PROVE Covered
    OBVIOUS
  <2>1. /\ at \in Nat \ {0} /\ Len(text) \in Nat /\ Overlap \in Nat /\ text \in Seq(Symbols)
        /\ DOMAIN chunks = 1..Len(chunks)
    BY WindowsAdvance DEF TypeInv
  <2>2. at > Len(text) /\ text # <<>> => chunks # <<>> /\ chunks[Len(chunks)].to = Len(text)
    <3>1. text # <<>> => Len(text) > 0
      BY <2>1
    <3> QED BY <2>1, <3>1 DEF WindowsInv
  <2>3. ASSUME NEW p \in 1..Len(text), NEW n \in 1..Overlap,
               p + n - 1 < at \/ (at > Len(text) /\ p + n - 1 <= Len(text))
        PROVE  \E k \in DOMAIN chunks : chunks[k].from <= p /\ p + n - 1 <= chunks[k].to
    <3>1. p < at /\ p + n - 1 <= Len(text)
      BY <2>1, <2>3 DEF WindowsInv
    <3> QED BY <2>1, <3>1 DEF Carried
  <2> QED BY <2>2, <2>3 DEF Covered, WindowsInv
<1> QED BY <1>1, WindowsKept, PTL
-----------------------------------------------------------------------------
(* Words: what stands in a part of a text, and what is kept of a window.   *)
LEMMA PartIs ==
  ASSUME NEW t \in Seq(Symbols), NEW a \in 1..Len(t), NEW b \in 1..Len(t), a <= b
  PROVE  /\ SubSeq(t, a, b) \in Seq(Symbols) /\ Len(SubSeq(t, a, b)) = b - a + 1
         /\ \A i \in 1..(b - a + 1) : SubSeq(t, a, b)[i] = t[a + i - 1]
         /\ \A m, n \in 1..(b - a + 1) : SubSeq(SubSeq(t, a, b), m, n) = SubSeq(t, a + m - 1, a + n - 1)
<1>1. \A i \in a..b : t[i] \in Symbols
  BY ElementOfSeq
<1>2. a \in Int /\ b \in Int
  OBVIOUS
<1>3. /\ SubSeq(t, a, b) \in Seq(Symbols) /\ Len(SubSeq(t, a, b)) = b - a + 1
      /\ \A i \in 1..(b - a + 1) : SubSeq(t, a, b)[i] = t[a + i - 1]
  BY <1>1, <1>2, SubSeqProperties
<1>4. \A m, n \in 1..(b - a + 1) : SubSeq(SubSeq(t, a, b), m, n) = SubSeq(t, a + m - 1, a + n - 1)
  BY SubSeqOfSubSeq
<1> QED BY <1>3, <1>4

LEMMA WordStands ==
  ASSUME NEW t \in Seq(Symbols), NEW w \in WordsOf(t)
  PROVE  \E i, j \in 1..Len(t) : /\ IsWord(t, i, j) /\ i <= j /\ w = SubSeq(t, i, j)
                                 /\ Len(w) = j - i + 1 /\ StandsAt(w, t, i)
<1>1. PICK p \in (1..Len(t)) \X (1..Len(t)) : IsWord(t, p[1], p[2]) /\ w = SubSeq(t, p[1], p[2])
  BY DEF WordsOf
<1>2. p[1] \in 1..Len(t) /\ p[2] \in 1..Len(t) /\ p[1] <= p[2]
  BY <1>1 DEF IsWord
<1>3. Len(w) = p[2] - p[1] + 1
  BY <1>1, <1>2, PartIs
<1>4. p[1] + Len(w) - 1 = p[2]
  BY <1>2, <1>3
<1>5. StandsAt(w, t, p[1])
  BY <1>1, <1>2, <1>4 DEF StandsAt
<1> QED BY <1>1, <1>2, <1>3, <1>5

LEMMA WordKept ==
  ASSUME NEW t \in Seq(Symbols), NEW a \in 1..Len(t), NEW b \in 1..Len(t), a <= b,
         NEW i \in a..b, NEW j \in a..b, IsWord(t, i, j)
  PROVE  SubSeq(t, i, j) \in WordsOf(SubSeq(t, a, b))
<1> DEFINE s == SubSeq(t, a, b)
           x == i - a + 1
           y == j - a + 1
<1>0. /\ Len(t) \in Nat /\ a \in Nat /\ b \in Nat /\ i \in Nat /\ j \in Nat
      /\ 1 <= a /\ a <= i /\ a <= j /\ i <= b /\ j <= b /\ b <= Len(t)
  OBVIOUS
<1>1. /\ Len(s) = b - a + 1 /\ x \in 1..(b - a + 1) /\ y \in 1..(b - a + 1)
      /\ a + x - 1 = i /\ a + y - 1 = j
      /\ \A k \in 1..(b - a + 1) : s[k] = t[a + k - 1]
  <2>1. /\ x \in 1..(b - a + 1) /\ y \in 1..(b - a + 1) /\ a + x - 1 = i /\ a + y - 1 = j
    BY <1>0
  <2> HIDE DEF x, y
  <2> QED BY <2>1, PartIs
<1>2. SubSeq(s, x, y) = SubSeq(t, i, j)
  BY <1>1, PartIs
<1> HIDE DEF s
<1>3. IsWord(s, x, y)
  <2>1. x <= y
    BY DEF IsWord
  <2>2. ASSUME NEW k \in x..y PROVE IsLetter(s[k])
    <3>1. a + k - 1 \in i..j /\ k \in 1..(b - a + 1)
      BY <1>0
    <3> QED BY <1>1, <3>1 DEF IsWord
  <2>3. x = 1 \/ ~IsLetter(s[x - 1])
    <3>1. CASE i = a
      BY <3>1
    <3>2. CASE i > a
      <4>1. x - 1 \in 1..(b - a + 1) /\ a + (x - 1) - 1 = i - 1 /\ i # 1
        BY <1>0, <3>2
      <4> QED BY <1>1, <4>1 DEF IsWord
    <3> QED BY <3>1, <3>2
  <2>4. y = Len(s) \/ ~IsLetter(s[y + 1])
    <3>1. CASE j = b
      BY <1>1, <3>1
    <3>2. CASE j < b
      <4>1. y + 1 \in 1..(b - a + 1) /\ a + (y + 1) - 1 = j + 1 /\ j # Len(t)
        BY <1>0, <3>2
      <4> QED BY <1>1, <4>1 DEF IsWord
    <3> QED BY <3>1, <3>2
  <2> QED BY <2>1, <2>2, <2>3, <2>4 DEF IsWord
<1>4. <<x, y>> \in (1..Len(s)) \X (1..Len(s))
  BY <1>1
<1>5. SubSeq(s, x, y) \in WordsOf(s)
  <2> HIDE DEF x, y
  <2> DEFINE p == <<x, y>>
  <2>1. p \in (1..Len(s)) \X (1..Len(s)) /\ p[1] = x /\ p[2] = y
    BY <1>4
  <2> HIDE DEF p
  <2>2. SubSeq(s, p[1], p[2]) \in WordsOf(s)
    BY <1>3, <2>1 DEF WordsOf
  <2> QED BY <2>1, <2>2
<1> QED BY <1>2, <1>5 DEF s

LEMMA PartOfPart ==
  ASSUME NEW t \in Seq(Symbols), NEW a \in 1..Len(t), NEW b \in 1..Len(t), a <= b,
         NEW w \in WordsOf(SubSeq(t, a, b))
  PROVE  \E i, j \in 1..Len(t) : i <= j /\ w = SubSeq(t, i, j)
<1> DEFINE s == SubSeq(t, a, b)
<1>1. s \in Seq(Symbols) /\ Len(s) = b - a + 1
  BY PartIs
<1>2. PICK i, j \in 1..Len(s) : i <= j /\ w = SubSeq(s, i, j)
  BY <1>1, WordStands
<1>3. w = SubSeq(t, a + i - 1, a + j - 1)
  BY <1>1, <1>2, PartIs
<1> HIDE DEF s
<1>4. a + i - 1 \in 1..Len(t) /\ a + j - 1 \in 1..Len(t) /\ a + i - 1 <= a + j - 1
  BY <1>1, <1>2
<1> QED BY <1>3, <1>4

LEMMA ChunkTextIs ==
  ASSUME TypeInv, WindowsInv, NEW c \in 1..Len(chunks)
  PROVE  \/ /\ ChunkText(c) = <<>>
            /\ \A i \in chunks[c].from..chunks[c].to : text[i] \in Blanks
         \/ \E a, b \in 1..Len(text) :
              /\ a <= b /\ ChunkText(c) = SubSeq(text, a, b)
              /\ \A i \in chunks[c].from..chunks[c].to : text[i] \notin Blanks => i \in a..b
<1> DEFINE x == chunks[c].from
           y == chunks[c].to
           s == SubSeq(text, x, y)
           seen == {i \in 1..Len(s) : s[i] \notin Blanks}
<1>1. /\ text \in Seq(Symbols) /\ x \in Nat \ {0} /\ y \in Nat /\ y <= Len(text) /\ Len(text) \in Nat
  <2>1. chunks[c] \in Window
    BY ElementOfSeq DEF TypeInv
  <2> QED BY <2>1 DEF TypeInv, WindowsInv, Window
<1>2. ChunkText(c) = IF seen = {} THEN <<>> ELSE SubSeq(s, Min(seen), Max(seen))
  BY DEF ChunkText
<1> HIDE DEF x, y
<1>3. CASE y < x
  <2>1. s = <<>>
    BY <1>1, <1>3, SubSeqEmpty
  <2>2. seen = {}
    BY <2>1
  <2>3. x..y = {}
    BY <1>1, <1>3
  <2> QED BY <1>2, <2>2, <2>3 DEF x, y
<1>4. CASE x <= y
  <2>1. /\ x \in 1..Len(text) /\ y \in 1..Len(text)
    BY <1>1, <1>4
  <2>2. /\ Len(s) = y - x + 1 /\ \A i \in 1..(y - x + 1) : s[i] = text[x + i - 1]
        /\ \A m, n \in 1..(y - x + 1) : SubSeq(s, m, n) = SubSeq(text, x + m - 1, x + n - 1)
    BY <1>1, <1>4, <2>1, PartIs
  <2>3. ASSUME NEW i \in x..y PROVE /\ i - x + 1 \in 1..(y - x + 1) /\ s[i - x + 1] = text[i]
                                    /\ (text[i] \notin Blanks => i - x + 1 \in seen)
    <3>1. i - x + 1 \in 1..(y - x + 1) /\ x + (i - x + 1) - 1 = i
      BY <2>1
    <3> HIDE DEF s
    <3>2. s[i - x + 1] = text[i]
      BY <2>2, <3>1
    <3> QED BY <2>2, <3>1, <3>2
  <2> HIDE DEF s
  <2>4. seen \in SUBSET (0..(y - x + 1)) /\ seen \subseteq 1..(y - x + 1) /\ seen \in SUBSET Nat /\ y - x + 1 \in Nat
    BY <2>1, <2>2, <1>4
  <2> HIDE DEF seen
  <2>5. CASE seen = {}
    BY <1>2, <2>3, <2>5 DEF x, y
  <2>6. CASE seen # {}
    <3> DEFINE m == Min(seen)
               n == Max(seen)
    <3>1. /\ m \in 1..(y - x + 1) /\ n \in 1..(y - x + 1)
          /\ \A k \in seen : m <= k /\ k <= n /\ k \in Nat
      BY <2>4, <2>6, LeastIs, GreatestIs
    <3>2. m <= n
      BY <2>6, <3>1
    <3>3. ChunkText(c) = SubSeq(s, m, n)
      BY <1>2, <2>6
    <3> HIDE DEF m, n
    <3>4. ChunkText(c) = SubSeq(text, x + m - 1, x + n - 1)
      BY <2>2, <3>1, <3>3
    <3>5. /\ x + m - 1 \in 1..Len(text) /\ x + n - 1 \in 1..Len(text) /\ x + m - 1 <= x + n - 1
      BY <1>1, <2>1, <3>1, <3>2
    <3>6. \A i \in x..y : text[i] \notin Blanks => i \in (x + m - 1)..(x + n - 1)
      <4> SUFFICES ASSUME NEW i \in x..y, text[i] \notin Blanks PROVE i \in (x + m - 1)..(x + n - 1)
        OBVIOUS
      <4>1. i - x + 1 \in seen
        BY <2>3
      <4>2. m <= i - x + 1 /\ i - x + 1 <= n
        BY <3>1, <4>1
      <4> QED BY <1>1, <3>1, <4>2
    <3> QED BY <3>4, <3>5, <3>6 DEF x, y
  <2> QED BY <2>5, <2>6
<1>5. y < x \/ x <= y
  BY <1>1
<1> QED BY <1>3, <1>4, <1>5

LEMMA NoWords ==
  /\ <<>> \in Seq(Symbols) /\ WordsOf(<<>>) = {}
BY DEF WordsOf

LEMMA ChunkWords ==
  ASSUME TypeInv, WindowsInv, NEW c \in 1..Len(chunks)
  PROVE  /\ ChunkText(c) \in Seq(Symbols)
         /\ \A w \in WordsOf(ChunkText(c)) :
              \E i, j \in 1..Len(text) : i <= j /\ w = SubSeq(text, i, j)
<1>1. CASE ChunkText(c) = <<>>
  BY <1>1, NoWords
<1>2. CASE \E a, b \in 1..Len(text) : a <= b /\ ChunkText(c) = SubSeq(text, a, b)
  <2>1. PICK a, b \in 1..Len(text) : a <= b /\ ChunkText(c) = SubSeq(text, a, b)
    BY <1>2
  <2> QED BY <2>1, PartIs, PartOfPart DEF TypeInv
<1> QED BY <1>1, <1>2, ChunkTextIs

LEMMA WordInChunk ==
  ASSUME TypeInv, WindowsInv, Carried, at > Len(text),
         NEW w \in WordsOf(text), Len(w) <= Overlap
  PROVE  \E c \in 1..Len(chunks) : w \in WordsOf(ChunkText(c))
<1>1. text \in Seq(Symbols) /\ Len(text) \in Nat /\ at \in Nat
  BY DEF TypeInv
<1>2. PICK i, j \in 1..Len(text) : /\ IsWord(text, i, j) /\ i <= j /\ w = SubSeq(text, i, j)
                                   /\ Len(w) = j - i + 1
  BY <1>1, WordStands
<1>3. Len(w) \in 1..Overlap /\ i < at /\ i + Len(w) - 1 = j
  BY <1>1, <1>2, WindowsAdvance
<1>4. PICK c \in 1..Len(chunks) : chunks[c].from <= i /\ j <= chunks[c].to
  BY <1>1, <1>2, <1>3 DEF Carried
<1>5. chunks[c] \in Window
  BY ElementOfSeq DEF TypeInv
<1>6. i \in chunks[c].from..chunks[c].to /\ j \in chunks[c].from..chunks[c].to
  BY <1>2, <1>4, <1>5 DEF Window
<1>7. text[i] \notin Blanks /\ text[j] \notin Blanks
  <2>1. IsLetter(text[i]) /\ IsLetter(text[j])
    <3>1. i \in i..j /\ j \in i..j
      BY <1>2
    <3>2. \A k \in i..j : IsLetter(text[k])
      BY <1>2 DEF IsWord
    <3> QED BY <3>1, <3>2
  <2>2. \A x : IsLetter(x) => x \notin Blanks
    BY DEF IsLetter, Blanks, Breaks
  <2> QED BY <2>1, <2>2
<1>8. PICK a, b \in 1..Len(text) : /\ a <= b /\ ChunkText(c) = SubSeq(text, a, b)
                                   /\ i \in a..b /\ j \in a..b
  BY <1>6, <1>7, ChunkTextIs
<1> QED BY <1>1, <1>2, <1>8, WordKept
-----------------------------------------------------------------------------
(* The rows of a search.                                                   *)
LEMMA RowsAre ==
  ASSUME TypeInv, NEW q, NEW n \in Nat, NEW rows \in Rows(q, n)
  PROVE  \E m \in 0..n :
           /\ rows \in Injection(1..m, {c \in 1..Len(chunks) : Matches(q, ChunkText(c))})
           /\ Len(rows) = m
           /\ (\E c \in 1..Len(chunks) : Matches(q, ChunkText(c))) /\ n > 0 => m > 0
<1> DEFINE M == {c \in 1..Len(chunks) : Matches(q, ChunkText(c))}
           m == Min({n, Cardinality(M)})
<1>1. DOMAIN chunks = 1..Len(chunks) /\ Len(chunks) \in Nat
  BY DEF TypeInv
<1>2. IsFiniteSet(M) /\ Cardinality(M) \in Nat
  <2>1. M \in SUBSET (1..Len(chunks)) /\ IsFiniteSet(1..Len(chunks))
    BY <1>1, FS_Interval
  <2> HIDE DEF M
  <2> QED BY <2>1, FS_Subset, FS_CardinalityType
<1>3. rows \in Injection(1..m, M)
  BY <1>1 DEF Rows, Rankings
<1>4. M # {} => Cardinality(M) > 0
  <2> HIDE DEF M
  <2> QED BY <1>2, FS_EmptySet
<1> HIDE DEF M
<1>5. m = IF n <= Cardinality(M) THEN n ELSE Cardinality(M)
  BY <1>2, LesserIs
<1> HIDE DEF m
<1>6. m \in 0..n /\ (M # {} /\ n > 0 => m > 0)
  BY <1>2, <1>4, <1>5
<1>7. rows \in [1..m -> M]
  BY <1>3 DEF Injection
<1>8. Len(rows) = m
  BY <1>6, <1>7, FunctionIsSeq
<1> QED BY <1>3, <1>6, <1>8 DEF M

LEMMA WordIsFound ==
  ASSUME TypeInv, WindowsInv, Carried, at > Len(text), NEW q, NEW rows \in Rows(q, TopK),
         NEW w \in q.wanted \cap WordsOf(text), Terms({w}) # {}, Len(w) <= Overlap,
         ~Excluded(q, text)
  PROVE  Shown(rows, q) # <<>>
<1>1. PICK c \in 1..Len(chunks) : w \in WordsOf(ChunkText(c))
  BY WordInChunk
<1>2. PICK v \in Forms(w) : v \in PositiveTerms(q)
  <2>1. PICK v \in Forms(w) : v \notin Stopwords
    <3>1. PICK x : x \in Terms({w})
      OBVIOUS
    <3>2. x \in UNION {Forms(u) : u \in {w}} /\ x \notin Stopwords
      BY <3>1 DEF Terms
    <3>3. PICK u \in {w} : x \in Forms(u)
      BY <3>2
    <3> QED BY <3>2, <3>3
  <2>2. w \in Expanded(q.wanted)
    BY DEF Expanded
  <2> QED BY <2>1, <2>2 DEF PositiveTerms, Terms
<1>3. v \in TokensOf(ChunkText(c))
  BY <1>1, <1>2 DEF TokensOf
<1>4. TokensOf(ChunkText(c)) \cap NegativeTerms(q) = {}
  <2> SUFFICES ASSUME NEW u \in WordsOf(ChunkText(c)), NEW x \in Forms(u), x \in NegativeTerms(q)
               PROVE  FALSE
    BY DEF TokensOf
  <2>1. PICK i, j \in 1..Len(text) : i <= j /\ u = SubSeq(text, i, j)
    BY ChunkWords
  <2> QED BY <2>1 DEF Excluded
<1>5. Matches(q, ChunkText(c))
  BY <1>2, <1>3, <1>4 DEF Matches
<1>6. Len(rows) \in Nat /\ Len(rows) > 0 /\ TopK \in Nat /\ TopK > 0
  <2>1. TopK \in Nat /\ TopK > 0
    BY Inputs
  <2>2. \E m \in 0..TopK : Len(rows) = m /\ m > 0
    BY <1>5, <2>1, RowsAre
  <2> QED BY <2>1, <2>2
<1>7. Min({TopK, Len(rows)}) \in Nat /\ Min({TopK, Len(rows)}) > 0
  BY <1>6, LesserIs
<1>8. 1 \in DOMAIN Shown(rows, q)
  BY <1>7 DEF Shown
<1>9. DOMAIN <<>> = {}
  OBVIOUS
<1> QED BY <1>8, <1>9

(* The snippet around a place shows what stands from there on.             *)
LEMMA ClipShows ==
  ASSUME NEW s \in Seq(Symbols), NEW i \in 1..Len(s), NEW j \in 1..Len(s),
         j \in i..(i + SnippetWindow - BeforeMatch - 1)
  PROVE  Shows(Clip(s, i), s, i, j)
<1> USE Scaled
<1> DEFINE start == Max({1, i - BeforeMatch})
           end == start + SnippetWindow - 1
           back == Max({1, Len(s) - SnippetWindow + 1})
<1>0. Len(s) \in Nat /\ i <= j /\ j < i + SnippetWindow - BeforeMatch
  OBVIOUS
<1>1. start = (IF i - BeforeMatch <= 1 THEN 1 ELSE i - BeforeMatch) /\ start \in Int
  <2>1. {1, i - BeforeMatch} = {i - BeforeMatch, 1}
    OBVIOUS
  <2> QED BY <2>1, GreaterIs
<1>2. back = (IF Len(s) - SnippetWindow + 1 <= 1 THEN 1 ELSE Len(s) - SnippetWindow + 1) /\ back \in Int
  <2>1. {1, Len(s) - SnippetWindow + 1} = {Len(s) - SnippetWindow + 1, 1}
    OBVIOUS
  <2>2. Len(s) - SnippetWindow + 1 \in Int /\ 1 \in Nat
    BY <1>0
  <2>3. Max({Len(s) - SnippetWindow + 1, 1}) = IF Len(s) - SnippetWindow + 1 <= 1 THEN 1
                                               ELSE Len(s) - SnippetWindow + 1
    BY <2>2, GreaterIs
  <2>4. back = Max({Len(s) - SnippetWindow + 1, 1})
    BY <2>1
  <2> QED BY <2>2, <2>3, <2>4
<1>3. Clip(s, i) = IF end > Len(s) THEN SubSeq(s, back, Len(s)) ELSE SubSeq(s, start, end)
  BY DEF Clip
<1> HIDE DEF start, back
<1>4. CASE end > Len(s)
  <2>1. back \in 1..i
    BY <1>0, <1>1, <1>2, <1>4
  <2>2. Len(s) \in j..Len(s)
    BY <1>0
  <2> QED BY <1>3, <1>4, <2>1, <2>2 DEF Shows
<1>5. CASE end <= Len(s)
  <2>1. start \in 1..i /\ end \in j..Len(s)
    BY <1>0, <1>1, <1>5
  <2>2. Clip(s, i) = SubSeq(s, start, end)
    BY <1>0, <1>1, <1>3, <1>5
  <2> HIDE DEF end
  <2> QED BY <2>1, <2>2 DEF Shows
<1> QED BY <1>0, <1>1, <1>4, <1>5

(* What a row is of, and that it shows what stands first in it.            *)
LEMMA RowIs ==
  ASSUME TypeInv, WindowsInv, NEW q, NEW rows \in Rows(q, TopK), NEW k \in DOMAIN Shown(rows, q)
  PROVE  /\ Shown(rows, q)[k].chunk \in 1..Len(chunks)
         /\ Matches(q, ChunkText(Shown(rows, q)[k].chunk))
         /\ Shown(rows, q)[k].snippet = Snippet(ChunkText(Shown(rows, q)[k].chunk), q)
<1>1. PICK m \in 0..TopK : /\ Len(rows) = m
                           /\ rows \in Injection(1..m, {c \in 1..Len(chunks) : Matches(q, ChunkText(c))})
  BY Inputs, RowsAre
<1>2. k \in 1..m
  <2>1. Min({TopK, Len(rows)}) = m
    BY <1>1, Inputs, LesserIs
  <2> QED BY <1>1, <2>1 DEF Shown
<1>3. rows[k] \in 1..Len(chunks) /\ Matches(q, ChunkText(rows[k]))
  BY <1>1, <1>2 DEF Injection
<1>4. Shown(rows, q)[k].chunk = rows[k] /\ Shown(rows, q)[k].snippet = Snippet(ChunkText(rows[k]), q)
  BY DEF Shown, Hit
<1> QED BY <1>3, <1>4

LEMMA MatchHits ==
  ASSUME NEW q, NEW s \in Seq(Symbols), Matches(q, s), PositiveTerms(q) # {}
  PROVE  Hits(q, s) # {}
<1>1. PICK w \in WordsOf(s) : Forms(w) \cap PositiveTerms(q) # {}
  BY DEF Matches, TokensOf
<1>2. PICK i, j \in 1..Len(s) : IsWord(s, i, j) /\ w = SubSeq(s, i, j)
  BY <1>1, WordStands
<1> DEFINE p == <<i, j>>
<1>3. p \in (1..Len(s)) \X (1..Len(s)) /\ p[1] = i /\ p[2] = j
  OBVIOUS
<1> HIDE DEF p
<1>4. IsWord(s, p[1], p[2]) /\ Forms(SubSeq(s, p[1], p[2])) \cap PositiveTerms(q) # {}
  BY <1>1, <1>2, <1>3
<1> QED BY <1>3, <1>4 DEF Hits

LEMMA FirstShown ==
  ASSUME NEW q, NEW s \in Seq(Symbols), NEW i \in 1..Len(s), NEW j \in 1..Len(s),
         First(q, s, i), j \in i..(i + SnippetWindow - BeforeMatch - 1)
  PROVE  Shows(Snippet(s, q), s, i, j)
<1> DEFINE places == {h \in 1..Len(s) : \E w \in Marked(q) : StandsAt(w, s, h)}
<1>1. places \in SUBSET Nat /\ i \in places
  BY DEF First
<1>2. \A h \in places : i <= h
  <2> SUFFICES ASSUME NEW h \in places, ~(i <= h) PROVE FALSE
    OBVIOUS
  <2>1. h \in 1..(i - 1)
    OBVIOUS
  <2> QED BY <2>1 DEF First
<1>3. FirstMatch(s, Marked(q)) = Min(places)
  BY <1>1 DEF FirstMatch
<1> HIDE DEF places
<1>4. Min(places) = i
  <2>1. Min(places) \in places /\ \A h \in places : Min(places) <= h
    BY <1>1, LeastIs
  <2>2. Min(places) \in Nat /\ Min(places) <= i /\ i <= Min(places)
    BY <1>1, <1>2, <2>1
  <2> QED BY <2>2
<1> QED BY <1>3, <1>4, ClipShows DEF Snippet

(* A word no longer than the overlap is found; every row holds a word it   *)
(* was found by and shows what stands first of what was asked for.         *)
THEOREM WordsAreFound == Spec => []Found
<1>1. Init => Found
  BY DEF Init, Found
<1>2. TypeInv /\ WindowsInv /\ Carried /\ Found /\ [Next]_vars => Found'
  <2> SUFFICES ASSUME TypeInv, WindowsInv, Carried, Found, [Next]_vars, stage' = "done", mode' = "search"
               PROVE  Found'
    BY DEF Found
  <2>1. ASSUME NEW t \in kit, Read(t) PROVE FALSE
    BY <2>1 DEF Read
  <2>2. ~EndOfFile /\ ~Chunk /\ ~Fuse /\ ~Rerank
    BY DEF EndOfFile, Chunk, Fuse, Rerank
  <2>3. ASSUME NEW q, NEW m \in {"ask", "rerank"}, Ask(q, m) PROVE FALSE
    BY <2>3 DEF Ask
  <2>4. ASSUME NEW n, Dense(n) PROVE FALSE
    BY <2>4 DEF Dense
  <2>5. ASSUME NEW q \in Queries, Search(q) PROVE Found'
    <3>1. /\ at > Len(text) /\ query' = q /\ text' = text
      BY <2>5 DEF Search
    <3>2. PICK rows \in Rows(q, TopK) : results' = Shown(rows, q)
      BY <2>5 DEF Search
    <3>3. ASSUME NEW w \in q.wanted \cap WordsOf(text), Terms({w}) # {}, Len(w) <= Overlap,
                 ~Excluded(q, text)
          PROVE  results' # <<>>
      BY <3>1, <3>2, <3>3, WordIsFound
    <3>4. ASSUME NEW k \in DOMAIN results', NEW s, s = ChunkText(results'[k].chunk)
          PROVE  /\ PositiveTerms(q) # {} => Hits(q, s) # {}
                 /\ \A i, j \in 1..Len(s) :
                      /\ First(q, s, i) /\ j \in i..(i + SnippetWindow - BeforeMatch - 1)
                      => Shows(results'[k].snippet, s, i, j)
      <4>1. /\ results'[k].chunk \in 1..Len(chunks) /\ Matches(q, s)
            /\ results'[k].snippet = Snippet(s, q)
        BY <3>2, <3>4, RowIs
      <4>2. s \in Seq(Symbols)
        BY <3>4, <4>1, ChunkWords
      <4> QED BY <4>1, <4>2, MatchHits, FirstShown
    <3>5. \A c : ChunkText(c)' = ChunkText(c)
      BY <2>5 DEF Search, ChunkText
    <3> QED BY <3>1, <3>3, <3>4, <3>5 DEF Found
  <2>6. CASE UNCHANGED vars
    <3>1. /\ stage' = stage /\ mode' = mode /\ query' = query /\ text' = text
          /\ chunks' = chunks /\ results' = results
      BY <2>6 DEF vars, asking
    <3>2. \A c : ChunkText(c)' = ChunkText(c)
      BY <3>1 DEF ChunkText
    <3> QED BY <3>1, <3>2 DEF Found
  <2> QED BY <2>1, <2>2, <2>3, <2>4, <2>5, <2>6 DEF Next
<1> QED BY <1>1, <1>2, TypeCorrect, WindowsKept, PTL DEF Spec
-----------------------------------------------------------------------------
(* Fractions, and the order of the fused list.                             *)
Fraction == Nat \X (Nat \ {0})
Lists == UNION {Rankings(n, Nat) : n \in 0..ListTop}

LEMMA Scaling ==
  /\ \A a, b, m \in Nat : a >= b => a * m >= b * m
  /\ \A a, b, m \in Nat : m > 0 /\ a > b => a * m > b * m
  /\ \A a, b, m \in Nat : m > 0 /\ a * m >= b * m => a >= b
  /\ \A a, b, m \in Nat : m > 0 /\ a * m > b * m => a > b
<1>1. \A a, b, m \in Nat : a >= b => a * m >= b * m
  OBVIOUS
<1>2. \A a, b, m \in Nat : m > 0 /\ a > b => a * m > b * m
  OBVIOUS
<1>3. \A a, b, m \in Nat : m > 0 /\ a * m >= b * m => a >= b
  BY <1>2
<1>4. \A a, b, m \in Nat : m > 0 /\ a * m > b * m => a > b
  BY <1>1
<1> QED BY <1>1, <1>2, <1>3, <1>4

LEMMA HigherOrder ==
  ASSUME NEW x \in Fraction, NEW y \in Fraction, NEW z \in Fraction
  PROVE  /\ ~Higher(x, x) /\ (Higher(x, y) => ~Higher(y, x))
         /\ ~Higher(y, x) /\ ~Higher(z, y) => ~Higher(z, x)
         /\ Higher(x, y) /\ ~Higher(z, y) => Higher(x, z)
         /\ ~Higher(y, x) /\ Higher(y, z) => Higher(x, z)
<1> DEFINE a == x[1]
           b == x[2]
           c == y[1]
           d == y[2]
           e == z[1]
           f == z[2]
<1>1. /\ a \in Nat /\ c \in Nat /\ e \in Nat
      /\ b \in Nat /\ d \in Nat /\ f \in Nat /\ b > 0 /\ d > 0 /\ f > 0
  BY DEF Fraction
<1>2. /\ Higher(x, x) = (a * b > a * b) /\ Higher(x, y) = (a * d > c * b) /\ Higher(y, x) = (c * b > a * d)
      /\ Higher(y, z) = (c * f > e * d) /\ Higher(z, y) = (e * d > c * f)
      /\ Higher(x, z) = (a * f > e * b) /\ Higher(z, x) = (e * b > a * f)
  BY DEF Higher
<1> HIDE DEF a, b, c, d, e, f
<1>3. /\ a * b \in Nat /\ a * d \in Nat /\ c * b \in Nat /\ c * f \in Nat /\ e * d \in Nat
      /\ a * f \in Nat /\ e * b \in Nat
  BY <1>1
<1>4. /\ (a * d) * f = (a * f) * d /\ (c * b) * f = (c * f) * b /\ (e * d) * b = (e * b) * d
  BY <1>1
<1>5. ASSUME a * d >= c * b, c * f >= e * d PROVE a * f >= e * b
  <2>1. (a * d) * f >= (c * b) * f /\ (c * f) * b >= (e * d) * b
    BY <1>1, <1>3, <1>5, Scaling
  <2>2. (a * f) * d >= (e * b) * d
    <3>1. \A p, q, r \in Nat : p >= q /\ q >= r => p >= r
      OBVIOUS
    <3>2. (a * f) * d \in Nat /\ (c * f) * b \in Nat /\ (e * b) * d \in Nat
      BY <1>1
    <3> QED BY <1>4, <2>1, <3>1, <3>2
  <2> QED BY <1>1, <1>3, <2>2, Scaling
<1>6. ASSUME a * d >= c * b, c * f >= e * d, a * d > c * b \/ c * f > e * d PROVE a * f > e * b
  <2>1. /\ (a * d) * f >= (c * b) * f /\ (c * f) * b >= (e * d) * b
        /\ (a * d) * f > (c * b) * f \/ (c * f) * b > (e * d) * b
    BY <1>1, <1>3, <1>6, Scaling
  <2>2. (a * f) * d > (e * b) * d
    <3>1. \A p, q, r \in Nat : p >= q /\ q >= r /\ (p > q \/ q > r) => p > r
      OBVIOUS
    <3>2. (a * f) * d \in Nat /\ (c * f) * b \in Nat /\ (e * b) * d \in Nat
      BY <1>1
    <3> QED BY <1>4, <2>1, <3>1, <3>2
  <2> QED BY <1>1, <1>3, <2>2, Scaling
<1>7. \A p, q \in Nat : ~(p > q) <=> q >= p
  OBVIOUS
<1>8. \A p, q \in Nat : p > q => p >= q /\ ~(q > p)
  OBVIOUS
<1>9. ~Higher(x, x) /\ (Higher(x, y) => ~Higher(y, x))
  BY <1>2, <1>3, <1>8
<1>10. ~Higher(y, x) /\ ~Higher(z, y) => ~Higher(z, x)
  BY <1>2, <1>3, <1>5, <1>7
<1>11. Higher(x, y) /\ ~Higher(z, y) => Higher(x, z)
  BY <1>2, <1>3, <1>6, <1>7, <1>8
<1>12. ~Higher(y, x) /\ Higher(y, z) => Higher(x, z)
  BY <1>2, <1>3, <1>6, <1>7, <1>8
<1> QED BY <1>9, <1>10, <1>11, <1>12

(* Two shares of ranks within the limit are more than the greatest one.    *)
LEMMA TwoBeatOne ==
  ASSUME NEW p \in 1..ListTop, NEW q \in 1..ListTop, NEW r \in 1..ListTop
  PROVE  /\ Higher(Plus(<<1, RrfK + p>>, <<1, RrfK + q>>), Plus(<<1, RrfK + r>>, <<0, 1>>))
         /\ Higher(Plus(<<1, RrfK + p>>, <<1, RrfK + q>>), Plus(<<0, 1>>, <<1, RrfK + r>>))
<1> DEFINE a == RrfK + p
           b == RrfK + q
           c == RrfK + r
<1>1. /\ RrfK \in Nat /\ a \in Nat /\ b \in Nat /\ c \in Nat /\ a > 0 /\ b > 0
      /\ a <= 2 * RrfK + 1 /\ b <= 2 * RrfK + 1 /\ c >= RrfK + 1
  BY Scaled
<1> HIDE DEF a, b, c
<1>2. 2 * (a * b) < 2 * ((a + b) * c)
  <2> DEFINE m == 2 * RrfK + 1
  <2>1. m \in Nat /\ a <= m /\ b <= m /\ 2 * c > m
    BY <1>1
  <2> HIDE DEF m
  <2>2. a * b <= m * b /\ b * a <= m * a
    BY <1>1, <2>1, Scaling
  <2>3. 2 * (a * b) <= m * (a + b)
    <3>1. b * a = a * b /\ m * b + m * a = m * (a + b) /\ a * b \in Nat /\ m * b \in Nat /\ m * a \in Nat
      BY <1>1, <2>1
    <3> HIDE DEF m
    <3>2. \A x, y, z \in Nat : x <= y /\ x <= z => 2 * x <= y + z
      OBVIOUS
    <3> QED BY <2>2, <3>1, <3>2
  <2>4. m * (a + b) < (2 * c) * (a + b)
    BY <1>1, <2>1, Scaling
  <2>5. (2 * c) * (a + b) = 2 * ((a + b) * c)
    BY <1>1
  <2>6. 2 * (a * b) \in Nat /\ m * (a + b) \in Nat /\ (2 * c) * (a + b) \in Nat
    BY <1>1, <2>1
  <2>7. \A x, y, z \in Nat : x <= y /\ y < z => x < z
    OBVIOUS
  <2> QED BY <2>3, <2>4, <2>5, <2>6, <2>7
<1>3. a * b < (a + b) * c
  <2>1. a * b \in Nat /\ (a + b) * c \in Nat
    BY <1>1
  <2>2. \A x, y \in Nat : 2 * x < 2 * y => x < y
    OBVIOUS
  <2> QED BY <1>2, <2>1, <2>2
<1>4. Plus(<<1, a>>, <<1, b>>) = <<b + a, a * b>>
  BY <1>1 DEF Plus
<1>5. Plus(<<1, c>>, <<0, 1>>) = <<1, c>> /\ Plus(<<0, 1>>, <<1, c>>) = <<1, c>>
  BY <1>1 DEF Plus
<1>6. Higher(<<b + a, a * b>>, <<1, c>>)
  <2>1. (b + a) * c = (a + b) * c /\ 1 * (a * b) = a * b
    BY <1>1
  <2> QED BY <1>1, <1>3, <2>1 DEF Higher
<1> QED BY <1>4, <1>5, <1>6 DEF a, b, c

LEMMA RankIs ==
  ASSUME NEW list \in Lists
  PROVE  /\ Len(list) \in 0..ListTop /\ list \in Injection(1..Len(list), Nat)
         /\ IsFiniteSet(Range(list)) /\ Range(list) \subseteq Nat
         /\ \A c \in Range(list) : /\ RankIn(list, c) \in 1..Len(list) /\ list[RankIn(list, c)] = c
<1>1. PICK n \in 0..ListTop : list \in Injection(1..n, Nat)
  BY DEF Lists, Rankings
<1>2. list \in [1..n -> Nat] /\ IsInjective(list) /\ n \in Nat
  BY <1>1, Scaled DEF Injection
<1>3. Len(list) = n /\ DOMAIN list = 1..n
  BY <1>2, FunctionIsSeq
<1>4. Range(list) \subseteq Nat /\ \A c \in Range(list) : \E k \in 1..n : list[k] = c
  BY <1>2 DEF Range
<1>5. IsFiniteSet(Range(list))
  <2>1. list \in Surjection(1..n, Range(list))
    BY <1>2 DEF Surjection, Range
  <2>2. IsFiniteSet(1..n)
    BY <1>2, FS_Interval
  <2> QED BY <2>1, <2>2, FS_Surjection
<1>6. \A c \in Range(list) : RankIn(list, c) \in 1..n /\ list[RankIn(list, c)] = c
  BY <1>3, <1>4 DEF RankIn
<1> QED BY <1>1, <1>3, <1>4, <1>5, <1>6

LEMMA ShareIs ==
  ASSUME NEW list \in Lists, NEW c
  PROVE  /\ Share(list, c) \in Fraction
         /\ c \in Range(list) => \E r \in 1..ListTop : Share(list, c) = <<1, RrfK + r>>
         /\ c \notin Range(list) => Share(list, c) = <<0, 1>>
<1>1. CASE c \in Range(list)
  <2>1. RankIn(list, c) \in 1..ListTop
    BY <1>1, RankIs, Scaled
  <2>2. Share(list, c) = <<1, RrfK + RankIn(list, c)>>
    BY <1>1 DEF Share
  <2>3. RrfK + RankIn(list, c) \in Nat \ {0}
    BY <2>1, Scaled
  <2> QED BY <1>1, <2>1, <2>2, <2>3 DEF Fraction
<1>2. CASE c \notin Range(list)
  BY <1>2 DEF Share, Fraction
<1> QED BY <1>1, <1>2

LEMMA ScoreIs ==
  ASSUME NEW b \in Lists, NEW d \in Lists, NEW c
  PROVE  Score(b, d, c) \in Fraction
<1> DEFINE x == Share(b, c)
           y == Share(d, c)
<1>1. x[1] \in Nat /\ x[2] \in Nat \ {0} /\ y[1] \in Nat /\ y[2] \in Nat \ {0}
  BY ShareIs DEF Fraction
<1> HIDE DEF x, y
<1>2. x[1] * y[2] \in Nat /\ y[1] * x[2] \in Nat /\ x[2] * y[2] \in Nat /\ x[2] * y[2] # 0
  <2>1. \A m, n \in Nat : m * n \in Nat
    OBVIOUS
  <2>2. \A m, n \in Nat : m # 0 /\ n # 0 => m * n # 0
    OBVIOUS
  <2> QED BY <1>1, <2>1, <2>2
<1>3. Plus(x, y) \in Fraction
  BY <1>2 DEF Plus, Fraction
<1> QED BY <1>3 DEF Score, x, y

LEMMA PlacesDiffer ==
  ASSUME NEW b \in Lists, NEW d \in Lists,
         NEW c \in Range(b) \cup Range(d), NEW e \in Range(b) \cup Range(d), c # e
  PROVE  /\ Place(b, d, c) \in Nat /\ Place(b, d, e) \in Nat
         /\ Place(b, d, c) # Place(b, d, e)
<1>1. Len(b) \in Nat /\ Len(d) \in Nat
  BY RankIs, Scaled
<1>2. \A x \in Range(b) : Place(b, d, x) \in 1..Len(b) /\ b[Place(b, d, x)] = x
  BY RankIs DEF Place
<1>3. \A x \in Range(d) \ Range(b) : /\ Place(b, d, x) - Len(b) \in 1..Len(d)
                                     /\ d[Place(b, d, x) - Len(b)] = x /\ Place(b, d, x) \in Nat
  <2> SUFFICES ASSUME NEW x \in Range(d) \ Range(b)
               PROVE  /\ Place(b, d, x) - Len(b) \in 1..Len(d)
                      /\ d[Place(b, d, x) - Len(b)] = x /\ Place(b, d, x) \in Nat
    OBVIOUS
  <2>1. Place(b, d, x) = Len(b) + RankIn(d, x) /\ RankIn(d, x) \in 1..Len(d) /\ d[RankIn(d, x)] = x
    BY RankIs DEF Place
  <2>2. Place(b, d, x) - Len(b) = RankIn(d, x)
    BY <1>1, <2>1
  <2> QED BY <1>1, <2>1, <2>2
<1>4. CASE c \in Range(b) /\ e \in Range(b)
  BY <1>1, <1>2, <1>4
<1>5. CASE c \notin Range(b) /\ e \notin Range(b)
  BY <1>1, <1>3, <1>5
<1>6. CASE c \in Range(b) /\ e \notin Range(b)
  BY <1>1, <1>2, <1>3, <1>6
<1>7. CASE c \notin Range(b) /\ e \in Range(b)
  BY <1>1, <1>2, <1>3, <1>7
<1> QED BY <1>4, <1>5, <1>6, <1>7

LEMMA FusedIs ==
  ASSUME NEW b \in Lists, NEW d \in Lists
  PROVE  \E n \in Nat : /\ Fused(b, d) \in [1..n -> Range(b) \cup Range(d)] /\ Len(Fused(b, d)) = n
                        /\ \A i, j \in 1..n : i < j => Before(b, d, Fused(b, d)[i], Fused(b, d)[j])
<1> DEFINE all == Range(b) \cup Range(d)
           R == {p \in all \X all : Before(b, d, p[1], p[2])}
           n == Cardinality(all)
           f == [k \in 1..n |-> CHOOSE c \in all : Cardinality({e \in all : <<e, c>> \in R}) = k - 1]
<1>1. IsFiniteSet(all) /\ n \in Nat
  BY RankIs, FS_Union, FS_CardinalityType
<1>2. \A x, y \in all : <<x, y>> \in R <=> Before(b, d, x, y)
  OBVIOUS
<1>3. Fused(b, d) = f
  <2>1. \A c \in all : {e \in all : <<e, c>> \in R} = {e \in all : Before(b, d, e, c)}
    BY <1>2
  <2> HIDE DEF R, all
  <2>2. \A k : (CHOOSE c \in all : Cardinality({e \in all : <<e, c>> \in R}) = k - 1)
                 = (CHOOSE c \in all : Cardinality({e \in all : Before(b, d, e, c)}) = k - 1)
    BY <2>1
  <2>3. Fused(b, d) = [k \in 1..n |-> CHOOSE c \in all : Cardinality({e \in all : Before(b, d, e, c)}) = k - 1]
    BY DEF Fused, all
  <2> QED BY <2>2, <2>3
<1> HIDE DEF R, n
<1>4. \A x \in all : <<x, x>> \notin R
  <2> SUFFICES ASSUME NEW x \in all PROVE ~Before(b, d, x, x)
    BY <1>2
  <2>1. ~Higher(Score(b, d, x), Score(b, d, x))
    BY ScoreIs, HigherOrder
  <2>2. ~(Place(b, d, x) < Place(b, d, x))
    <3>1. Place(b, d, x) \in Int
      BY RankIs, Scaled DEF Place
    <3> QED BY <3>1
  <2> QED BY <2>1, <2>2 DEF Before
<1>5. \A x, y \in all : x # y => <<x, y>> \in R \/ <<y, x>> \in R
  <2> SUFFICES ASSUME NEW x \in all, NEW y \in all, x # y
               PROVE  Before(b, d, x, y) \/ Before(b, d, y, x)
    BY <1>2
  <2>1. Place(b, d, x) < Place(b, d, y) \/ Place(b, d, y) < Place(b, d, x)
    BY PlacesDiffer
  <2> QED BY <2>1 DEF Before
<1>6. \A x, y, z \in all : <<x, y>> \in R /\ <<y, z>> \in R => <<x, z>> \in R
  <2> SUFFICES ASSUME NEW x \in all, NEW y \in all, NEW z \in all, Before(b, d, x, y), Before(b, d, y, z)
               PROVE  Before(b, d, x, z)
    BY <1>2
  <2> DEFINE u == Score(b, d, x)
             v == Score(b, d, y)
             w == Score(b, d, z)
  <2>1. u \in Fraction /\ v \in Fraction /\ w \in Fraction
    BY ScoreIs
  <2>2. Higher(u, v) \/ (~Higher(v, u) /\ Place(b, d, x) < Place(b, d, y))
    BY DEF Before
  <2>3. Higher(v, w) \/ (~Higher(w, v) /\ Place(b, d, y) < Place(b, d, z))
    BY DEF Before
  <2>4. Higher(u, w) \/ (~Higher(w, u) /\ Place(b, d, x) < Place(b, d, z)) => Before(b, d, x, z)
    BY DEF Before
  <2>5. Place(b, d, x) < Place(b, d, y) /\ Place(b, d, y) < Place(b, d, z) => Place(b, d, x) < Place(b, d, z)
    <3>1. \A t \in all : Place(b, d, t) \in Int
      BY RankIs, Scaled DEF Place
    <3> QED BY <3>1
  <2> HIDE DEF u, v, w
  <2>6. /\ Higher(v, w) => ~Higher(w, v)
        /\ Higher(u, v) => ~Higher(v, u)
        /\ ~Higher(v, u) /\ ~Higher(w, v) => ~Higher(w, u)
        /\ Higher(u, v) /\ ~Higher(w, v) => Higher(u, w)
        /\ ~Higher(v, u) /\ Higher(v, w) => Higher(u, w)
    BY <2>1, HigherOrder
  <2> QED BY <2>2, <2>3, <2>4, <2>5, <2>6
<1> HIDE DEF all
<1>7. /\ \A k \in 1..n : f[k] \in all
      /\ \A i, j \in 1..n : i < j => <<f[i], f[j]>> \in R
  BY <1>1, <1>4, <1>5, <1>6, Ranked DEF n
<1> HIDE DEF f
<1>8. f \in [1..n -> all] /\ Len(f) = n
  <2>1. f \in [1..n -> all]
    BY <1>7 DEF f
  <2> QED BY <1>1, <2>1, FunctionIsSeq
<1>9. \A i, j \in 1..n : i < j => Before(b, d, f[i], f[j])
  BY <1>2, <1>7
<1> QED BY <1>1, <1>3, <1>8, <1>9 DEF all

LEMMA BothAhead ==
  ASSUME NEW b \in Lists, NEW d \in Lists,
         NEW c \in Range(b) \cap Range(d), NEW e \in (Range(b) \cup Range(d)) \ (Range(b) \cap Range(d))
  PROVE  ~Before(b, d, e, c)
<1>1. PICK p \in 1..ListTop : Share(b, c) = <<1, RrfK + p>>
  BY ShareIs
<1>2. PICK q \in 1..ListTop : Share(d, c) = <<1, RrfK + q>>
  BY ShareIs
<1>3. \E r \in 1..ListTop : \/ Share(b, e) = <<1, RrfK + r>> /\ Share(d, e) = <<0, 1>>
                            \/ Share(b, e) = <<0, 1>> /\ Share(d, e) = <<1, RrfK + r>>
  <2>1. CASE e \in Range(b)
    BY <2>1, ShareIs
  <2>2. CASE e \in Range(d)
    BY <2>2, ShareIs
  <2> QED BY <2>1, <2>2
<1>4. Higher(Score(b, d, c), Score(b, d, e))
  BY <1>1, <1>2, <1>3, TwoBeatOne DEF Score
<1>5. ~Higher(Score(b, d, e), Score(b, d, c))
  BY <1>4, ScoreIs, HigherOrder
<1> QED BY <1>4, <1>5 DEF Before

LEMMA CandidatesAre ==
  ASSUME NEW b \in Lists, NEW d \in Lists
  PROVE  \E n \in Nat : /\ Len(Candidates(b, d, TopK)) = n
                        /\ Candidates(b, d, TopK) \in [1..n -> Range(b) \cup Range(d)]
                        /\ \A i, j \in 1..n : i < j =>
                             Before(b, d, Candidates(b, d, TopK)[i], Candidates(b, d, TopK)[j])
<1> DEFINE f == Fused(b, d)
           m == Max({TopK * 3, KeepAtLeast})
           n == Min({m, Len(f)})
           list == SubSeq(f, 1, n)
<1>1. PICK k \in Nat : /\ f \in [1..k -> Range(b) \cup Range(d)] /\ Len(f) = k
                       /\ \A i, j \in 1..k : i < j => Before(b, d, f[i], f[j])
  BY FusedIs
<1> HIDE DEF f
<1>2. m \in Nat
  BY Inputs, Scaled, GreaterIs
<1> HIDE DEF m
<1>3. n \in 0..k
  BY <1>1, <1>2, LesserIs
<1> HIDE DEF n
<1>4. /\ list \in Seq(Range(b) \cup Range(d)) /\ Len(list) = n /\ \A i \in 1..n : list[i] = f[i]
  BY <1>1, <1>3, SubSeqProperties
<1>5. list \in [1..n -> Range(b) \cup Range(d)]
  BY <1>4, LenProperties
<1>6. \A i, j \in 1..n : i < j => Before(b, d, list[i], list[j])
  BY <1>1, <1>3, <1>4
<1>7. Candidates(b, d, TopK) = list
  BY DEF Candidates, f, m, n
<1> HIDE DEF list
<1> QED BY <1>3, <1>4, <1>5, <1>6, <1>7

RankedInv ==
  /\ stage \in {"dense", "fused"} => bm25 \in Lists
  /\ stage = "fused" => dense \in Lists

(* Without a reranker, what both rankings hold comes before what only one  *)
(* of them holds, for any constants that scale as those of the code.       *)
THEOREM AgreementWins == Spec => []BothFirst
<1>1. Init => RankedInv /\ BothFirst
  BY DEF Init, RankedInv, BothFirst
<1>2. TypeInv /\ RankedInv /\ BothFirst /\ [Next]_vars => RankedInv' /\ BothFirst'
  <2> SUFFICES ASSUME TypeInv, RankedInv, BothFirst, [Next]_vars PROVE RankedInv' /\ BothFirst'
    OBVIOUS
  <2>1. ASSUME stage' \notin {"dense", "fused", "done"} PROVE RankedInv' /\ BothFirst'
    BY <2>1 DEF RankedInv, BothFirst
  <2>2. ASSUME NEW t \in kit, Read(t) PROVE RankedInv' /\ BothFirst'
    BY <2>1, <2>2 DEF Read
  <2>3. CASE EndOfFile \/ Chunk
    BY <2>1, <2>3 DEF EndOfFile, Chunk
  <2>4. ASSUME NEW q, Search(q) PROVE RankedInv' /\ BothFirst'
    BY <2>4 DEF Search, RankedInv, BothFirst
  <2>5. ASSUME NEW q, NEW m, Ask(q, m) PROVE RankedInv' /\ BothFirst'
    <3>1. bm25' \in Rows(q, ListTop) /\ stage' = "dense"
      BY <2>5 DEF Ask
    <3>2. PICK k \in 0..ListTop : bm25' \in Injection(1..k, {c \in 1..Len(chunks) : Matches(q, ChunkText(c))})
      BY <3>1, Scaled, RowsAre
    <3>3. bm25' \in Injection(1..k, Nat)
      BY <3>2 DEF Injection
    <3>4. bm25' \in Lists
      BY <3>3 DEF Lists, Rankings
    <3> QED BY <3>1, <3>4 DEF RankedInv, BothFirst
  <2>6. ASSUME NEW k \in 0..ListTop, Dense(k) PROVE RankedInv' /\ BothFirst'
    <3>1. bm25' = bm25 /\ bm25 \in Lists /\ stage' = "fused" /\ dense' \in Injection(1..k, DOMAIN chunks)
      BY <2>6 DEF Dense, RankedInv, Rankings
    <3>2. DOMAIN chunks \subseteq Nat
      BY DEF TypeInv
    <3>3. dense' \in Injection(1..k, Nat)
      BY <3>1, <3>2 DEF Injection
    <3>4. dense' \in Lists
      BY <3>3 DEF Lists, Rankings
    <3> QED BY <3>1, <3>4 DEF RankedInv, BothFirst
  <2>7. CASE Fuse
    <3> DEFINE list == Candidates(bm25, dense, TopK)
    <3>1. /\ bm25 \in Lists /\ dense \in Lists /\ stage' = "done" /\ bm25' = bm25 /\ dense' = dense
          /\ results' = Shown(list, query)
      BY <2>7 DEF Fuse, RankedInv
    <3>2. PICK n \in Nat : /\ Len(list) = n /\ list \in [1..n -> Range(bm25) \cup Range(dense)]
                           /\ \A i, j \in 1..n : i < j => Before(bm25, dense, list[i], list[j])
      BY <3>1, CandidatesAre
    <3> HIDE DEF list
    <3>3. Min({TopK, n}) \in 0..n
      BY <3>2, Inputs, LesserIs
    <3>4. DOMAIN results' \subseteq 1..n /\ \A i \in DOMAIN results' : results'[i].chunk = list[i]
      BY <3>1, <3>2, <3>3 DEF Shown, Hit
    <3>5. ASSUME NEW i \in DOMAIN results', NEW j \in DOMAIN results',
                 list[j] \in Range(bm25) \cap Range(dense), list[i] \notin Range(bm25) \cap Range(dense)
          PROVE  j < i
      <4>1. i \in 1..n /\ j \in 1..n /\ i # j /\ list[i] \in Range(bm25) \cup Range(dense)
        BY <3>2, <3>4, <3>5
      <4>2. ~(i < j)
        BY <3>1, <3>2, <3>5, <4>1, BothAhead
      <4> QED BY <4>1, <4>2
    <3>6. BothFirst'
      BY <3>1, <3>4, <3>5 DEF BothFirst
    <3> QED BY <3>1, <3>6 DEF RankedInv
  <2>8. CASE Rerank
    BY <2>8 DEF Rerank, RankedInv, BothFirst
  <2>9. CASE UNCHANGED vars
    BY <2>9 DEF vars, asking, RankedInv, BothFirst
  <2> QED BY <2>2, <2>3, <2>4, <2>5, <2>6, <2>7, <2>8, <2>9 DEF Next
<1> QED BY <1>1, <1>2, TypeCorrect, PTL DEF Spec

-----------------------------------------------------------------------------
(* What an RTF file means: the definitions of RtfReader over a file that   *)
(* gets longer by one token.                                               *)

Deeper(n, t) == IF t = "open" THEN n + 1 ELSE IF t = "close" /\ n > 0 THEN n - 1 ELSE n

LEMMA DepthIs ==
  ASSUME NEW ts \in Seq(Tokens)
  PROVE  /\ Depth(ts) \in [0..Len(ts) -> Nat] /\ Depth(ts)[0] = 0
         /\ \A k \in 1..Len(ts) : Depth(ts)[k] = Deeper(Depth(ts)[k - 1], ts[k])
<1> DEFINE N == Len(ts)
           step == [k \in 1..N |-> [x \in Nat |-> Deeper(x, ts[k])]]
<1>1. N \in Nat /\ 0 \in Nat
  OBVIOUS
<1>2. step \in [1..N -> [Nat -> Nat]]
  BY DEF Deeper
<1>3. \A x \in Nat : \A k \in 1..N : step[k][x] = Deeper(x, ts[k])
  OBVIOUS
<1> HIDE DEF step
<1>4. PICK f \in [0..N -> Nat] : f[0] = 0 /\ \A k \in 1..N : f[k] = step[k][f[k - 1]]
  <2>1. N \in Nat
    BY <1>1
  <2>2. 0 \in Nat
    BY <1>1
  <2> HIDE DEF N
  <2>3. Unrolled(Nat, 0, N, step) # {}
    BY <1>2, <2>1, <2>2, Recursive
  <2> QED BY <2>3 DEF Unrolled
<1>5. f = [k \in 0..N |-> IF k = 0 THEN 0
                          ELSE CASE ts[k] = "open" -> f[k - 1] + 1
                                 [] ts[k] = "close" /\ f[k - 1] > 0 -> f[k - 1] - 1
                                 [] OTHER -> f[k - 1]]
  <2>1. ASSUME NEW k \in 1..N PROVE f[k] = Deeper(f[k - 1], ts[k])
    <3>1. f[k - 1] \in Nat
      OBVIOUS
    <3> QED BY <1>3, <1>4, <3>1
  <2>2. f = [k \in 0..N |-> IF k = 0 THEN 0 ELSE Deeper(f[k - 1], ts[k])]
    <3>1. f = [k \in 0..N |-> f[k]]
      BY <1>4
    <3>2. \A k \in 0..N : f[k] = IF k = 0 THEN 0 ELSE Deeper(f[k - 1], ts[k])
      BY <1>1, <1>4, <2>1
    <3> QED BY <3>1, <3>2
  <2> QED BY <2>2 DEF Deeper
<1>6. Depth(ts) = [k \in 0..N |-> IF k = 0 THEN 0
                          ELSE CASE ts[k] = "open" -> Depth(ts)[k - 1] + 1
                                 [] ts[k] = "close" /\ Depth(ts)[k - 1] > 0 -> Depth(ts)[k - 1] - 1
                                 [] OTHER -> Depth(ts)[k - 1]]
  BY <1>5 DEF Depth
<1> DEFINE d == Depth(ts)
<1> HIDE DEF d
<1>7. d[0] = 0 /\ \A k \in 1..N : d[k] = Deeper(d[k - 1], ts[k])
  BY <1>1, <1>6 DEF d, Deeper
<1>8. \A k \in 1..N : f[k] = Deeper(f[k - 1], ts[k])
  <2> TAKE k \in 1..N
  <2>1. f[k - 1] \in Nat
    OBVIOUS
  <2> QED BY <1>3, <1>4, <2>1
<1>9. \A k \in 0..N : f[k] = d[k]
  <2>1. N \in Nat
    BY <1>1
  <2> DEFINE P == {k \in 0..N : f[k] = d[k]}
  <2>2. 0 \in P
    BY <2>1, <1>4, <1>7
  <2>3. ASSUME NEW k \in 1..N, k - 1 \in P PROVE k \in P
    BY <2>1, <2>3, <1>7, <1>8
  <2> HIDE DEF P
  <2>4. 0..N \subseteq P
    BY <2>1, <2>2, <2>3, UpTo
  <2> QED BY <2>4 DEF P
<1>10. d = [k \in 0..N |-> d[k]]
  BY <1>6 DEF d
<1>11. d \in [0..N -> Nat]
  BY <1>9, <1>10
<1> QED BY <1>7, <1>11 DEF d

(* Pieces put together one after the other.                                *)
LEMMA JoinedIs ==
  ASSUME NEW s \in Seq(Symbols)
  PROVE  /\ \A piece \in Seq(Symbols) : Joined(s, piece) = s \o piece
         /\ \A piece \in Seq(Symbols) \cup {<<"cell">>, <<"row">>} : Joined(s, piece) \in Seq(Symbols)
<1>1. \A x \in Symbols : Append(s, x) \in Seq(Symbols)
  BY AppendProperties
<1>2. ASSUME NEW piece \in Seq(Symbols) PROVE piece # <<"cell">> /\ piece # <<"row">>
  <2>1. "cell" \notin Symbols /\ "row" \notin Symbols
    BY DEF Symbols, Letters, Blanks, Breaks
  <2>2. <<"cell">>[1] = "cell" /\ <<"row">>[1] = "row" /\ Len(<<"cell">>) = 1 /\ Len(<<"row">>) = 1
    OBVIOUS
  <2>3. Len(piece) = 1 => piece[1] \in Symbols
    OBVIOUS
  <2> QED BY <2>1, <2>2, <2>3
<1>3. \A piece \in Seq(Symbols) : s \o piece \in Seq(Symbols)
  BY ConcatProperties
<1> QED BY <1>1, <1>2, <1>3, SymbolsAre DEF Joined

AnyPiece == Seq(Symbols) \cup {<<"cell">>, <<"row">>}

LEMMA TogetherIs ==
  ASSUME NEW ps \in Seq(AnyPiece)
  PROVE  \E s \in [0..Len(ps) -> Seq(Symbols)] :
           /\ s[0] = <<>> /\ Together(ps) = s[Len(ps)]
           /\ \A k \in 1..Len(ps) : s[k] = Joined(s[k - 1], ps[k])
<1> DEFINE N == Len(ps)
           S == Seq(Symbols)
           step == [k \in 1..N |-> [x \in S |-> Joined(x, ps[k])]]
<1>1. N \in Nat /\ <<>> \in S
  BY EmptySeq
<1>2. step \in [1..N -> [S -> S]]
  <2>1. ASSUME NEW s \in S, NEW k \in 1..N PROVE Joined(s, ps[k]) \in S
    <3>1. ps[k] \in AnyPiece
      BY ElementOfSeq
    <3> QED BY <3>1, JoinedIs DEF AnyPiece
  <2> QED BY <2>1
<1>3. \A x \in S : \A k \in 1..N : step[k][x] = Joined(x, ps[k])
  OBVIOUS
<1> HIDE DEF step, S
<1>4. PICK f \in [0..N -> S] : f[0] = <<>> /\ \A k \in 1..N : f[k] = step[k][f[k - 1]]
  <2>1. N \in Nat
    BY <1>1
  <2>2. <<>> \in S
    BY <1>1 DEF S
  <2> HIDE DEF N
  <2>3. Unrolled(S, <<>>, N, step) # {}
    BY <1>2, <2>1, <2>2, Recursive
  <2> QED BY <2>3 DEF Unrolled
<1>5. \A k \in 1..N : f[k] = Joined(f[k - 1], ps[k])
  <2> TAKE k \in 1..N
  <2>1. f[k - 1] \in S
    OBVIOUS
  <2> QED BY <1>3, <1>4, <2>1
<1>6. f = [k \in 0..N |-> IF k = 0 THEN <<>> ELSE Joined(f[k - 1], ps[k])]
  BY <1>1, <1>4, <1>5
<1> DEFINE g == CHOOSE s : s = [k \in 0..N |-> IF k = 0 THEN <<>> ELSE Joined(s[k - 1], ps[k])]
<1>7. g = [k \in 0..N |-> IF k = 0 THEN <<>> ELSE Joined(g[k - 1], ps[k])]
  BY <1>6
<1>8. Together(ps) = g[N]
  BY DEF Together
<1> HIDE DEF g
<1>9. g[0] = <<>> /\ \A k \in 1..N : g[k] = Joined(g[k - 1], ps[k])
  BY <1>1, <1>7
<1>10. \A k \in 0..N : f[k] = g[k]
  <2>1. N \in Nat
    BY <1>1
  <2> DEFINE P == {k \in 0..N : f[k] = g[k]}
  <2>2. 0 \in P
    BY <2>1, <1>4, <1>9
  <2>3. ASSUME NEW k \in 1..N, k - 1 \in P PROVE k \in P
    BY <2>1, <2>3, <1>5, <1>9
  <2> HIDE DEF P
  <2>4. 0..N \subseteq P
    BY <2>1, <2>2, <2>3, UpTo
  <2> QED BY <2>4 DEF P
<1> QED BY <1>1, <1>4, <1>5, <1>8, <1>10 DEF S

(* One piece more is joined to what was there.                             *)
LEMMA TogetherAppend ==
  ASSUME NEW ps \in Seq(AnyPiece), NEW piece \in AnyPiece
  PROVE  /\ Together(ps) \in Seq(Symbols)
         /\ Together(Append(ps, piece)) = Joined(Together(ps), piece)
<1> DEFINE qs == Append(ps, piece)
           N == Len(ps)
<1>1. /\ qs \in Seq(AnyPiece) /\ Len(qs) = N + 1 /\ N \in Nat
      /\ qs[N + 1] = piece /\ \A k \in 1..N : qs[k] = ps[k]
  BY AppendProperties
<1> HIDE DEF qs
<1>2. PICK s \in [0..N -> Seq(Symbols)] :
        /\ s[0] = <<>> /\ Together(ps) = s[N]
        /\ \A k \in 1..N : s[k] = Joined(s[k - 1], ps[k])
  BY TogetherIs
<1>3. PICK u \in [0..Len(qs) -> Seq(Symbols)] :
        /\ u[0] = <<>> /\ Together(qs) = u[Len(qs)]
        /\ \A k \in 1..Len(qs) : u[k] = Joined(u[k - 1], qs[k])
  BY <1>1, TogetherIs
<1>4. \A k \in 1..N : u[k] = Joined(u[k - 1], ps[k])
  BY <1>1, <1>3
<1>5. \A k \in 0..N : s[k] = u[k]
  <2>1. N \in Nat
    BY <1>1
  <2> DEFINE P == {k \in 0..N : s[k] = u[k]}
  <2>2. 0 \in P
    BY <2>1, <1>2, <1>3
  <2>3. ASSUME NEW k \in 1..N, k - 1 \in P PROVE k \in P
    BY <2>1, <2>3, <1>2, <1>4
  <2> HIDE DEF P
  <2>4. 0..N \subseteq P
    BY <2>1, <2>2, <2>3, UpTo
  <2> QED BY <2>4 DEF P
<1>6. u[N + 1] = Joined(u[N], piece)
  <2>1. N + 1 \in 1..Len(qs) /\ (N + 1) - 1 = N
    BY <1>1
  <2> QED BY <1>1, <1>3, <2>1
<1>7. N \in 0..N /\ s[N] = u[N]
  BY <1>1, <1>5
<1> QED BY <1>1, <1>2, <1>3, <1>6, <1>7 DEF qs

(* A file that goes on is as deep, at every place it had, as it was.       *)
LEMMA DepthAppend ==
  ASSUME NEW ts \in Seq(Tokens), NEW t \in Tokens
  PROVE  /\ \A k \in 0..Len(ts) : Depth(Append(ts, t))[k] = Depth(ts)[k]
         /\ Depth(Append(ts, t))[Len(ts) + 1] = Deeper(Depth(ts)[Len(ts)], t)
<1> DEFINE us == Append(ts, t)
           N == Len(ts)
           d == Depth(ts)
           e == Depth(us)
           P == {k \in 0..N : d[k] = e[k]}
<1>1. /\ us \in Seq(Tokens) /\ Len(us) = N + 1 /\ N \in Nat
      /\ us[N + 1] = t /\ \A k \in 1..N : us[k] = ts[k]
  BY AppendProperties
<1>2. d[0] = 0 /\ \A k \in 1..N : d[k] = Deeper(d[k - 1], ts[k])
  BY DepthIs
<1>3. e[0] = 0 /\ \A k \in 1..(N + 1) : e[k] = Deeper(e[k - 1], us[k])
  BY <1>1, DepthIs
<1> HIDE DEF us, d, e
<1>4. 0 \in P
  BY <1>1, <1>2, <1>3
<1>5. ASSUME NEW k \in 1..N, k - 1 \in P PROVE k \in P
  BY <1>1, <1>2, <1>3, <1>5
<1> HIDE DEF P
<1>6. 0..N \subseteq P
  BY <1>1, <1>4, <1>5, UpTo
<1>7. e[N + 1] = Deeper(e[N], t) /\ N \in 0..N
  <2>1. N + 1 \in 1..(N + 1) /\ (N + 1) - 1 = N
    BY <1>1
  <2> QED BY <1>1, <1>3, <2>1
<1> QED BY <1>6, <1>7 DEF P, us, d, e

(* What of some words is still in force at k.                              *)
Said(ts, words, k) == {m \in 1..(k - 1) : ts[m] \in words /\ InForce(ts, m, k)}

LEMMA LastSaid ==
  ASSUME NEW ts \in Seq(Tokens), NEW words, NEW k \in Nat
  PROVE  /\ Said(ts, words, k) = {} => SaidLast(ts, words, k) = "nothing"
         /\ \A m \in Said(ts, words, k) :
              (\A n \in Said(ts, words, k) : n <= m) => SaidLast(ts, words, k) = ts[m]
         /\ Said(ts, words, k) # {} =>
              \E m \in Said(ts, words, k) : \A n \in Said(ts, words, k) : n <= m
<1> DEFINE ms == Said(ts, words, k)
<1>1. SaidLast(ts, words, k) = IF ms = {} THEN "nothing" ELSE ts[CHOOSE m \in ms : \A n \in ms : n <= m]
  BY DEF SaidLast, Said
<1>2. ms \in SUBSET (0..k) /\ ms \in SUBSET Nat
  BY DEF Said
<1> HIDE DEF ms
<1>3. ASSUME NEW m \in ms, \A n \in ms : n <= m PROVE SaidLast(ts, words, k) = ts[m]
  <2> DEFINE c == CHOOSE x \in ms : \A n \in ms : n <= x
  <2>1. c \in ms /\ \A n \in ms : n <= c
    BY <1>3
  <2> HIDE DEF c
  <2>2. c = m
    BY <1>2, <1>3, <2>1
  <2> QED BY <1>1, <1>3, <2>2 DEF c
<1>4. ASSUME ms # {} PROVE \E m \in ms : \A n \in ms : n <= m
  BY <1>2, <1>4, Greatest
<1> QED BY <1>1, <1>3, <1>4 DEF ms

(* Two files of which the same is in force, and said at the same places.   *)
LEMMA SameSaid ==
  ASSUME NEW ts \in Seq(Tokens), NEW us \in Seq(Tokens), NEW words, NEW k \in Nat, NEW l \in Nat,
         Said(us, words, l) = Said(ts, words, k), \A m \in Said(ts, words, k) : us[m] = ts[m]
  PROVE  SaidLast(us, words, l) = SaidLast(ts, words, k)
<1>1. CASE Said(ts, words, k) = {}
  BY <1>1, LastSaid
<1>2. CASE Said(ts, words, k) # {}
  <2>1. PICK m \in Said(ts, words, k) : \A n \in Said(ts, words, k) : n <= m
    BY <1>2, LastSaid
  <2>2. SaidLast(ts, words, k) = ts[m] /\ SaidLast(us, words, l) = us[m]
    BY <2>1, LastSaid
  <2> QED BY <2>1, <2>2
<1> QED BY <1>1, <1>2

(* What one token more changes in what was said last: its own word counts, *)
(* any other leaves all in force, but for the one that ends a group: what  *)
(* then is in force is what was where the group began.                     *)
LEMMA SaidAppend ==
  ASSUME NEW ts \in Seq(Tokens), NEW t \in Tokens, NEW words \in SUBSET (Tokens \ {"open", "close"})
  PROVE  /\ \A k \in 1..(Len(ts) + 1) : SaidLast(Append(ts, t), words, k) = SaidLast(ts, words, k)
         /\ t \in words => SaidLast(Append(ts, t), words, Len(ts) + 2) = t
         /\ t \notin words /\ (t # "close" \/ Depth(ts)[Len(ts)] = 0) =>
              SaidLast(Append(ts, t), words, Len(ts) + 2) = SaidLast(ts, words, Len(ts) + 1)
         /\ t = "close" =>
              \A o \in 1..Len(ts) :
                /\ ts[o] = "open" /\ Depth(ts)[o] = Depth(ts)[Len(ts)]
                /\ \A k \in o..Len(ts) : Depth(ts)[k] >= Depth(ts)[o]
                => SaidLast(Append(ts, t), words, Len(ts) + 2) = SaidLast(ts, words, o)
<1> DEFINE us == Append(ts, t)
           N == Len(ts)
           d == Depth(ts)
           e == Depth(us)
<1>1. /\ us \in Seq(Tokens) /\ Len(us) = N + 1 /\ N \in Nat
      /\ us[N + 1] = t /\ \A k \in 1..N : us[k] = ts[k]
  BY AppendProperties
<1>2. /\ \A k \in 0..N : e[k] = d[k] /\ d[k] \in Nat
      /\ e[N + 1] = Deeper(d[N], t) /\ e[N + 1] \in Nat
      /\ \A k \in 1..N : d[k] = Deeper(d[k - 1], ts[k])
  <2>1. d \in [0..N -> Nat] /\ \A k \in 1..N : d[k] = Deeper(d[k - 1], ts[k])
    BY DepthIs
  <2>2. \A k \in 0..N : e[k] = d[k]
    BY DepthAppend
  <2>3. e[N + 1] = Deeper(d[N], t)
    BY DepthAppend
  <2>4. d[N] \in Nat
    BY <1>1, <2>1
  <2>5. \A m \in Nat : Deeper(m, t) \in Nat
    BY DEF Deeper
  <2>6. \A k \in 0..N : d[k] \in Nat
    BY <2>1
  <2> HIDE DEF d, e
  <2> QED BY <2>1, <2>2, <2>3, <2>4, <2>5, <2>6
<1>3. /\ \A m, k \in Nat : InForce(ts, m, k) <=> m < k /\ \A j \in m..(k - 1) : d[j] >= d[m]
      /\ \A m, k \in Nat : InForce(us, m, k) <=> m < k /\ \A j \in m..(k - 1) : e[j] >= e[m]
  BY DEF InForce
<1> HIDE DEF us, d, e
<1>4. ASSUME NEW k \in 1..(N + 1) PROVE SaidLast(us, words, k) = SaidLast(ts, words, k)
  <2>1. \A m \in 1..(k - 1) : /\ m \in 1..N /\ us[m] = ts[m]
                              /\ InForce(us, m, k) <=> InForce(ts, m, k)
    <3> TAKE m \in 1..(k - 1)
    <3>1. m \in 1..N /\ m \in 0..N /\ \A j \in m..(k - 1) : j \in 0..N
      BY <1>1
    <3>2. \A j \in m..(k - 1) : e[j] = d[j] /\ e[m] = d[m]
      BY <1>2, <3>1
    <3> QED BY <1>1, <1>3, <3>1, <3>2
  <2>2. Said(us, words, k) = Said(ts, words, k) /\ \A m \in Said(ts, words, k) : us[m] = ts[m]
    BY <2>1 DEF Said
  <2> QED BY <1>1, <2>2, SameSaid
<1>5. ASSUME t \in words PROVE SaidLast(us, words, N + 2) = t
  <2>1. N + 1 \in Said(us, words, N + 2)
    <3>1. InForce(us, N + 1, N + 2)
      <4>1. \A j \in (N + 1)..((N + 2) - 1) : j = N + 1
        BY <1>1
      <4> QED BY <1>1, <1>2, <1>3, <4>1
    <3> QED BY <1>1, <1>5, <3>1 DEF Said
  <2>2. \A m \in Said(us, words, N + 2) : m <= N + 1
    BY <1>1 DEF Said
  <2> QED BY <1>1, <2>1, <2>2, LastSaid
<1>6. ASSUME t \notin words, t # "close" \/ d[N] = 0
      PROVE  SaidLast(us, words, N + 2) = SaidLast(ts, words, N + 1)
  <2>1. e[N + 1] >= d[N]
    BY <1>1, <1>2, <1>6 DEF Deeper
  <2>2. ASSUME NEW m \in 1..N PROVE InForce(us, m, N + 2) <=> InForce(ts, m, N + 1)
    <3>1. InForce(ts, m, N + 1) <=> \A j \in m..N : d[j] >= d[m]
      BY <1>1, <1>3
    <3>2. InForce(us, m, N + 2) <=> \A j \in m..(N + 1) : e[j] >= e[m]
      BY <1>1, <1>3
    <3>3. \A j \in m..N : e[j] = d[j] /\ d[j] \in Nat /\ j \in m..(N + 1)
      BY <1>1, <1>2
    <3>4. e[m] = d[m] /\ d[m] \in Nat /\ N \in m..N
      BY <1>1, <1>2
    <3>5. \A j \in m..(N + 1) : j \in m..N \/ j = N + 1
      BY <1>1
    <3> QED BY <1>1, <1>2, <2>1, <3>1, <3>2, <3>3, <3>4, <3>5
  <2>3. /\ Said(us, words, N + 2) = Said(ts, words, N + 1)
        /\ \A m \in Said(ts, words, N + 1) : us[m] = ts[m]
    <3>1. \A m \in 1..((N + 2) - 1) : m \in 1..N \/ m = N + 1
      BY <1>1
    <3>2. \A m \in 1..N : m \in 1..((N + 2) - 1) /\ m \in 1..((N + 1) - 1)
      BY <1>1
    <3>3. \A m \in 1..((N + 1) - 1) : m \in 1..N
      BY <1>1
    <3> QED BY <1>1, <1>6, <2>2, <3>1, <3>2, <3>3 DEF Said
  <2> QED BY <1>1, <2>3, SameSaid
<1>7. ASSUME t = "close", NEW o \in 1..N, ts[o] = "open", d[o] = d[N], \A k \in o..N : d[k] >= d[o]
      PROVE  SaidLast(us, words, N + 2) = SaidLast(ts, words, o)
  <2>1. d[o] = d[o - 1] + 1 /\ d[o - 1] \in Nat /\ e[N + 1] = d[o - 1]
    <3>1. o - 1 \in 0..N /\ d[o] = Deeper(d[o - 1], "open")
      BY <1>1, <1>2, <1>7
    <3>2. d[o - 1] \in Nat
      BY <1>2, <3>1
    <3> QED BY <1>2, <1>7, <3>1, <3>2 DEF Deeper
  <2>2. ASSUME NEW m \in 1..N, ts[m] \in words
        PROVE  InForce(us, m, N + 2) <=> (m \in 1..(o - 1) /\ InForce(ts, m, o))
    <3>1. m # o
      BY <1>7, <2>2
    <3>2. InForce(ts, m, o) <=> (m < o /\ \A j \in m..(o - 1) : d[j] >= d[m])
      BY <1>1, <1>3
    <3>3. InForce(us, m, N + 2) <=> \A j \in m..(N + 1) : e[j] >= e[m]
      BY <1>1, <1>3
    <3>4. /\ \A j \in m..N : e[j] = d[j] /\ d[j] \in Nat /\ j \in m..(N + 1)
          /\ e[m] = d[m] /\ d[m] \in Nat
      BY <1>1, <1>2
    <3>5. CASE m > o
      <4>1. d[m] >= d[o] /\ e[N + 1] < e[m] /\ N + 1 \in m..(N + 1)
        <5>1. m \in o..N
          BY <1>1, <3>5
        <5>2. d[m] >= d[o] /\ o \in 0..N
          BY <1>7, <5>1
        <5> QED BY <1>1, <1>2, <2>1, <3>4, <5>2
      <4>2. ~(e[N + 1] >= e[m])
        BY <1>2, <3>4, <4>1
      <4>3. ~(m \in 1..(o - 1))
        BY <3>5
      <4> QED BY <3>3, <4>1, <4>2, <4>3
    <3>6. CASE m < o
      <4>1. m \in 1..(o - 1) /\ o - 1 \in m..(o - 1) /\ o - 1 \in m..N
        BY <1>1, <3>6
      <4>2. ASSUME \A j \in m..(o - 1) : d[j] >= d[m] PROVE \A j \in m..(N + 1) : e[j] >= e[m]
        <5>1. d[o - 1] >= d[m]
          BY <4>1, <4>2
        <5> TAKE j \in m..(N + 1)
        <5>2. CASE j \in m..(o - 1)
          BY <1>1, <3>4, <4>2, <5>2
        <5>3. CASE j \in o..N
          <6>1. j \in m..N /\ d[j] >= d[o]
            BY <1>1, <1>7, <3>6, <5>3
          <6> QED BY <2>1, <3>4, <5>1, <6>1
        <5>4. CASE j = N + 1
          BY <2>1, <3>4, <5>1, <5>4
        <5> QED BY <1>1, <5>2, <5>3, <5>4
      <4>3. ASSUME \A j \in m..(N + 1) : e[j] >= e[m] PROVE \A j \in m..(o - 1) : d[j] >= d[m]
        <5> TAKE j \in m..(o - 1)
        <5>1. j \in m..N
          BY <1>1
        <5> QED BY <3>4, <4>3, <5>1
      <4> QED BY <3>2, <3>3, <3>6, <4>1, <4>2, <4>3
    <3> QED BY <3>1, <3>5, <3>6
  <2>3. /\ Said(us, words, N + 2) = Said(ts, words, o)
        /\ \A m \in Said(ts, words, o) : us[m] = ts[m]
    <3>1. \A m \in 1..((N + 2) - 1) : m \in 1..N \/ m = N + 1
      BY <1>1
    <3>2. \A m \in 1..N : m \in 1..((N + 2) - 1)
      BY <1>1
    <3>3. \A m \in 1..(o - 1) : m \in 1..N
      BY <1>1
    <3>4. us[N + 1] \notin words
      BY <1>1, <1>7
    <3> QED BY <1>1, <2>2, <3>1, <3>2, <3>3, <3>4 DEF Said
  <2> QED BY <1>1, <2>3, SameSaid
<1> QED BY <1>4, <1>5, <1>6, <1>7 DEF us, d, e

(* What an open group restores: what was said where it began.              *)
GroupAt(ts, k) == [hidden |-> HiddenAt(ts, k), skip |-> SkipAt(ts, k), paired |-> PairedAt(ts, k)]

LEMMA GroupAppend ==
  ASSUME NEW ts \in Seq(Tokens), NEW t \in Tokens
  PROVE  /\ \A k \in 1..(Len(ts) + 1) : GroupAt(Append(ts, t), k) = GroupAt(ts, k)
         /\ t \in Tokens \ {"close", "dest", "pairs", "uc0", "uc2"} =>
              GroupAt(Append(ts, t), Len(ts) + 2) = GroupAt(ts, Len(ts) + 1)
         /\ t = "dest" => GroupAt(Append(ts, t), Len(ts) + 2) =
              [hidden |-> TRUE, skip |-> SkipAt(ts, Len(ts) + 1), paired |-> PairedAt(ts, Len(ts) + 1)]
         /\ t = "pairs" => GroupAt(Append(ts, t), Len(ts) + 2) =
              [hidden |-> HiddenAt(ts, Len(ts) + 1), skip |-> SkipAt(ts, Len(ts) + 1), paired |-> TRUE]
         /\ t = "uc0" => GroupAt(Append(ts, t), Len(ts) + 2) =
              [hidden |-> HiddenAt(ts, Len(ts) + 1), skip |-> 0, paired |-> PairedAt(ts, Len(ts) + 1)]
         /\ t = "uc2" => GroupAt(Append(ts, t), Len(ts) + 2) =
              [hidden |-> HiddenAt(ts, Len(ts) + 1), skip |-> 2, paired |-> PairedAt(ts, Len(ts) + 1)]
         /\ t = "close" /\ Depth(ts)[Len(ts)] = 0 =>
              GroupAt(Append(ts, t), Len(ts) + 2) = GroupAt(ts, Len(ts) + 1)
         /\ t = "close" =>
              \A o \in 1..Len(ts) :
                /\ ts[o] = "open" /\ Depth(ts)[o] = Depth(ts)[Len(ts)]
                /\ \A k \in o..Len(ts) : Depth(ts)[k] >= Depth(ts)[o]
                => GroupAt(Append(ts, t), Len(ts) + 2) = GroupAt(ts, o)
<1> DEFINE us == Append(ts, t)
           N == Len(ts)
           d == Depth(ts)
           Began(o) == ts[o] = "open" /\ d[o] = d[N] /\ \A k \in o..N : d[k] >= d[o]
<1>1. /\ {"dest"} \in SUBSET (Tokens \ {"open", "close"}) /\ {"pairs"} \in SUBSET (Tokens \ {"open", "close"})
      /\ {"uc0", "uc2"} \in SUBSET (Tokens \ {"open", "close"})
  BY DEF Tokens
<1>2. ASSUME NEW words \in {{"dest"}, {"pairs"}, {"uc0", "uc2"}}
      PROVE  /\ \A k \in 1..(N + 1) : SaidLast(us, words, k) = SaidLast(ts, words, k)
             /\ t \in words => SaidLast(us, words, N + 2) = t
             /\ t \notin words /\ (t # "close" \/ d[N] = 0) =>
                  SaidLast(us, words, N + 2) = SaidLast(ts, words, N + 1)
             /\ t = "close" => \A o \in 1..N : Began(o) => SaidLast(us, words, N + 2) = SaidLast(ts, words, o)
  <2>1. words \in SUBSET (Tokens \ {"open", "close"})
    BY <1>1
  <2> QED BY <2>1, SaidAppend
<1> HIDE DEF us, N, d, Began
<1>3. ASSUME NEW k, NEW l, NEW xs, NEW ys,
             \A words \in {{"dest"}, {"pairs"}, {"uc0", "uc2"}} : SaidLast(xs, words, k) = SaidLast(ys, words, l)
      PROVE  GroupAt(xs, k) = GroupAt(ys, l)
  BY <1>3 DEF GroupAt, HiddenAt, SkipAt, PairedAt
<1>4. \A k \in 1..(N + 1) : GroupAt(us, k) = GroupAt(ts, k)
  BY <1>2, <1>3
<1>5. t \in Tokens \ {"close", "dest", "pairs", "uc0", "uc2"} => GroupAt(us, N + 2) = GroupAt(ts, N + 1)
  BY <1>2, <1>3
<1>6. t = "close" /\ d[N] = 0 => GroupAt(us, N + 2) = GroupAt(ts, N + 1)
  BY <1>2, <1>3
<1>7. t = "close" => \A o \in 1..N : Began(o) => GroupAt(us, N + 2) = GroupAt(ts, o)
  BY <1>2, <1>3
<1>8. /\ t = "dest" => HiddenAt(us, N + 2)
      /\ t # "dest" /\ t # "close" => HiddenAt(us, N + 2) = HiddenAt(ts, N + 1)
  BY <1>2 DEF HiddenAt
<1>9. /\ t = "pairs" => PairedAt(us, N + 2)
      /\ t # "pairs" /\ t # "close" => PairedAt(us, N + 2) = PairedAt(ts, N + 1)
  BY <1>2 DEF PairedAt
<1>10. /\ t = "uc0" => SkipAt(us, N + 2) = 0
       /\ t = "uc2" => SkipAt(us, N + 2) = 2
       /\ t \notin {"uc0", "uc2"} /\ t # "close" => SkipAt(us, N + 2) = SkipAt(ts, N + 1)
  BY <1>2 DEF SkipAt
<1>11. /\ HiddenAt(us, N + 2) \in BOOLEAN /\ PairedAt(us, N + 2) \in BOOLEAN
  BY DEF HiddenAt, PairedAt
<1>12. t = "dest" => GroupAt(us, N + 2) = [hidden |-> TRUE, skip |-> SkipAt(ts, N + 1), paired |-> PairedAt(ts, N + 1)]
  BY <1>8, <1>9, <1>10, <1>11 DEF GroupAt
<1>13. t = "pairs" => GroupAt(us, N + 2) = [hidden |-> HiddenAt(ts, N + 1), skip |-> SkipAt(ts, N + 1), paired |-> TRUE]
  BY <1>8, <1>9, <1>10, <1>11 DEF GroupAt
<1>14. t = "uc0" => GroupAt(us, N + 2) = [hidden |-> HiddenAt(ts, N + 1), skip |-> 0, paired |-> PairedAt(ts, N + 1)]
  BY <1>8, <1>9, <1>10 DEF GroupAt
<1>15. t = "uc2" => GroupAt(us, N + 2) = [hidden |-> HiddenAt(ts, N + 1), skip |-> 2, paired |-> PairedAt(ts, N + 1)]
  BY <1>8, <1>9, <1>10 DEF GroupAt
<1> QED BY <1>4, <1>5, <1>6, <1>7, <1>12, <1>13, <1>14, <1>15 DEF us, N, d, Began

(* j is a \u character, and nothing has come since but what may stand for  *)
(* it.                                                                     *)
Reaches(ts, j) == ts[j] = "u" /\ \A i \in (j + 1)..Len(ts) : ts[i] \in Fallback

LEMMA FallbackAppend ==
  ASSUME NEW ts \in Seq(Tokens), NEW t \in Tokens
  PROVE  /\ \A k \in 1..Len(ts) : IsFallback(Append(ts, t), k) = IsFallback(ts, k)
         /\ IsFallback(Append(ts, t), Len(ts) + 1) <=>
              t \in Fallback /\ \E j \in 1..Len(ts) : Reaches(ts, j) /\ Len(ts) + 1 - j <= SkipAt(ts, j)
         /\ \A j \in 1..Len(ts) : Reaches(Append(ts, t), j) <=> Reaches(ts, j) /\ t \in Fallback
         /\ Reaches(Append(ts, t), Len(ts) + 1) <=> t = "u"
         /\ \A k \in 1..(Len(ts) + 1) : SkipAt(Append(ts, t), k) = SkipAt(ts, k)
<1> DEFINE us == Append(ts, t)
           N == Len(ts)
<1>1. /\ us \in Seq(Tokens) /\ Len(us) = N + 1 /\ N \in Nat
      /\ us[N + 1] = t /\ \A k \in 1..N : us[k] = ts[k]
  BY AppendProperties
<1>2. \A k \in 1..(N + 1) : SkipAt(us, k) = SkipAt(ts, k)
  <2> TAKE k \in 1..(N + 1)
  <2>1. GroupAt(us, k) = GroupAt(ts, k)
    BY GroupAppend
  <2> QED BY <2>1 DEF GroupAt
<1> HIDE DEF us
<1>3. ASSUME NEW k \in 1..N PROVE IsFallback(us, k) = IsFallback(ts, k)
  <2>1. \A j \in 1..(k - 1) : /\ us[j] = ts[j] /\ SkipAt(us, j) = SkipAt(ts, j)
                              /\ \A i \in (j + 1)..k : us[i] = ts[i]
    BY <1>1, <1>2
  <2>2. (IsFallback(us, k) \in BOOLEAN) /\ (IsFallback(ts, k) \in BOOLEAN)
    BY DEF IsFallback
  <2>3. IsFallback(us, k) <=> IsFallback(ts, k)
    BY <2>1 DEF IsFallback
  <2> QED BY <2>2, <2>3
<1>4. ASSUME NEW j \in 1..N
      PROVE  (us[j] = "u" /\ \A i \in (j + 1)..(N + 1) : us[i] \in Fallback) <=> (Reaches(ts, j) /\ t \in Fallback)
  <2>1. /\ us[j] = ts[j] /\ N + 1 \in (j + 1)..(N + 1)
        /\ \A i \in (j + 1)..N : us[i] = ts[i] /\ i \in (j + 1)..(N + 1)
        /\ \A i \in (j + 1)..(N + 1) : i \in (j + 1)..N \/ i = N + 1
    BY <1>1
  <2> QED BY <1>1, <2>1 DEF Reaches
<1>5. IsFallback(us, N + 1) <=> t \in Fallback /\ \E j \in 1..N : Reaches(ts, j) /\ N + 1 - j <= SkipAt(ts, j)
  <2>1. (N + 1) - 1 = N /\ \A j \in 1..N : SkipAt(us, j) = SkipAt(ts, j)
    BY <1>1, <1>2
  <2> QED BY <1>4, <2>1 DEF IsFallback
<1>6. \A j \in 1..N : Reaches(us, j) <=> Reaches(ts, j) /\ t \in Fallback
  BY <1>1, <1>4 DEF Reaches
<1>7. Reaches(us, N + 1) <=> t = "u"
  <2>1. ((N + 1) + 1)..(N + 1) = {}
    BY <1>1
  <2> QED BY <1>1, <2>1 DEF Reaches
<1> QED BY <1>2, <1>3, <1>5, <1>6, <1>7 DEF us

(* The bytes at the end of a file: one more byte is read with them, a word *)
(* changes nothing, anything else ends the run.                            *)
LEMMA RunAppend ==
  ASSUME NEW ts \in Seq(Tokens), NEW t \in Tokens
  PROVE  /\ \A k \in 1..Len(ts) : Run(Append(ts, t), k) = Run(ts, k)
         /\ t \notin {"byte", "word"} => Run(Append(ts, t), Len(ts) + 1) = {}
         /\ t = "word" => Run(Append(ts, t), Len(ts) + 1) = Run(ts, Len(ts))
         /\ t = "byte" => Run(Append(ts, t), Len(ts) + 1) =
              IF IsFallback(Append(ts, t), Len(ts) + 1) THEN Run(ts, Len(ts))
              ELSE Run(ts, Len(ts)) \cup {Len(ts) + 1}
<1> DEFINE us == Append(ts, t)
           N == Len(ts)
<1>1. /\ us \in Seq(Tokens) /\ Len(us) = N + 1 /\ N \in Nat
      /\ us[N + 1] = t /\ \A k \in 1..N : us[k] = ts[k]
  BY AppendProperties
<1>2. \A k \in 1..N : IsFallback(us, k) = IsFallback(ts, k)
  BY FallbackAppend
<1> HIDE DEF us
<1>3. ASSUME NEW k \in 1..N PROVE Run(us, k) = Run(ts, k)
  <2>1. \A j \in 1..k : us[j] = ts[j] /\ IsFallback(us, j) = IsFallback(ts, j) /\ \A i \in j..k : us[i] = ts[i]
    BY <1>1, <1>2
  <2> QED BY <2>1 DEF Run
<1>4. ASSUME NEW j \in 1..N
      PROVE  (\A i \in j..(N + 1) : us[i] \in {"byte", "word"}) <=>
               (t \in {"byte", "word"} /\ \A i \in j..N : ts[i] \in {"byte", "word"})
  <2>1. /\ N + 1 \in j..(N + 1)
        /\ \A i \in j..N : us[i] = ts[i] /\ i \in j..(N + 1)
        /\ \A i \in j..(N + 1) : i \in j..N \/ i = N + 1
    BY <1>1
  <2> QED BY <1>1, <2>1
<1>5. \A j \in 1..N : j \in Run(us, N + 1) <=> (t \in {"byte", "word"} /\ j \in Run(ts, N))
  <2> TAKE j \in 1..N
  <2>1. j \in 1..(N + 1) /\ us[j] = ts[j] /\ IsFallback(us, j) = IsFallback(ts, j)
    BY <1>1, <1>2
  <2> QED BY <1>4, <2>1 DEF Run
<1>6. N + 1 \in Run(us, N + 1) <=> t = "byte" /\ ~IsFallback(us, N + 1)
  <2>1. N + 1 \in 1..(N + 1) /\ \A i \in (N + 1)..(N + 1) : i = N + 1
    BY <1>1
  <2> QED BY <1>1, <2>1 DEF Run
<1>7. Run(us, N + 1) \subseteq (1..N) \cup {N + 1} /\ Run(ts, N) \subseteq 1..N
  BY <1>1 DEF Run
<1>8. t \notin {"byte", "word"} => Run(us, N + 1) = {}
  BY <1>5, <1>6, <1>7
<1>9. t = "word" => Run(us, N + 1) = Run(ts, N)
  <2>1. t = "word" => ~(N + 1 \in Run(us, N + 1)) /\ \A j \in 1..N : j \in Run(us, N + 1) <=> j \in Run(ts, N)
    BY <1>5, <1>6
  <2> QED BY <1>7, <2>1
<1>10. t = "byte" => Run(us, N + 1) = IF IsFallback(us, N + 1) THEN Run(ts, N) ELSE Run(ts, N) \cup {N + 1}
  <2>1. t = "byte" => \A j \in 1..N : j \in Run(us, N + 1) <=> j \in Run(ts, N)
    BY <1>5
  <2>2. t = "byte" => (N + 1 \in Run(us, N + 1) <=> ~IsFallback(us, N + 1))
    BY <1>6
  <2>3. N + 1 \notin Run(ts, N)
    BY <1>1, <1>7
  <2>4. t = "byte" /\ IsFallback(us, N + 1) => Run(us, N + 1) = Run(ts, N)
    BY <1>7, <2>1, <2>2
  <2>5. t = "byte" /\ ~IsFallback(us, N + 1) => Run(us, N + 1) = Run(ts, N) \cup {N + 1}
    BY <1>7, <2>1, <2>2
  <2> QED BY <2>4, <2>5
<1> QED BY <1>3, <1>8, <1>9, <1>10 DEF us

(* The tokens that stand for a \u character are not read with the bytes    *)
(* before it.                                                              *)
LEMMA FallbackRun ==
  ASSUME NEW ts \in Seq(Tokens), NEW t \in Tokens, IsFallback(Append(ts, t), Len(ts) + 1)
  PROVE  Run(ts, Len(ts)) = {}
<1> DEFINE N == Len(ts)
<1>1. PICK j \in 1..N : Reaches(ts, j) /\ N + 1 - j <= SkipAt(ts, j)
  BY FallbackAppend
<1>2. SUFFICES ASSUME NEW k \in Run(ts, N) PROVE FALSE
  OBVIOUS
<1>3. k \in 1..N /\ ~IsFallback(ts, k) /\ \A i \in k..N : ts[i] \in {"byte", "word"}
  BY <1>2 DEF Run
<1>4. N \in Nat
  OBVIOUS
<1> HIDE DEF N
<1>5. ~(k <= j)
  <2>1. k <= j => j \in k..N
    BY <1>3, <1>4
  <2> QED BY <1>1, <1>3, <2>1 DEF Reaches
<1>6. j \in 1..(k - 1) /\ ts[j] = "u" /\ \A i \in (j + 1)..k : ts[i] \in Fallback
  <2>1. j \in 1..(k - 1) /\ \A i \in (j + 1)..k : i \in (j + 1)..N
    BY <1>3, <1>4, <1>5
  <2> QED BY <1>1, <2>1 DEF Reaches, N
<1>7. k - j <= SkipAt(ts, j)
  <2>1. SkipAt(ts, j) \in Nat
    BY DEF SkipAt
  <2> QED BY <1>1, <1>3, <1>4, <2>1
<1> QED BY <1>3, <1>6, <1>7 DEF IsFallback

(* What a token by itself puts where it is seen.                           *)
Mark(t) ==
  CASE t = "char" -> <<"a">>
    [] t = "u" -> <<"b">>
    [] t = "raw" -> <<"nl">>
    [] t = "par" -> <<"par">>
    [] t = "cell" -> <<"cell">>
    [] t = "row" -> <<"row">>
    [] OTHER -> <<>>

(* The pieces of a file, and those that nothing that still comes changes:  *)
(* one more byte takes the bytes it is read with along.                    *)
Pieces(ts) == [k \in 1..Len(ts) |-> Piece(ts, k)]
Fixed(ts) == [k \in 1..Len(ts) |-> IF k \in Run(ts, Len(ts)) THEN <<>> ELSE Piece(ts, k)]

LEMMA PiecesType ==
  ASSUME NEW ts \in Seq(Tokens)
  PROVE  /\ Pieces(ts) \in Seq(AnyPiece) /\ Fixed(ts) \in Seq(AnyPiece)
         /\ Len(Pieces(ts)) = Len(ts) /\ Len(Fixed(ts)) = Len(ts)
         /\ Visible(ts) = Together(Pieces(ts))
<1>1. <<>> \in AnyPiece /\ \A t : Mark(t) \in AnyPiece
  <2>1. \A x \in Symbols : <<x>> \in Seq(Symbols)
    OBVIOUS
  <2>2. <<>> \in Seq(Symbols)
    BY EmptySeq
  <2> QED BY <2>1, <2>2, SymbolsAre DEF AnyPiece, Mark
<1>2. ASSUME NEW k \in 1..Len(ts) PROVE Piece(ts, k) \in AnyPiece
  <2>1. Cardinality(Run(ts, k)) \in Nat
    <3>1. Run(ts, k) \in SUBSET (1..k) /\ k \in Nat
      BY DEF Run
    <3>2. IsFiniteSet(1..k)
      BY <3>1, FS_Interval
    <3> QED BY <3>1, <3>2, FS_Subset, FS_CardinalityType
  <2>2. Decoded(Cardinality(Run(ts, k)), PairedAt(ts, k)) \in AnyPiece
    BY <2>1, DecodedType DEF PairedAt, AnyPiece
  <2>3. \A t : Mark(t) \in AnyPiece
    BY <1>1
  <2>4. \/ Piece(ts, k) = <<>> \/ Piece(ts, k) = Mark(ts[k])
        \/ Piece(ts, k) = Decoded(Cardinality(Run(ts, k)), PairedAt(ts, k))
    BY DEF Piece, Mark
  <2> QED BY <1>1, <2>2, <2>3, <2>4
<1>3. Len(ts) \in Nat
  OBVIOUS
<1>4. Pieces(ts) \in [1..Len(ts) -> AnyPiece] /\ Fixed(ts) \in [1..Len(ts) -> AnyPiece]
  BY <1>1, <1>2 DEF Pieces, Fixed
<1>5. \A n \in Nat : \A f \in [1..n -> AnyPiece] : f \in Seq(AnyPiece) /\ Len(f) = n
  BY FunctionIsSeq
<1> QED BY <1>3, <1>4, <1>5 DEF Visible, Pieces

LEMMA AppendIs ==
  ASSUME NEW ps \in Seq(AnyPiece), NEW qs \in Seq(AnyPiece), Len(qs) = Len(ps) + 1,
         \A k \in 1..Len(ps) : qs[k] = ps[k]
  PROVE  qs = Append(ps, qs[Len(ps) + 1])
<1>1. Len(ps) \in Nat /\ qs[Len(ps) + 1] \in AnyPiece
  OBVIOUS
<1>2. Append(ps, qs[Len(ps) + 1]) \in Seq(AnyPiece)
  BY <1>1, AppendProperties
<1> QED BY <1>1, <1>2, SeqEqual

(* What one token more changes in the pieces of a file: a byte takes those *)
(* it is read with along.                                                  *)
LEMMA PieceAppend ==
  ASSUME NEW ts \in Seq(Tokens), NEW t \in Tokens
  PROVE  /\ \A k \in 1..Len(ts) : Piece(Append(ts, t), k) =
              IF t = "byte" /\ k \in Run(Append(ts, t), Len(ts) + 1) THEN <<>> ELSE Piece(ts, k)
         /\ Piece(Append(ts, t), Len(ts) + 1) =
              IF HiddenAt(ts, Len(ts) + 1) \/ IsFallback(Append(ts, t), Len(ts) + 1) THEN <<>>
              ELSE IF t = "byte"
                   THEN Decoded(Cardinality(Run(Append(ts, t), Len(ts) + 1)), PairedAt(ts, Len(ts) + 1))
                   ELSE Mark(t)
<1> DEFINE us == Append(ts, t)
           N == Len(ts)
<1>1. /\ us \in Seq(Tokens) /\ Len(us) = N + 1 /\ N \in Nat
      /\ us[N + 1] = t /\ \A k \in 1..N : us[k] = ts[k]
  BY AppendProperties
<1>2. \A k \in 1..(N + 1) : HiddenAt(us, k) = HiddenAt(ts, k) /\ PairedAt(us, k) = PairedAt(ts, k)
  <2> TAKE k \in 1..(N + 1)
  <2>1. GroupAt(us, k) = GroupAt(ts, k)
    BY GroupAppend
  <2> QED BY <2>1 DEF GroupAt
<1>3. \A k \in 1..N : IsFallback(us, k) = IsFallback(ts, k)
  BY FallbackAppend
<1>4. \A k \in 1..N : Run(us, k) = Run(ts, k)
  BY RunAppend
<1> HIDE DEF us
<1>5. ASSUME NEW k \in 1..N
      PROVE  Piece(us, k) = IF t = "byte" /\ k \in Run(us, N + 1) THEN <<>> ELSE Piece(ts, k)
  <2> DEFINE Later(xs) == \E j \in (k + 1)..Len(xs) : k \in Run(xs, j) /\ xs[j] = "byte"
  <2>1. Later(us) <=> (Later(ts) \/ (t = "byte" /\ k \in Run(us, N + 1)))
    <3>1. /\ \A j \in (k + 1)..N : j \in 1..N /\ j \in (k + 1)..(N + 1)
          /\ \A j \in (k + 1)..(N + 1) : j \in (k + 1)..N \/ j = N + 1
          /\ N + 1 \in (k + 1)..(N + 1)
      BY <1>1
    <3> QED BY <1>1, <1>4, <3>1
  <2>2. us[k] = ts[k] /\ (HiddenAt(us, k) <=> HiddenAt(ts, k)) /\ (IsFallback(us, k) <=> IsFallback(ts, k))
        /\ Decoded(Cardinality(Run(us, k)), PairedAt(us, k)) = Decoded(Cardinality(Run(ts, k)), PairedAt(ts, k))
    <3>1. k \in 1..(N + 1)
      BY <1>1
    <3> QED BY <1>1, <1>2, <1>3, <1>4, <3>1
  <2>3. k \in Run(us, N + 1) => us[k] = "byte"
    BY DEF Run
  <2>4. Piece(us, k) = IF HiddenAt(us, k) \/ IsFallback(us, k) THEN <<>>
                       ELSE IF us[k] = "byte"
                            THEN IF Later(us) THEN <<>> ELSE Decoded(Cardinality(Run(us, k)), PairedAt(us, k))
                            ELSE Mark(us[k])
    BY DEF Piece, Mark
  <2>5. Piece(ts, k) = IF HiddenAt(ts, k) \/ IsFallback(ts, k) THEN <<>>
                       ELSE IF ts[k] = "byte"
                            THEN IF Later(ts) THEN <<>> ELSE Decoded(Cardinality(Run(ts, k)), PairedAt(ts, k))
                            ELSE Mark(ts[k])
    BY DEF Piece, Mark
  <2> HIDE DEF Later
  <2>6. CASE t = "byte" /\ k \in Run(us, N + 1)
    BY <2>1, <2>3, <2>4, <2>6
  <2>7. CASE ~(t = "byte" /\ k \in Run(us, N + 1))
    <3>1. Later(us) <=> Later(ts)
      BY <2>1, <2>7
    <3> QED BY <2>2, <2>4, <2>5, <2>7, <3>1
  <2> QED BY <2>6, <2>7
<1>6. Piece(us, N + 1) = IF HiddenAt(us, N + 1) \/ IsFallback(us, N + 1) THEN <<>>
                         ELSE IF t = "byte"
                              THEN Decoded(Cardinality(Run(us, N + 1)), PairedAt(us, N + 1))
                              ELSE Mark(t)
  <2>1. ((N + 1) + 1)..Len(us) = {}
    BY <1>1
  <2> QED BY <1>1, <2>1 DEF Piece, Mark
<1>7. N + 1 \in 1..(N + 1)
  BY <1>1
<1> QED BY <1>2, <1>5, <1>6, <1>7 DEF us

LEMMA FileAppend ==
  ASSUME NEW ts \in Seq(Tokens), NEW t \in Tokens
  PROVE  /\ IsFallback(Append(ts, t), Len(ts) + 1) =>
              /\ Pieces(Append(ts, t)) = Append(Pieces(ts), <<>>)
              /\ Fixed(Append(ts, t)) = Append(Fixed(ts), <<>>)
              /\ Run(Append(ts, t), Len(ts) + 1) = Run(ts, Len(ts))
         /\ t = "word" =>
              /\ Pieces(Append(ts, t)) = Append(Pieces(ts), <<>>)
              /\ Fixed(Append(ts, t)) = Append(Fixed(ts), <<>>)
              /\ Run(Append(ts, t), Len(ts) + 1) = Run(ts, Len(ts))
         /\ t = "byte" /\ ~IsFallback(Append(ts, t), Len(ts) + 1) =>
              /\ Cardinality(Run(Append(ts, t), Len(ts) + 1)) = Cardinality(Run(ts, Len(ts))) + 1
              /\ Fixed(Append(ts, t)) = Append(Fixed(ts), <<>>)
              /\ Pieces(Append(ts, t)) =
                   Append(Fixed(ts), IF HiddenAt(ts, Len(ts) + 1) THEN <<>>
                                     ELSE Decoded(Cardinality(Run(ts, Len(ts))) + 1, PairedAt(ts, Len(ts) + 1)))
         /\ t \notin {"byte", "word"} /\ ~IsFallback(Append(ts, t), Len(ts) + 1) =>
              /\ Run(Append(ts, t), Len(ts) + 1) = {}
              /\ Fixed(Append(ts, t)) = Pieces(Append(ts, t))
              /\ Pieces(Append(ts, t)) = Append(Pieces(ts), IF HiddenAt(ts, Len(ts) + 1) THEN <<>> ELSE Mark(t))
<1> DEFINE us == Append(ts, t)
           N == Len(ts)
           R == Run(ts, N)
           Q == Run(us, N + 1)
           new == Piece(us, N + 1)
           fell == IsFallback(us, N + 1)
<1>1. us \in Seq(Tokens) /\ Len(us) = N + 1 /\ N \in Nat
  BY AppendProperties
<1>2. \A k \in 1..N : Piece(us, k) = IF t = "byte" /\ k \in Q THEN <<>> ELSE Piece(ts, k)
  BY PieceAppend
<1>3. new = IF HiddenAt(ts, N + 1) \/ fell THEN <<>>
            ELSE IF t = "byte" THEN Decoded(Cardinality(Q), PairedAt(ts, N + 1)) ELSE Mark(t)
  BY PieceAppend
<1>4. R \in SUBSET (1..N) /\ N + 1 \notin R
  BY <1>1 DEF Run
<1>5. /\ t \notin {"byte", "word"} => Q = {}
      /\ t = "word" => Q = R
      /\ t = "byte" => Q = IF fell THEN R ELSE R \cup {N + 1}
  BY RunAppend
<1>6. fell => R = {} /\ t # "word"
  <2>1. fell => t \in Fallback
    BY FallbackAppend
  <2> QED BY <2>1, FallbackRun DEF Fallback
<1>7. /\ Pieces(ts) \in Seq(AnyPiece) /\ Fixed(ts) \in Seq(AnyPiece)
      /\ Len(Pieces(ts)) = N /\ Len(Fixed(ts)) = N
      /\ Pieces(us) \in Seq(AnyPiece) /\ Fixed(us) \in Seq(AnyPiece)
      /\ Len(Pieces(us)) = N + 1 /\ Len(Fixed(us)) = N + 1
  BY <1>1, PiecesType
<1>8. /\ \A k \in 1..N : Pieces(ts)[k] = Piece(ts, k) /\ Fixed(ts)[k] = IF k \in R THEN <<>> ELSE Piece(ts, k)
      /\ \A k \in 1..N : Pieces(us)[k] = Piece(us, k) /\ Fixed(us)[k] = IF k \in Q THEN <<>> ELSE Piece(us, k)
      /\ Pieces(us)[N + 1] = new /\ Fixed(us)[N + 1] = IF N + 1 \in Q THEN <<>> ELSE new
  <2>1. Pieces(us) = [k \in 1..(N + 1) |-> Piece(us, k)]
    BY <1>1 DEF Pieces
  <2>2. Fixed(us) = [k \in 1..(N + 1) |-> IF k \in Q THEN <<>> ELSE Piece(us, k)]
    BY <1>1 DEF Fixed
  <2>3. N + 1 \in 1..(N + 1) /\ \A k \in 1..N : k \in 1..(N + 1)
    BY <1>1
  <2>4. Pieces(ts) = [k \in 1..N |-> Piece(ts, k)] /\ Fixed(ts) = [k \in 1..N |-> IF k \in R THEN <<>> ELSE Piece(ts, k)]
    BY DEF Pieces, Fixed
  <2> HIDE DEF us, R, Q, new
  <2> QED BY <2>1, <2>2, <2>3, <2>4 DEF new
<1> HIDE DEF us, N, R, Q, new, fell
<1>9. ASSUME NEW ps \in Seq(AnyPiece), NEW qs \in Seq(AnyPiece), NEW x, Len(ps) = N, Len(qs) = N + 1,
             \A k \in 1..N : qs[k] = ps[k], qs[N + 1] = x
      PROVE  qs = Append(ps, x)
  BY <1>9, AppendIs
<1>10. CASE fell
  <2>1. Q = R /\ Q = {}
    BY <1>5, <1>6, <1>10
  <2>2. new = <<>>
    BY <1>3, <1>10
  <2>3. /\ \A k \in 1..N : Pieces(us)[k] = Pieces(ts)[k] /\ Fixed(us)[k] = Fixed(ts)[k]
        /\ Pieces(us)[N + 1] = <<>> /\ Fixed(us)[N + 1] = <<>>
    BY <1>2, <1>8, <2>1, <2>2
  <2>4. Pieces(us) = Append(Pieces(ts), <<>>)
    BY <1>7, <1>9, <2>3
  <2>5. Fixed(us) = Append(Fixed(ts), <<>>)
    BY <1>7, <1>9, <2>3
  <2> QED BY <1>6, <1>10, <2>1, <2>4, <2>5 DEF us, N, R, Q, fell
<1>11. CASE t = "word"
  <2>1. Q = R /\ ~fell /\ N + 1 \notin Q
    BY <1>4, <1>5, <1>6, <1>11
  <2>2. new = <<>>
    BY <1>3, <1>11 DEF Mark
  <2>3. /\ \A k \in 1..N : Pieces(us)[k] = Pieces(ts)[k] /\ Fixed(us)[k] = Fixed(ts)[k]
        /\ Pieces(us)[N + 1] = <<>> /\ Fixed(us)[N + 1] = <<>>
    BY <1>2, <1>8, <1>11, <2>1, <2>2
  <2>4. Pieces(us) = Append(Pieces(ts), <<>>)
    BY <1>7, <1>9, <2>3
  <2>5. Fixed(us) = Append(Fixed(ts), <<>>)
    BY <1>7, <1>9, <2>3
  <2> QED BY <1>11, <2>1, <2>4, <2>5 DEF us, N, R, Q, fell
<1>12. CASE t = "byte" /\ ~fell
  <2>1. Q = R \cup {N + 1}
    BY <1>5, <1>12
  <2>2. Cardinality(Q) = Cardinality(R) + 1
    <3>1. IsFiniteSet(1..N)
      BY <1>1, FS_Interval
    <3>2. IsFiniteSet(R)
      BY <1>4, <3>1, FS_Subset
    <3> QED BY <1>4, <2>1, <3>2, FS_AddElement
  <2>3. new = IF HiddenAt(ts, N + 1) THEN <<>> ELSE Decoded(Cardinality(R) + 1, PairedAt(ts, N + 1))
    BY <1>3, <1>12, <2>2
  <2>4. /\ \A k \in 1..N : Pieces(us)[k] = Fixed(ts)[k] /\ Fixed(us)[k] = Fixed(ts)[k]
        /\ Pieces(us)[N + 1] = new /\ Fixed(us)[N + 1] = <<>>
    <3>1. \A k \in 1..N : k \in Q <=> k \in R
      BY <1>1, <2>1
    <3> QED BY <1>2, <1>8, <1>12, <2>1, <3>1
  <2>5. Pieces(us) = Append(Fixed(ts), new)
    BY <1>7, <1>9, <2>4
  <2>6. Fixed(us) = Append(Fixed(ts), <<>>)
    BY <1>7, <1>9, <2>4
  <2> QED BY <1>12, <2>2, <2>3, <2>5, <2>6 DEF us, N, R, Q, fell
<1>13. CASE t \notin {"byte", "word"} /\ ~fell
  <2>1. Q = {}
    BY <1>5, <1>13
  <2>2. new = IF HiddenAt(ts, N + 1) THEN <<>> ELSE Mark(t)
    BY <1>3, <1>13
  <2>3. /\ \A k \in 1..N : Pieces(us)[k] = Pieces(ts)[k] /\ Fixed(us)[k] = Pieces(ts)[k]
        /\ Pieces(us)[N + 1] = new /\ Fixed(us)[N + 1] = new
    BY <1>2, <1>8, <1>13, <2>1
  <2>4. Pieces(us) = Append(Pieces(ts), new)
    BY <1>7, <1>9, <2>3
  <2>5. Fixed(us) = Append(Pieces(ts), new)
    BY <1>7, <1>9, <2>3
  <2> QED BY <1>13, <2>1, <2>2, <2>4, <2>5 DEF us, N, R, Q, fell
<1> QED BY <1>10, <1>11, <1>12, <1>13 DEF fell, us, N

(* What the reader does with a token, field by field.                      *)
Now(r) == [hidden |-> r.hidden, skip |-> r.skip, paired |-> r.paired]

LEMMA NowType ==
  ASSUME NEW r \in Reader
  PROVE  Now(r) \in Group /\ \A x \in Group : x = [hidden |-> x.hidden, skip |-> x.skip, paired |-> x.paired]
BY DEF Now, Reader, Group

LEMMA FlushIs ==
  ASSUME NEW r \in Reader
  PROVE  /\ Flush(r) \in Reader /\ Flush(r).bytes = 0 /\ Flush(r).left = r.left
         /\ Flush(r).stack = r.stack /\ Now(Flush(r)) = Now(r) /\ Flush(r).hidden = r.hidden
         /\ Flush(r).out = IF r.hidden THEN r.out ELSE r.out \o Decoded(r.bytes, r.paired)
         /\ r.bytes = 0 => Flush(r).out = r.out
<1>1. r.bytes = 0 => r.out \o Decoded(r.bytes, r.paired) = r.out
  <2>1. r.out \in Seq(Symbols)
    BY DEF Reader
  <2>2. \A p : Decoded(0, p) = <<>>
    <3>1. [k \in 1..(0 \div 2) |-> "b"] = <<>> /\ [k \in 1..(0 % 2) |-> "?"] = <<>> /\ [k \in 1..0 |-> "a"] = <<>>
      OBVIOUS
    <3>2. <<>> \o <<>> = <<>>
      OBVIOUS
    <3> QED BY <3>1, <3>2 DEF Decoded
  <2>3. r.out \o <<>> = r.out
    BY <2>1, ConcatEmptySeq
  <2> QED BY <2>2, <2>3
<1>2. Flush(r) \in Reader
  BY FlushType
<1>3. /\ Flush(r).bytes = 0 /\ Flush(r).left = r.left /\ Flush(r).stack = r.stack
      /\ Flush(r).hidden = r.hidden /\ Flush(r).skip = r.skip /\ Flush(r).paired = r.paired
      /\ Flush(r).out = IF r.hidden THEN r.out ELSE r.out \o Decoded(r.bytes, r.paired)
  BY DEF Flush, Reader
<1> QED BY <1>1, <1>2, <1>3 DEF Now

LEMMA PutIs ==
  ASSUME NEW r \in Reader, NEW x \in Symbols
  PROVE  /\ Put(r, x).bytes = 0 /\ Put(r, x).left = r.left /\ Put(r, x).stack = r.stack
         /\ Now(Put(r, x)) = Now(r)
         /\ Put(r, x).out = IF r.hidden THEN Flush(r).out ELSE Append(Flush(r).out, x)
         /\ PutOnce(r, x).bytes = 0 /\ PutOnce(r, x).left = r.left /\ PutOnce(r, x).stack = r.stack
         /\ Now(PutOnce(r, x)) = Now(r)
         /\ PutOnce(r, x).out =
              IF r.hidden \/ (Flush(r).out # <<>> /\ Last(Flush(r).out) = x) THEN Flush(r).out
              ELSE Append(Flush(r).out, x)
<1> DEFINE f == Flush(r)
<1>1. f \in Reader /\ f.bytes = 0 /\ f.left = r.left /\ f.stack = r.stack /\ Now(f) = Now(r)
  BY FlushIs
<1> HIDE DEF f
<1>2. /\ Put(r, x).bytes = 0 /\ Put(r, x).left = r.left /\ Put(r, x).stack = r.stack
      /\ Put(r, x).hidden = f.hidden /\ Put(r, x).skip = f.skip /\ Put(r, x).paired = f.paired
      /\ Put(r, x).out = IF r.hidden THEN f.out ELSE Append(f.out, x)
  BY <1>1 DEF Put, f, Reader
<1>3. Now(Put(r, x)) = Now(r)
  BY <1>1, <1>2 DEF Now
<1>4. PutOnce(r, x) = IF f.out # <<>> /\ Last(f.out) = x THEN f ELSE Put(r, x)
  BY DEF PutOnce, f
<1> QED BY <1>1, <1>2, <1>3, <1>4 DEF f

(* Text and bytes.                                                         *)
LEMMA ActOut ==
  ASSUME NEW r \in Reader, NEW t \in Tokens
  PROVE  /\ t \notin {"byte", "word"} =>
              /\ Act(r, t).bytes = 0
              /\ Act(r, t).out = IF r.hidden THEN Flush(r).out ELSE Joined(Flush(r).out, Mark(t))
         /\ t = "byte" => /\ Act(r, t).bytes = IF r.hidden THEN r.bytes ELSE r.bytes + 1
                          /\ Act(r, t).out = r.out
         /\ t = "word" => Act(r, t).bytes = r.bytes /\ Act(r, t).out = r.out
<1> DEFINE f == Flush(r)
<1>1. f \in Reader /\ f.bytes = 0 /\ f.stack = r.stack /\ f.out \in Seq(Symbols)
  BY FlushIs DEF Reader
<1>2. /\ \A x \in Symbols : Joined(f.out, <<x>>) = Append(f.out, x)
      /\ Joined(f.out, <<>>) = f.out
      /\ Joined(f.out, <<"cell">>) = IF f.out # <<>> /\ Last(f.out) = "gap" THEN f.out ELSE Append(f.out, "gap")
      /\ Joined(f.out, <<"row">>) = IF f.out # <<>> /\ Last(f.out) = "nl" THEN f.out ELSE Append(f.out, "nl")
  <2>1. \A x \in Symbols : <<x>> \in Seq(Symbols) /\ f.out \o <<x>> = Append(f.out, x)
    BY <1>1
  <2>2. <<>> \in Seq(Symbols) /\ f.out \o <<>> = f.out
    BY <1>1, EmptySeq, ConcatEmptySeq
  <2>3. <<"cell">> # <<"row">>
    OBVIOUS
  <2>4. /\ \A x \in Symbols : Joined(f.out, <<x>>) = Append(f.out, x)
        /\ Joined(f.out, <<>>) = f.out
    BY <1>1, <2>1, <2>2, JoinedIs
  <2> QED BY <2>3, <2>4 DEF Joined
<1>3. /\ \A x \in Symbols : Put(r, x).bytes = 0 /\ Put(r, x).out = IF r.hidden THEN f.out ELSE Append(f.out, x)
      /\ \A x \in Symbols : PutOnce(r, x).bytes = 0 /\ PutOnce(r, x).out =
              IF r.hidden \/ (f.out # <<>> /\ Last(f.out) = x) THEN f.out ELSE Append(f.out, x)
  BY PutIs
<1>4. /\ Open(r).bytes = 0 /\ Open(r).out = f.out
      /\ Close(r).bytes = 0 /\ Close(r).out = f.out
  <2> HIDE DEF f
  <2>1. Open(r) = [f EXCEPT !.stack = Append(f.stack, [hidden |-> r.hidden, skip |-> r.skip, paired |-> r.paired])]
    BY DEF Open, f
  <2>2. Close(r) = IF r.stack = <<>> THEN f
                   ELSE [f EXCEPT !.stack = Front(f.stack), !.hidden = Last(f.stack).hidden,
                                  !.skip = Last(f.stack).skip, !.paired = Last(f.stack).paired]
    BY DEF Close, f
  <2> QED BY <1>1, <2>1, <2>2 DEF Reader
<1>5. /\ [f EXCEPT !.hidden = TRUE].bytes = 0 /\ [f EXCEPT !.hidden = TRUE].out = f.out
      /\ [f EXCEPT !.paired = TRUE].bytes = 0 /\ [f EXCEPT !.paired = TRUE].out = f.out
      /\ [f EXCEPT !.skip = 0].bytes = 0 /\ [f EXCEPT !.skip = 0].out = f.out
      /\ [f EXCEPT !.skip = 2].bytes = 0 /\ [f EXCEPT !.skip = 2].out = f.out
  <2> HIDE DEF f
  <2> QED BY <1>1 DEF Reader
<1>6. /\ [Put(r, "b") EXCEPT !.left = r.skip].bytes = Put(r, "b").bytes
      /\ [Put(r, "b") EXCEPT !.left = r.skip].out = Put(r, "b").out
  <2>1. Put(r, "b") \in Reader
    BY PutType, SymbolsAre
  <2> QED BY <2>1 DEF Reader
<1> HIDE DEF f
<1>7. /\ t = "char" => Act(r, t) = Put(r, "a") /\ Mark(t) = <<"a">>
      /\ t = "raw" => Act(r, t) = Put(r, "nl") /\ Mark(t) = <<"nl">>
      /\ t = "par" => Act(r, t) = Put(r, "par") /\ Mark(t) = <<"par">>
      /\ t = "cell" => Act(r, t) = PutOnce(r, "gap") /\ Mark(t) = <<"cell">>
      /\ t = "row" => Act(r, t) = PutOnce(r, "nl") /\ Mark(t) = <<"row">>
      /\ t = "u" => Act(r, t) = [Put(r, "b") EXCEPT !.left = r.skip] /\ Mark(t) = <<"b">>
      /\ t = "open" => Act(r, t) = Open(r) /\ Mark(t) = <<>>
      /\ t = "close" => Act(r, t) = Close(r) /\ Mark(t) = <<>>
      /\ t = "dest" => Act(r, t) = [f EXCEPT !.hidden = TRUE] /\ Mark(t) = <<>>
      /\ t = "pairs" => Act(r, t) = [f EXCEPT !.paired = TRUE] /\ Mark(t) = <<>>
      /\ t = "uc0" => Act(r, t) = [f EXCEPT !.skip = 0] /\ Mark(t) = <<>>
      /\ t = "uc2" => Act(r, t) = [f EXCEPT !.skip = 2] /\ Mark(t) = <<>>
      /\ t = "other" => Act(r, t) = f /\ Mark(t) = <<>>
      /\ t = "byte" => Act(r, t) = IF r.hidden THEN r ELSE [r EXCEPT !.bytes = r.bytes + 1]
      /\ t = "word" => Act(r, t) = r
  BY DEF Act, Mark, f
<1>8. t = "byte" => /\ Act(r, t).bytes = IF r.hidden THEN r.bytes ELSE r.bytes + 1
                    /\ Act(r, t).out = r.out
  BY <1>7 DEF Reader
<1>9. t \notin {"byte", "word"} =>
        /\ Act(r, t).bytes = 0
        /\ Act(r, t).out = IF r.hidden THEN f.out ELSE Joined(f.out, Mark(t))
  <2>1. \A x \in Symbols : Put(r, x).bytes = 0 /\ Put(r, x).out = IF r.hidden THEN f.out ELSE Joined(f.out, <<x>>)
    BY <1>2, <1>3
  <2>2. t = "char" => Act(r, t).bytes = 0 /\ Act(r, t).out = IF r.hidden THEN f.out ELSE Joined(f.out, Mark(t))
    BY <1>7, <2>1, SymbolsAre
  <2>3. t = "raw" => Act(r, t).bytes = 0 /\ Act(r, t).out = IF r.hidden THEN f.out ELSE Joined(f.out, Mark(t))
    BY <1>7, <2>1, SymbolsAre
  <2>4. t = "par" => Act(r, t).bytes = 0 /\ Act(r, t).out = IF r.hidden THEN f.out ELSE Joined(f.out, Mark(t))
    BY <1>7, <2>1, SymbolsAre
  <2>5. t = "u" => Act(r, t).bytes = 0 /\ Act(r, t).out = IF r.hidden THEN f.out ELSE Joined(f.out, Mark(t))
    BY <1>6, <1>7, <2>1, SymbolsAre
  <2>6. CASE t \in {"cell", "row"}
    BY <1>2, <1>3, <1>7, <2>6, SymbolsAre
  <2>7. CASE t \in {"open", "close", "other"}
    BY <1>1, <1>2, <1>4, <1>7, <2>7
  <2>8. t = "dest" => Act(r, t).bytes = 0 /\ Act(r, t).out = f.out /\ Mark(t) = <<>>
    BY <1>5, <1>7
  <2>9. t = "pairs" => Act(r, t).bytes = 0 /\ Act(r, t).out = f.out /\ Mark(t) = <<>>
    BY <1>5, <1>7
  <2>10. t \in {"uc0", "uc2"} => Act(r, t).bytes = 0 /\ Act(r, t).out = f.out /\ Mark(t) = <<>>
    BY <1>5, <1>7
  <2>11. t \in {"dest", "pairs", "uc0", "uc2"} =>
           Act(r, t).bytes = 0 /\ Act(r, t).out = IF r.hidden THEN f.out ELSE Joined(f.out, Mark(t))
    BY <1>2, <2>8, <2>9, <2>10
  <2> QED BY <2>2, <2>3, <2>4, <2>5, <2>6, <2>7, <2>11 DEF Tokens
<1>10. t = "word" => Act(r, t).bytes = r.bytes /\ Act(r, t).out = r.out
  BY <1>7
<1> QED BY <1>8, <1>9, <1>10 DEF f

(* Groups, and what is left of a fallback.                                 *)
LEMMA ActGroup ==
  ASSUME NEW r \in Reader, NEW t \in Tokens
  PROVE  /\ Act(r, t).left = IF t = "u" THEN r.skip ELSE r.left
         /\ t \notin {"open", "close"} => Act(r, t).stack = r.stack
         /\ t = "open" => Act(r, t).stack = Append(r.stack, Now(r))
         /\ t = "close" => /\ r.stack = <<>> => Act(r, t).stack = <<>> /\ Now(Act(r, t)) = Now(r)
                           /\ r.stack # <<>> => /\ Act(r, t).stack = Front(r.stack)
                                                /\ Now(Act(r, t)) = Last(r.stack)
         /\ t \notin {"close", "dest", "pairs", "uc0", "uc2"} => Now(Act(r, t)) = Now(r)
         /\ t = "dest" => Now(Act(r, t)) = [hidden |-> TRUE, skip |-> r.skip, paired |-> r.paired]
         /\ t = "pairs" => Now(Act(r, t)) = [hidden |-> r.hidden, skip |-> r.skip, paired |-> TRUE]
         /\ t = "uc0" => Now(Act(r, t)) = [hidden |-> r.hidden, skip |-> 0, paired |-> r.paired]
         /\ t = "uc2" => Now(Act(r, t)) = [hidden |-> r.hidden, skip |-> 2, paired |-> r.paired]
<1> DEFINE f == Flush(r)
<1>1. /\ f \in Reader /\ f.left = r.left /\ f.stack = r.stack /\ Now(f) = Now(r)
  BY FlushIs
<1>2. f.hidden = r.hidden /\ f.skip = r.skip /\ f.paired = r.paired
  BY <1>1 DEF Now
<1>3. \A x \in Symbols : /\ Put(r, x).left = r.left /\ Put(r, x).stack = r.stack /\ Now(Put(r, x)) = Now(r)
                         /\ PutOnce(r, x).left = r.left /\ PutOnce(r, x).stack = r.stack
                         /\ Now(PutOnce(r, x)) = Now(r)
  BY PutIs
<1> HIDE DEF f
<1>4. t \in {"char", "raw", "par", "cell", "row"} =>
        Act(r, t).left = r.left /\ Act(r, t).stack = r.stack /\ Now(Act(r, t)) = Now(r)
  BY <1>3, SymbolsAre DEF Act
<1>5. t = "u" => Act(r, t).left = r.skip /\ Act(r, t).stack = r.stack /\ Now(Act(r, t)) = Now(r)
  <2>1. Put(r, "b") \in Reader
    BY PutType, SymbolsAre
  <2>2. t = "u" => Act(r, t) = [Put(r, "b") EXCEPT !.left = r.skip]
    BY DEF Act
  <2>3. Put(r, "b").stack = r.stack /\ Now(Put(r, "b")) = Now(r)
    BY <1>3, SymbolsAre
  <2> QED BY <2>1, <2>2, <2>3 DEF Now, Reader
<1>6. t = "open" => Act(r, t).left = r.left /\ Act(r, t).stack = Append(r.stack, Now(r)) /\ Now(Act(r, t)) = Now(r)
  <2>1. t = "open" => Act(r, t) = [f EXCEPT !.stack = Append(f.stack, Now(r))]
    BY DEF Act, Open, Now, f
  <2> QED BY <1>1, <1>2, <2>1 DEF Now, Reader
<1>7. t = "close" /\ r.stack = <<>> => Act(r, t).left = r.left /\ Act(r, t).stack = <<>> /\ Now(Act(r, t)) = Now(r)
  BY <1>1 DEF Act, Close, f
<1>8. t = "close" /\ r.stack # <<>> =>
        Act(r, t).left = r.left /\ Act(r, t).stack = Front(r.stack) /\ Now(Act(r, t)) = Last(r.stack)
  <2>1. t = "close" /\ r.stack # <<>> =>
          Act(r, t) = [f EXCEPT !.stack = Front(f.stack), !.hidden = Last(f.stack).hidden,
                                !.skip = Last(f.stack).skip, !.paired = Last(f.stack).paired]
    BY DEF Act, Close, f
  <2>2. r.stack # <<>> => Last(r.stack) \in Group
    <3>1. r.stack \in Seq(Group)
      BY DEF Reader
    <3>2. r.stack # <<>> => Len(r.stack) \in 1..Len(r.stack)
      BY <3>1
    <3> QED BY <3>1, <3>2, ElementOfSeq DEF Last
  <2>3. r.stack # <<>> => Last(r.stack) = [hidden |-> Last(r.stack).hidden, skip |-> Last(r.stack).skip,
                                           paired |-> Last(r.stack).paired]
    BY <2>2 DEF Group
  <2> QED BY <1>1, <2>1, <2>3 DEF Now, Reader
<1>9. t \in {"other", "byte", "word"} => Act(r, t).left = r.left /\ Act(r, t).stack = r.stack /\ Now(Act(r, t)) = Now(r)
  <2>1. /\ [r EXCEPT !.bytes = r.bytes + 1].left = r.left /\ [r EXCEPT !.bytes = r.bytes + 1].stack = r.stack
        /\ Now([r EXCEPT !.bytes = r.bytes + 1]) = Now(r)
    BY DEF Reader, Now
  <2>2. t = "other" => Act(r, t) = f
    BY DEF Act, f
  <2>3. t = "byte" => Act(r, t) = IF r.hidden THEN r ELSE [r EXCEPT !.bytes = r.bytes + 1]
    BY DEF Act
  <2>4. t = "word" => Act(r, t) = r
    BY DEF Act
  <2> QED BY <1>1, <2>1, <2>2, <2>3, <2>4
<1>10. t = "dest" => /\ Act(r, t).left = r.left /\ Act(r, t).stack = r.stack
                     /\ Now(Act(r, t)) = [hidden |-> TRUE, skip |-> r.skip, paired |-> r.paired]
  <2>1. t = "dest" => Act(r, t) = [f EXCEPT !.hidden = TRUE]
    BY DEF Act, f
  <2> QED BY <1>1, <1>2, <2>1 DEF Now, Reader
<1>11. t = "pairs" => /\ Act(r, t).left = r.left /\ Act(r, t).stack = r.stack
                      /\ Now(Act(r, t)) = [hidden |-> r.hidden, skip |-> r.skip, paired |-> TRUE]
  <2>1. t = "pairs" => Act(r, t) = [f EXCEPT !.paired = TRUE]
    BY DEF Act, f
  <2> QED BY <1>1, <1>2, <2>1 DEF Now, Reader
<1>12. t = "uc0" => /\ Act(r, t).left = r.left /\ Act(r, t).stack = r.stack
                    /\ Now(Act(r, t)) = [hidden |-> r.hidden, skip |-> 0, paired |-> r.paired]
  <2>1. t = "uc0" => Act(r, t) = [f EXCEPT !.skip = 0]
    BY DEF Act, f
  <2> QED BY <1>1, <1>2, <2>1 DEF Now, Reader
<1>13. t = "uc2" => /\ Act(r, t).left = r.left /\ Act(r, t).stack = r.stack
                    /\ Now(Act(r, t)) = [hidden |-> r.hidden, skip |-> 2, paired |-> r.paired]
  <2>1. t = "uc2" => Act(r, t) = [f EXCEPT !.skip = 2]
    BY DEF Act, f
  <2> QED BY <1>1, <1>2, <2>1 DEF Now, Reader
<1>14. t \in {"open", "close", "dest", "char", "byte", "pairs", "uc0", "uc2", "u", "par", "cell", "row",
              "raw", "word", "other"}
  BY DEF Tokens
<1>15. t \notin {"open", "close", "dest", "pairs", "uc0", "uc2", "u"} =>
         Act(r, t).left = r.left /\ Act(r, t).stack = r.stack /\ Now(Act(r, t)) = Now(r)
  BY <1>4, <1>9, <1>14
<1> QED BY <1>5, <1>6, <1>7, <1>8, <1>10, <1>11, <1>12, <1>13, <1>15

-----------------------------------------------------------------------------
(* What the reader holds of a file: what is in force, what each open group *)
(* restores, how much of a fallback is still to come, and the text.        *)
Begins(ts, o, i) == ts[o] = "open" /\ Depth(ts)[o] = i /\ \A k \in o..Len(ts) : Depth(ts)[k] >= i

Held(ts, r) == Now(r) = GroupAt(ts, Len(ts) + 1)

Nested(ts, r) ==
  /\ Len(r.stack) = Depth(ts)[Len(ts)]
  /\ \A i \in 1..Len(r.stack) : \E o \in 1..Len(ts) : Begins(ts, o, i) /\ r.stack[i] = GroupAt(ts, o)

Skipping(ts, r) ==
  /\ \A j \in 1..Len(ts) : Reaches(ts, j) =>
       r.left = IF SkipAt(ts, j) > Len(ts) - j THEN SkipAt(ts, j) - (Len(ts) - j) ELSE 0
  /\ r.left > 0 => \E j \in 1..Len(ts) : Reaches(ts, j)

Written(ts, r) ==
  /\ r.bytes = IF r.hidden THEN 0 ELSE Cardinality(Run(ts, Len(ts)))
  /\ r.out = Together(Fixed(ts)) /\ Flush(r).out = Together(Pieces(ts))

Means(ts, r) == Held(ts, r) /\ Nested(ts, r) /\ Skipping(ts, r) /\ Written(ts, r)

(* A token is skipped where it stands for a \u character.                  *)
LEMMA SkippedIs ==
  ASSUME NEW ts \in Seq(Tokens), NEW r \in Reader, NEW t \in Tokens, Skipping(ts, r)
  PROVE  IsFallback(Append(ts, t), Len(ts) + 1) <=> r.left > 0 /\ t \in Fallback
<1>1. Len(ts) \in Nat /\ r.left \in Nat /\ \A j \in 1..Len(ts) : SkipAt(ts, j) \in Nat
  BY DEF Reader, SkipAt
<1>2. ASSUME NEW j \in 1..Len(ts), Reaches(ts, j)
      PROVE  Len(ts) + 1 - j <= SkipAt(ts, j) <=> r.left > 0
  <2>1. r.left = IF SkipAt(ts, j) > Len(ts) - j THEN SkipAt(ts, j) - (Len(ts) - j) ELSE 0
    BY <1>2 DEF Skipping
  <2> QED BY <1>1, <2>1
<1>3. r.left > 0 => \E j \in 1..Len(ts) : Reaches(ts, j)
  BY DEF Skipping
<1> QED BY <1>2, <1>3, FallbackAppend

LEMMA SkippingStep ==
  ASSUME NEW ts \in Seq(Tokens), NEW r \in Reader, NEW t \in Tokens, Held(ts, r), Skipping(ts, r),
         NEW x,
         x.left = IF t = "u" THEN r.skip ELSE IF r.left > 0 /\ t \in Fallback THEN r.left - 1 ELSE 0
  PROVE  Skipping(Append(ts, t), x)
<1> DEFINE us == Append(ts, t)
           N == Len(ts)
<1>1. Len(us) = N + 1 /\ N \in Nat
  BY AppendProperties
<1>2. /\ \A j \in 1..N : Reaches(us, j) <=> Reaches(ts, j) /\ t \in Fallback
      /\ Reaches(us, N + 1) <=> t = "u"
      /\ \A j \in 1..(N + 1) : SkipAt(us, j) = SkipAt(ts, j)
  BY FallbackAppend
<1>3. \A j \in 1..(N + 1) : SkipAt(ts, j) \in Nat
  BY DEF SkipAt
<1>4. SkipAt(ts, N + 1) = r.skip
  BY DEF Held, Now, GroupAt
<1>5. r.left \in Nat /\ r.skip \in Nat
  BY DEF Reader
<1>6. \A j \in 1..N : Reaches(ts, j) => r.left = IF SkipAt(ts, j) > N - j THEN SkipAt(ts, j) - (N - j) ELSE 0
  BY DEF Skipping
<1>7. r.left > 0 => \E j \in 1..N : Reaches(ts, j)
  BY DEF Skipping
<1>8. "u" \notin Fallback
  BY DEF Fallback
<1> HIDE DEF us
<1>9. ASSUME NEW j \in 1..(N + 1), Reaches(us, j)
      PROVE  x.left = IF SkipAt(us, j) > (N + 1) - j THEN SkipAt(us, j) - ((N + 1) - j) ELSE 0
  <2>1. CASE j = N + 1
    <3>1. x.left = SkipAt(us, j) /\ SkipAt(us, j) \in Nat /\ (N + 1) - j = 0
      <4>1. t = "u" /\ SkipAt(us, j) = SkipAt(ts, N + 1)
        BY <1>2, <1>9, <2>1
      <4> QED BY <1>1, <1>4, <1>5, <2>1, <4>1
    <3> QED BY <3>1
  <2>2. CASE j \in 1..N
    <3>1. Reaches(ts, j) /\ t \in Fallback /\ SkipAt(us, j) = SkipAt(ts, j) /\ SkipAt(ts, j) \in Nat
      <4>1. j \in 1..(N + 1)
        BY <1>1
      <4> QED BY <1>2, <1>3, <1>9, <2>2, <4>1
    <3>2. r.left = IF SkipAt(ts, j) > N - j THEN SkipAt(ts, j) - (N - j) ELSE 0
      BY <1>6, <2>2, <3>1
    <3>3. x.left = IF r.left > 0 THEN r.left - 1 ELSE 0
      BY <1>8, <3>1
    <3> QED BY <1>1, <1>5, <2>2, <3>1, <3>2, <3>3
  <2> QED BY <1>1, <2>1, <2>2
<1>10. ASSUME x.left > 0 PROVE \E j \in 1..(N + 1) : Reaches(us, j)
  <2>1. CASE t = "u"
    <3>1. N + 1 \in 1..(N + 1)
      BY <1>1
    <3> QED BY <1>2, <2>1, <3>1
  <2>2. CASE t # "u"
    <3>1. r.left > 0 /\ t \in Fallback
      BY <1>10, <2>2
    <3>2. PICK j \in 1..N : Reaches(ts, j)
      BY <1>7, <3>1
    <3>3. j \in 1..(N + 1) /\ Reaches(us, j)
      BY <1>1, <1>2, <3>1, <3>2
    <3> QED BY <3>3
  <2> QED BY <2>1, <2>2
<1> QED BY <1>1, <1>9, <1>10 DEF Skipping, us

LEMMA NestedStep ==
  ASSUME NEW ts \in Seq(Tokens), NEW r \in Reader, NEW t \in Tokens, Held(ts, r), Nested(ts, r),
         NEW x \in Reader,
         t \notin {"open", "close"} => x.stack = r.stack,
         t = "open" => x.stack = Append(r.stack, Now(r)),
         t = "close" => x.stack = IF r.stack = <<>> THEN <<>> ELSE Front(r.stack)
  PROVE  Nested(Append(ts, t), x)
<1> DEFINE us == Append(ts, t)
           N == Len(ts)
           L == Len(r.stack)
           d == Depth(ts)
           e == Depth(us)
           s == r.stack
<1>1. /\ Len(us) = N + 1 /\ N \in Nat /\ us[N + 1] = t /\ \A k \in 1..N : us[k] = ts[k]
  BY AppendProperties
<1>2. /\ \A k \in 0..N : e[k] = d[k]
      /\ e[N + 1] = Deeper(d[N], t)
  BY DepthAppend
<1>3. L = d[N] /\ \A i \in 1..L : \E o \in 1..N : Begins(ts, o, i) /\ s[i] = GroupAt(ts, o)
  BY DEF Nested
<1>4. \A k \in 1..(N + 1) : GroupAt(us, k) = GroupAt(ts, k)
  BY GroupAppend
<1>5. s \in Seq(Group) /\ x.stack \in Seq(Group) /\ L \in Nat /\ Now(r) \in Group
  BY NowType DEF Reader
<1>6. Now(r) = GroupAt(ts, N + 1)
  BY DEF Held
<1> HIDE DEF us, d, e, s
<1>7. ASSUME NEW i \in 1..L, e[N + 1] >= i
      PROVE  \E o \in 1..(N + 1) : Begins(us, o, i) /\ s[i] = GroupAt(us, o)
  <2>1. PICK o \in 1..N : Begins(ts, o, i) /\ s[i] = GroupAt(ts, o)
    BY <1>3
  <2>2. ts[o] = "open" /\ d[o] = i /\ \A k \in o..N : d[k] >= i
    BY <2>1 DEF Begins, d
  <2>3. o \in 1..(N + 1) /\ o \in 0..N /\ (\A k \in o..N : k \in 0..N)
        /\ \A k \in o..(N + 1) : k \in o..N \/ k = N + 1
    BY <1>1
  <2>4. us[o] = "open" /\ e[o] = i /\ \A k \in o..(N + 1) : e[k] >= i
    BY <1>1, <1>2, <1>7, <2>2, <2>3
  <2>5. Begins(us, o, i)
    BY <1>1, <2>4 DEF Begins, e
  <2> QED BY <1>4, <2>1, <2>3, <2>5
<1>8. CASE t \notin {"open", "close"}
  <2>1. e[N + 1] = L /\ x.stack = s
    BY <1>2, <1>3, <1>8 DEF Deeper, s
  <2>2. \A i \in 1..L : e[N + 1] >= i
    BY <1>5, <2>1
  <2> QED BY <1>1, <1>7, <2>1, <2>2 DEF Nested, us, e, s
<1>9. CASE t = "open"
  <2>1. e[N + 1] = L + 1 /\ x.stack = Append(s, Now(r))
    BY <1>2, <1>3, <1>9 DEF Deeper, s
  <2>2. Len(x.stack) = L + 1 /\ x.stack[L + 1] = Now(r) /\ \A i \in 1..L : x.stack[i] = s[i]
    BY <1>5, <2>1 DEF s
  <2>3. ASSUME NEW i \in 1..(L + 1) PROVE \E o \in 1..(N + 1) : Begins(us, o, i) /\ x.stack[i] = GroupAt(us, o)
    <3>1. CASE i \in 1..L
      <4>1. e[N + 1] >= i
        BY <1>5, <2>1, <3>1
      <4> QED BY <1>7, <2>2, <3>1, <4>1
    <3>2. CASE i = L + 1
      <4>1. N + 1 \in 1..(N + 1) /\ \A k \in (N + 1)..(N + 1) : k = N + 1
        BY <1>1
      <4>2. e[N + 1] >= i
        BY <1>5, <2>1, <3>2
      <4>3. Begins(us, N + 1, i)
        BY <1>1, <1>9, <2>1, <3>2, <4>1, <4>2 DEF Begins, e
      <4> QED BY <1>4, <1>6, <2>2, <3>2, <4>1, <4>3
    <3> QED BY <1>5, <3>1, <3>2
  <2> QED BY <1>1, <2>1, <2>2, <2>3 DEF Nested, us, e
<1>10. CASE t = "close"
  <2>1. CASE s = <<>>
    <3>1. L = 0 /\ x.stack = <<>> /\ Len(x.stack) = 0
      BY <1>10, <2>1 DEF s
    <3>2. e[N + 1] = 0
      BY <1>2, <1>3, <1>10, <3>1 DEF Deeper
    <3>3. 1..Len(x.stack) = {}
      BY <3>1
    <3> QED BY <1>1, <3>1, <3>2, <3>3 DEF Nested, us, e
  <2>2. CASE s # <<>>
    <3>1. L > 0 /\ x.stack = Front(s)
      BY <1>5, <1>10, <2>2, EmptySeq DEF s
    <3>2. Len(x.stack) = L - 1 /\ \A i \in 1..(L - 1) : x.stack[i] = s[i]
      BY <1>5, <3>1 DEF Front, s
    <3>3. e[N + 1] = L - 1
      BY <1>2, <1>3, <1>10, <3>1 DEF Deeper
    <3>4. ASSUME NEW i \in 1..(L - 1) PROVE \E o \in 1..(N + 1) : Begins(us, o, i) /\ x.stack[i] = GroupAt(us, o)
      <4>1. i \in 1..L /\ e[N + 1] >= i
        BY <1>5, <3>3
      <4> QED BY <1>7, <3>2, <4>1
    <3> QED BY <1>1, <3>2, <3>3, <3>4 DEF Nested, us, e
  <2> QED BY <2>1, <2>2
<1> QED BY <1>8, <1>9, <1>10

LEMMA FlushSame ==
  ASSUME NEW r \in Reader, NEW q \in Reader, q.out = r.out, q.bytes = r.bytes,
         q.hidden = r.hidden, q.paired = r.paired
  PROVE  Flush(q).out = Flush(r).out
<1>1. Flush(r).out = IF r.hidden THEN r.out ELSE r.out \o Decoded(r.bytes, r.paired)
  BY FlushIs
<1>2. Flush(q).out = IF q.hidden THEN q.out ELSE q.out \o Decoded(q.bytes, q.paired)
  BY FlushIs
<1> QED BY <1>1, <1>2

LEMMA LeftIs ==
  ASSUME NEW r \in Reader, NEW n \in Nat, NEW q, q = [r EXCEPT !.left = n]
  PROVE  /\ q \in Reader /\ q.left = n /\ q.out = r.out /\ q.bytes = r.bytes /\ q.stack = r.stack
         /\ q.hidden = r.hidden /\ q.skip = r.skip /\ q.paired = r.paired
         /\ Now(q) = Now(r) /\ Flush(q).out = Flush(r).out
<1>1. q \in Reader /\ q.left = n /\ q.out = r.out /\ q.bytes = r.bytes /\ q.stack = r.stack
      /\ q.hidden = r.hidden /\ q.skip = r.skip /\ q.paired = r.paired
  BY DEF Reader
<1>2. Flush(q).out = Flush(r).out
  BY <1>1, FlushSame
<1> QED BY <1>1, <1>2 DEF Now

LEMMA HeldStep ==
  ASSUME NEW ts \in Seq(Tokens), NEW r \in Reader, NEW t \in Tokens, Held(ts, r), Nested(ts, r),
         NEW x,
         t \notin {"close", "dest", "pairs", "uc0", "uc2"} => Now(x) = Now(r),
         t = "close" => Now(x) = IF r.stack = <<>> THEN Now(r) ELSE Last(r.stack),
         t = "dest" => Now(x) = [hidden |-> TRUE, skip |-> r.skip, paired |-> r.paired],
         t = "pairs" => Now(x) = [hidden |-> r.hidden, skip |-> r.skip, paired |-> TRUE],
         t = "uc0" => Now(x) = [hidden |-> r.hidden, skip |-> 0, paired |-> r.paired],
         t = "uc2" => Now(x) = [hidden |-> r.hidden, skip |-> 2, paired |-> r.paired]
  PROVE  Held(Append(ts, t), x)
<1> DEFINE us == Append(ts, t)
           N == Len(ts)
<1>1. Len(us) + 1 = N + 2 /\ N \in Nat
  BY AppendProperties
<1>2. Now(r) = GroupAt(ts, N + 1)
  BY DEF Held
<1>3. r.hidden = HiddenAt(ts, N + 1) /\ r.skip = SkipAt(ts, N + 1) /\ r.paired = PairedAt(ts, N + 1)
  BY <1>2 DEF Now, GroupAt
<1>4. r.stack \in Seq(Group)
  BY DEF Reader
<1>5. Now(x) = GroupAt(us, N + 2)
  <2>1. CASE t \notin {"close", "dest", "pairs", "uc0", "uc2"}
    BY <1>2, <2>1, GroupAppend
  <2>2. CASE t = "dest"
    BY <1>3, <2>2, GroupAppend
  <2>3. CASE t = "pairs"
    BY <1>3, <2>3, GroupAppend
  <2>4. CASE t = "uc0"
    BY <1>3, <2>4, GroupAppend
  <2>5. CASE t = "uc2"
    BY <1>3, <2>5, GroupAppend
  <2>6. CASE t = "close" /\ r.stack = <<>>
    <3>1. Depth(ts)[N] = 0
      BY <2>6 DEF Nested
    <3> QED BY <1>2, <2>6, <3>1, GroupAppend
  <2>7. CASE t = "close" /\ r.stack # <<>>
    <3>1. Len(r.stack) \in 1..Len(r.stack) /\ Last(r.stack) = r.stack[Len(r.stack)]
      BY <1>4, <2>7, EmptySeq DEF Last
    <3>2. PICK o \in 1..N : Begins(ts, o, Len(r.stack)) /\ r.stack[Len(r.stack)] = GroupAt(ts, o)
      BY <3>1 DEF Nested
    <3>3. ts[o] = "open" /\ Depth(ts)[o] = Depth(ts)[N] /\ \A k \in o..N : Depth(ts)[k] >= Depth(ts)[o]
      BY <3>2 DEF Begins, Nested
    <3>4. GroupAt(us, N + 2) = GroupAt(ts, o)
      BY <2>7, <3>3, GroupAppend
    <3> QED BY <2>7, <3>1, <3>2, <3>4
  <2> QED BY <2>1, <2>2, <2>3, <2>4, <2>5, <2>6, <2>7
<1> QED BY <1>1, <1>5 DEF Held, us

(* The reader's text and bytes are those of the pieces.                    *)
LEMMA WrittenStep ==
  ASSUME NEW ts \in Seq(Tokens), NEW r \in Reader, NEW t \in Tokens,
         Held(ts, r), Skipping(ts, r), Written(ts, r), NEW x \in Reader,
         t \in {"byte", "word"} \cup Fallback => x.hidden = r.hidden,
         r.left > 0 /\ t \in Fallback => x.bytes = r.bytes /\ x.out = r.out /\ Flush(x).out = Flush(r).out,
         ~(r.left > 0 /\ t \in Fallback) =>
           /\ t \notin {"byte", "word"} =>
                /\ x.bytes = 0
                /\ x.out = IF r.hidden THEN Flush(r).out ELSE Joined(Flush(r).out, Mark(t))
           /\ t = "byte" => /\ x.bytes = IF r.hidden THEN r.bytes ELSE r.bytes + 1
                            /\ x.out = r.out /\ x.paired = r.paired
           /\ t = "word" => x.bytes = r.bytes /\ x.out = r.out /\ Flush(x).out = Flush(r).out
  PROVE  Written(Append(ts, t), x)
<1> DEFINE us == Append(ts, t)
           N == Len(ts)
           R == Run(ts, N)
           Q == Run(us, N + 1)
           fell == IsFallback(us, N + 1)
<1>1. us \in Seq(Tokens) /\ Len(us) = N + 1 /\ N \in Nat
  BY AppendProperties
<1>2. fell <=> r.left > 0 /\ t \in Fallback
  BY SkippedIs
<1>3. r.hidden = HiddenAt(ts, N + 1) /\ r.paired = PairedAt(ts, N + 1)
  BY DEF Held, Now, GroupAt
<1>4. /\ r.bytes = IF r.hidden THEN 0 ELSE Cardinality(R)
      /\ r.out = Together(Fixed(ts)) /\ Flush(r).out = Together(Pieces(ts))
  BY DEF Written
<1>5. /\ Pieces(ts) \in Seq(AnyPiece) /\ Fixed(ts) \in Seq(AnyPiece)
      /\ Together(Pieces(ts)) \in Seq(Symbols) /\ Together(Fixed(ts)) \in Seq(Symbols)
  <2>1. <<>> \in AnyPiece
    BY EmptySeq DEF AnyPiece
  <2> QED BY <2>1, PiecesType, TogetherAppend
<1>6. /\ \A p \in AnyPiece : /\ Together(Append(Pieces(ts), p)) = Joined(Together(Pieces(ts)), p)
                             /\ Together(Append(Fixed(ts), p)) = Joined(Together(Fixed(ts)), p)
  BY <1>5, TogetherAppend
<1>7. /\ Together(Append(Pieces(ts), <<>>)) = Together(Pieces(ts))
      /\ Together(Append(Fixed(ts), <<>>)) = Together(Fixed(ts))
  <2>1. <<>> \in AnyPiece /\ <<>> \in Seq(Symbols)
    BY EmptySeq DEF AnyPiece
  <2>2. \A s \in Seq(Symbols) : Joined(s, <<>>) = s
    BY <2>1, JoinedIs, ConcatEmptySeq
  <2> QED BY <1>5, <1>6, <2>1, <2>2
<1>8. SUFFICES /\ x.bytes = IF x.hidden THEN 0 ELSE Cardinality(Q)
               /\ x.out = Together(Fixed(us)) /\ Flush(x).out = Together(Pieces(us))
  BY <1>1 DEF Written
<1>9. CASE fell
  <2>1. Pieces(us) = Append(Pieces(ts), <<>>) /\ Fixed(us) = Append(Fixed(ts), <<>>) /\ Q = R
    BY <1>9, FileAppend
  <2>2. x.bytes = r.bytes /\ x.out = r.out /\ Flush(x).out = Flush(r).out /\ x.hidden = r.hidden
    BY <1>2, <1>9
  <2> HIDE DEF us, R, Q, fell
  <2> QED BY <1>4, <1>7, <2>1, <2>2
<1>10. CASE t = "word"
  <2>1. Pieces(us) = Append(Pieces(ts), <<>>) /\ Fixed(us) = Append(Fixed(ts), <<>>) /\ Q = R
    BY <1>10, FileAppend
  <2>2. x.bytes = r.bytes /\ x.out = r.out /\ Flush(x).out = Flush(r).out /\ x.hidden = r.hidden
    BY <1>10
  <2> HIDE DEF us, R, Q, fell
  <2> QED BY <1>4, <1>7, <2>1, <2>2
<1>11. CASE t = "byte" /\ ~fell
  <2>1. /\ Cardinality(Q) = Cardinality(R) + 1 /\ Fixed(us) = Append(Fixed(ts), <<>>)
        /\ Pieces(us) = Append(Fixed(ts), IF r.hidden THEN <<>> ELSE Decoded(Cardinality(R) + 1, r.paired))
    BY <1>3, <1>11, FileAppend
  <2>2. x.bytes = (IF r.hidden THEN r.bytes ELSE r.bytes + 1) /\ x.out = r.out /\ x.hidden = r.hidden /\ x.paired = r.paired
    BY <1>2, <1>11
  <2>3. Flush(x).out = IF x.hidden THEN x.out ELSE x.out \o Decoded(x.bytes, x.paired)
    BY FlushIs
  <2>4. ~r.hidden => /\ Decoded(Cardinality(R) + 1, r.paired) \in Seq(Symbols)
                     /\ Decoded(Cardinality(R) + 1, r.paired) \in AnyPiece
    <3>1. ~r.hidden => Cardinality(R) \in Nat
      BY <1>4 DEF Reader
    <3>2. ~r.hidden => Cardinality(R) + 1 \in Nat
      BY <3>1
    <3>3. r.paired \in BOOLEAN
      BY DEF Reader
    <3> QED BY <3>2, <3>3, DecodedType DEF AnyPiece
  <2> HIDE DEF us, R, Q, fell
  <2>5. CASE r.hidden
    BY <1>4, <1>7, <2>1, <2>2, <2>3, <2>5
  <2>6. CASE ~r.hidden
    <3> DEFINE p == Decoded(Cardinality(R) + 1, r.paired)
    <3>1. Together(Append(Fixed(ts), p)) = Joined(Together(Fixed(ts)), p)
      BY <1>6, <2>4, <2>6
    <3>2. Joined(Together(Fixed(ts)), p) = Together(Fixed(ts)) \o p
      BY <1>5, <2>4, <2>6, JoinedIs
    <3>3. x.bytes = Cardinality(R) + 1 /\ Flush(x).out = x.out \o p
      BY <1>4, <2>2, <2>3, <2>6
    <3> QED BY <1>4, <1>7, <2>1, <2>2, <2>6, <3>1, <3>2, <3>3
  <2> QED BY <2>5, <2>6
<1>12. CASE t \notin {"byte", "word"} /\ ~fell
  <2>1. /\ Q = {} /\ Fixed(us) = Pieces(us)
        /\ Pieces(us) = Append(Pieces(ts), IF r.hidden THEN <<>> ELSE Mark(t))
    BY <1>3, <1>12, FileAppend
  <2>2. x.bytes = 0 /\ x.out = IF r.hidden THEN Flush(r).out ELSE Joined(Flush(r).out, Mark(t))
    BY <1>2, <1>12
  <2>3. Flush(x).out = x.out
    BY <2>2, FlushIs
  <2>4. Mark(t) \in AnyPiece
    <3>1. \A y \in Symbols : <<y>> \in Seq(Symbols)
      OBVIOUS
    <3>2. <<>> \in Seq(Symbols)
      BY EmptySeq
    <3> QED BY <3>1, <3>2, SymbolsAre DEF AnyPiece, Mark
  <2>5. Cardinality({}) = 0
    BY FS_EmptySet
  <2> HIDE DEF us, R, Q, fell
  <2>6. x.out = Together(Pieces(us))
    BY <1>4, <1>6, <1>7, <2>1, <2>2, <2>4
  <2> QED BY <2>1, <2>2, <2>3, <2>5, <2>6
<1> QED BY <1>9, <1>10, <1>11, <1>12

LEMMA MeansStep ==
  ASSUME NEW ts \in Seq(Tokens), NEW r \in Reader, NEW t \in Tokens, Means(ts, r)
  PROVE  Means(Append(ts, t), ReadToken(r, t))
<1> DEFINE x == ReadToken(r, t)
           q == [r EXCEPT !.left = 0]
           skipped == r.left > 0 /\ t \in Fallback
<1>1. Held(ts, r) /\ Nested(ts, r) /\ Skipping(ts, r) /\ Written(ts, r)
  BY DEF Means
<1>2. x \in Reader
  BY ReadTokenType
<1>3. CASE skipped
  <2>1. x = [r EXCEPT !.left = r.left - 1] /\ r.left - 1 \in Nat
    BY <1>3 DEF ReadToken, Reader
  <2>2. /\ x.left = r.left - 1 /\ x.out = r.out /\ x.bytes = r.bytes /\ x.stack = r.stack
        /\ x.hidden = r.hidden /\ Now(x) = Now(r) /\ Flush(x).out = Flush(r).out
    <3> HIDE DEF x
    <3> QED BY <2>1, LeftIs
  <2>3. t \in {"char", "byte", "raw"} /\ t \in Fallback
    BY <1>3 DEF Fallback
  <2> HIDE DEF x
  <2>4. Held(Append(ts, t), x)
    BY <1>1, <2>2, <2>3, HeldStep
  <2>5. Nested(Append(ts, t), x)
    BY <1>1, <1>2, <2>2, <2>3, NestedStep
  <2>6. x.left = IF t = "u" THEN r.skip ELSE IF r.left > 0 /\ t \in Fallback THEN r.left - 1 ELSE 0
    BY <1>3, <2>2, <2>3
  <2>7. Skipping(Append(ts, t), x)
    BY <1>1, <2>6, SkippingStep
  <2>8. Written(Append(ts, t), x)
    BY <1>1, <1>2, <1>3, <2>2, WrittenStep
  <2> QED BY <2>4, <2>5, <2>7, <2>8 DEF Means, x
<1>4. CASE ~skipped
  <2>1. x = Act(q, t)
    BY <1>4 DEF ReadToken
  <2>2. /\ q \in Reader /\ q.left = 0 /\ q.out = r.out /\ q.bytes = r.bytes /\ q.stack = r.stack
        /\ q.hidden = r.hidden /\ q.skip = r.skip /\ q.paired = r.paired
        /\ Now(q) = Now(r) /\ Flush(q).out = Flush(r).out
    <3>1. 0 \in Nat
      OBVIOUS
    <3> QED BY <3>1, LeftIs
  <2> HIDE DEF x, q
  <2>3. /\ x.left = (IF t = "u" THEN r.skip ELSE 0)
        /\ t \notin {"open", "close"} => x.stack = r.stack
        /\ t = "open" => x.stack = Append(r.stack, Now(r))
        /\ t = "close" => x.stack = (IF r.stack = <<>> THEN <<>> ELSE Front(r.stack))
    BY <2>1, <2>2, ActGroup
  <2>4. /\ t \notin {"close", "dest", "pairs", "uc0", "uc2"} => Now(x) = Now(r)
        /\ t = "close" => Now(x) = (IF r.stack = <<>> THEN Now(r) ELSE Last(r.stack))
        /\ t = "dest" => Now(x) = [hidden |-> TRUE, skip |-> r.skip, paired |-> r.paired]
        /\ t = "pairs" => Now(x) = [hidden |-> r.hidden, skip |-> r.skip, paired |-> TRUE]
        /\ t = "uc0" => Now(x) = [hidden |-> r.hidden, skip |-> 0, paired |-> r.paired]
        /\ t = "uc2" => Now(x) = [hidden |-> r.hidden, skip |-> 2, paired |-> r.paired]
    BY <2>1, <2>2, ActGroup
  <2>5. /\ t \notin {"byte", "word"} =>
             /\ x.bytes = 0
             /\ x.out = IF r.hidden THEN Flush(r).out ELSE Joined(Flush(r).out, Mark(t))
        /\ t = "byte" => x.bytes = (IF r.hidden THEN r.bytes ELSE r.bytes + 1) /\ x.out = r.out
        /\ t = "word" => x.bytes = r.bytes /\ x.out = r.out
    BY <2>1, <2>2, ActOut
  <2>6. t \in {"byte", "word"} \cup Fallback => x.hidden = r.hidden /\ x.paired = r.paired
    <3>1. t \in {"byte", "word"} \cup Fallback => t \notin {"close", "dest", "pairs", "uc0", "uc2"}
      BY DEF Fallback
    <3>2. Now(x) = Now(r) => x.hidden = r.hidden /\ x.paired = r.paired
      BY DEF Now
    <3> QED BY <2>4, <3>1, <3>2
  <2>7. t = "word" => Flush(x).out = Flush(r).out
    <3>1. t = "word" => x.bytes = r.bytes /\ x.out = r.out /\ x.hidden = r.hidden /\ x.paired = r.paired
      BY <2>5, <2>6
    <3>2. /\ Flush(x).out = IF x.hidden THEN x.out ELSE x.out \o Decoded(x.bytes, x.paired)
          /\ Flush(r).out = IF r.hidden THEN r.out ELSE r.out \o Decoded(r.bytes, r.paired)
      BY <1>2, FlushIs DEF x
    <3> QED BY <3>1, <3>2
  <2>8. x.left = IF t = "u" THEN r.skip ELSE IF r.left > 0 /\ t \in Fallback THEN r.left - 1 ELSE 0
    BY <1>4, <2>3
  <2>9. x \in Reader
    BY <1>2 DEF x
  <2>10. Held(Append(ts, t), x)
    BY <1>1, <2>4, HeldStep
  <2>11. Nested(Append(ts, t), x)
    BY <1>1, <2>3, <2>9, NestedStep
  <2>12. Skipping(Append(ts, t), x)
    BY <1>1, <2>8, SkippingStep
  <2>13. Written(Append(ts, t), x)
    BY <1>1, <1>4, <2>5, <2>6, <2>7, <2>9, WrittenStep
  <2> QED BY <2>10, <2>11, <2>12, <2>13 DEF Means, x
<1> QED BY <1>3, <1>4

LEMMA MeansNothing == Means(<<>>, Blank)
<1>1. <<>> \in Seq(Tokens) /\ Len(<<>>) = 0 /\ 1..0 = {} /\ <<>> \in Seq(Symbols)
  OBVIOUS
<1>2. Blank \in Reader
  BY <1>1, EmptySeq DEF Blank, Reader
<1>3. \A words : SaidLast(<<>>, words, 1) = "nothing"
  <2>1. \A words : Said(<<>>, words, 1) = {}
    BY DEF Said
  <2> QED BY <1>1, <2>1, LastSaid
<1>4. Held(<<>>, Blank)
  <2>1. ~HiddenAt(<<>>, 1) /\ SkipAt(<<>>, 1) = 1 /\ ~PairedAt(<<>>, 1)
    BY <1>3 DEF HiddenAt, SkipAt, PairedAt
  <2>2. HiddenAt(<<>>, 1) \in BOOLEAN /\ PairedAt(<<>>, 1) \in BOOLEAN
    BY DEF HiddenAt, PairedAt
  <2>3. GroupAt(<<>>, 1) = [hidden |-> FALSE, skip |-> 1, paired |-> FALSE]
    BY <2>1, <2>2 DEF GroupAt
  <2>4. Len(<<>>) + 1 = 1
    BY <1>1
  <2>5. Now(Blank) = [hidden |-> FALSE, skip |-> 1, paired |-> FALSE]
    BY DEF Now, Blank
  <2> QED BY <2>3, <2>4, <2>5 DEF Held
<1>5. Nested(<<>>, Blank)
  <2>1. Depth(<<>>)[0] = 0
    BY <1>1, DepthIs
  <2> QED BY <1>1, <2>1 DEF Nested, Blank
<1>6. Skipping(<<>>, Blank)
  BY <1>1 DEF Skipping, Blank
<1>7. Written(<<>>, Blank)
  <2>1. Pieces(<<>>) = <<>> /\ Fixed(<<>>) = <<>>
    <3>1. /\ Pieces(<<>>) \in Seq(AnyPiece) /\ Fixed(<<>>) \in Seq(AnyPiece)
          /\ Len(Pieces(<<>>)) = 0 /\ Len(Fixed(<<>>)) = 0
      BY <1>1, PiecesType
    <3> QED BY <3>1, EmptySeq
  <2>2. Together(<<>>) = <<>>
    <3>1. <<>> \in Seq(AnyPiece)
      BY EmptySeq
    <3> QED BY <1>1, <3>1, TogetherIs
  <2>3. Run(<<>>, 0) = {} /\ Cardinality({}) = 0
    BY <1>1, FS_EmptySet DEF Run
  <2>4. Flush(Blank).out = Blank.out
    BY <1>2, FlushIs DEF Blank
  <2> QED BY <1>1, <2>1, <2>2, <2>3, <2>4 DEF Written, Blank
<1> QED BY <1>4, <1>5, <1>6, <1>7 DEF Means

ReadInv == kit \in SUBSET Tokens /\ tokens \in Seq(Tokens) /\ Means(tokens, reader)

(* The reader holds what the tokens read so far mean, and nothing else.    *)
THEOREM TextIsAsMeant == Spec => []ReadAsMeant
<1>1. Init => ReadInv
  <2>1. <<>> \in Seq(Tokens) /\ {} \in SUBSET Tokens
    BY EmptySeq
  <2>2. Kits \subseteq SUBSET Tokens
    BY Inputs
  <2> QED BY <2>1, <2>2, MeansNothing DEF Init, ReadInv
<1>2. TypeInv /\ ReadInv /\ [Next]_vars => ReadInv'
  <2> SUFFICES ASSUME TypeInv, ReadInv, [Next]_vars PROVE ReadInv'
    OBVIOUS
  <2> USE DEF ReadInv
  <2>1. ASSUME NEW t \in kit, Read(t) PROVE ReadInv'
    <3>1. t \in Tokens /\ reader \in Reader
      BY DEF TypeInv
    <3>2. tokens' = Append(tokens, t) /\ reader' = ReadToken(reader, t) /\ kit' = kit
      BY <2>1 DEF Read
    <3>3. Append(tokens, t) \in Seq(Tokens)
      BY <3>1, AppendProperties
    <3>4. Means(Append(tokens, t), ReadToken(reader, t))
      BY <3>1, MeansStep
    <3> QED BY <3>2, <3>3, <3>4
  <2>2. CASE EndOfFile
    <3>1. <<>> \in Seq(Tokens)
      BY EmptySeq
    <3> QED BY <2>2, <3>1, MeansNothing DEF EndOfFile
  <2>3. CASE UNCHANGED reading
    BY <2>3 DEF reading
  <2>4. Chunk => UNCHANGED reading
    BY DEF Chunk
  <2>5. (\E q \in Queries : Search(q)) => UNCHANGED reading
    BY DEF Search
  <2>6. (\E q \in Queries, m \in {"ask", "rerank"} : Ask(q, m)) => UNCHANGED reading
    BY DEF Ask
  <2>7. (\E n \in 0..ListTop : Dense(n)) => UNCHANGED reading
    BY DEF Dense
  <2>8. (Fuse \/ Rerank) => UNCHANGED reading
    BY DEF Fuse, Rerank
  <2>9. UNCHANGED vars => UNCHANGED reading
    BY DEF vars
  <2> QED BY <2>1, <2>2, <2>3, <2>4, <2>5, <2>6, <2>7, <2>8, <2>9 DEF Next
<1>3. ReadInv => ReadAsMeant
  <2>1. ReadInv => Visible(tokens) = Together(Pieces(tokens))
    BY PiecesType DEF ReadInv
  <2> QED BY <2>1 DEF ReadInv, Means, Written, ReadAsMeant
<1> QED BY <1>1, <1>2, <1>3, TypeCorrect, PTL DEF Spec
=============================================================================
