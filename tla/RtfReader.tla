----------------------------- MODULE RtfReader -----------------------------
(***************************************************************************)
(* How parsers/rtf_parser.py gets the text out of an RTF file.  A file is  *)
(* a sequence of tokens; what stands for what:                             *)
(*   open, close  { and }                 char   any other character, \\   *)
(*   dest         \* or a destination that is not text (\fonttbl, \info)   *)
(*   byte         \'xx                    pairs  \ansicpg of a code page   *)
(*                                               of two bytes a character  *)
(*   uc0, uc2     \uc0, \uc2              u      \uN                       *)
(*   par          \par (\line and \tab are put the same way)               *)
(*   cell, row    \cell, \row             raw    a line break of the file  *)
(*   word         a control word without a meaning here (\b, \fs)          *)
(*   other        \binN with its data, a control symbol: put nothing       *)
(***************************************************************************)
EXTENDS Integers, Sequences, FiniteSets, SequencesExt

Tokens == {"open", "close", "dest", "char", "byte", "pairs", "uc0", "uc2", "u",
           "par", "cell", "row", "raw", "word", "other"}

Letters == {"a", "b"}
Breaks == {"nl", "par"}
Blanks == Breaks \cup {"gap"}
Symbols == Letters \cup Blanks \cup {"?"}      \* "?": anything else that is seen

\* What an RTF file starts with; "left" is what remains to be skipped of a fallback.
Blank == [out |-> <<>>, stack |-> <<>>, hidden |-> FALSE, skip |-> 1, paired |-> FALSE,
          bytes |-> 0, left |-> 0]

\* A single byte is an "a"; of two bytes that are one character it is a "b".
Decoded(n, paired) ==
  IF paired THEN [k \in 1..n \div 2 |-> "b"] \o [k \in 1..n % 2 |-> "?"]
  ELSE [k \in 1..n |-> "a"]

\* _flush_ansi_bytes.
Flush(r) ==
  [r EXCEPT !.bytes = 0, !.out = IF r.hidden THEN @ ELSE @ \o Decoded(r.bytes, r.paired)]

Put(r, piece) ==
  LET f == Flush(r) IN [f EXCEPT !.out = IF r.hidden THEN @ ELSE Append(@, piece)]

\* \cell and \row repeat no separator.
PutOnce(r, piece) ==
  LET f == Flush(r) IN IF f.out # <<>> /\ Last(f.out) = piece THEN f ELSE Put(r, piece)

CloseBug(r) ==
  IF r.stack = <<>> THEN Flush(r)
  ELSE LET f == Flush(r) IN [f EXCEPT !.stack = Front(@), !.skip = Last(f.stack).skip,
                                      !.paired = Last(f.stack).paired]

\* A group ends: what it hid and how it was encoded ends with it.
Close(r) ==
  IF r.stack = <<>> THEN Flush(r)
  ELSE LET f == Flush(r)
           back == Last(f.stack)
       IN  [f EXCEPT !.stack = Front(@), !.hidden = back.hidden, !.skip = back.skip,
                     !.paired = back.paired]

Open(r) ==
  LET f == Flush(r) IN
  [f EXCEPT !.stack = Append(@, [hidden |-> r.hidden, skip |-> r.skip, paired |-> r.paired])]

Act(r, t) ==
  CASE t = "open" -> Open(r)
    [] t = "close" -> Close(r)
    [] t = "dest" -> [Flush(r) EXCEPT !.hidden = TRUE]
    [] t = "char" -> Put(r, "a")
    [] t = "raw" -> Put(r, "nl")
    [] t = "par" -> Put(r, "par")
    [] t = "cell" -> PutOnce(r, "gap")
    [] t = "row" -> PutOnce(r, "nl")
    [] t = "byte" -> IF r.hidden THEN r ELSE [r EXCEPT !.bytes = @ + 1]
    [] t = "pairs" -> [Flush(r) EXCEPT !.paired = TRUE]
    [] t = "uc0" -> [Flush(r) EXCEPT !.skip = 0]
    [] t = "uc2" -> [Flush(r) EXCEPT !.skip = 2]
    [] t = "u" -> [Put(r, "b") EXCEPT !.left = r.skip]
    [] t = "other" -> Flush(r)
    [] OTHER -> r

\* _skip_unicode_fallback goes on until something structural comes.
Fallback == {"char", "byte", "raw"}

ReadToken(r, t) ==
  IF r.left > 0 /\ t \in Fallback THEN [r EXCEPT !.left = @ - 1]
  ELSE Act([r EXCEPT !.left = 0], t)

\* _split_paragraphs and _flatten: lines without blanks around them, one break in between.
Kept(s) ==
  LET letter(k) == s[k] \notin Blanks
      before(k) == \E j \in 1..(k - 1) : letter(j)
      near(j, k) == letter(j) /\ \A i \in 1..Len(s) :
                      (j < i /\ i < k) \/ (k < i /\ i < j) => s[i] = "gap"
      keep(k) == \/ letter(k)
                 \/ s[k] = "gap" /\ (\E j \in 1..(k - 1) : letter(j) /\ \A i \in j..k : s[i] \notin Breaks)
                                 /\ (\E j \in (k + 1)..Len(s) : letter(j) /\ \A i \in k..j : s[i] \notin Breaks)
                 \/ s[k] \in Breaks /\ before(k) /\ \E j \in (k + 1)..Len(s) : near(j, k)
  IN  {k \in 1..Len(s) : keep(k)}

Tidy(s) ==
  LET nth(i) == CHOOSE k \in Kept(s) : Cardinality({j \in Kept(s) : j < k}) = i - 1
      piece(k) == IF s[k] \in Breaks THEN "nl" ELSE s[k]
  IN  [i \in 1..Cardinality(Kept(s)) |-> piece(nth(i))]

(***************************************************************************)
(* What the tokens mean, by their structure                                *)
(***************************************************************************)
\* How deep in groups the file is after k tokens; a group nobody opened does not end.
Depth(ts) ==
  LET d[k \in 0..Len(ts)] ==
        IF k = 0 THEN 0
        ELSE CASE ts[k] = "open" -> d[k - 1] + 1
               [] ts[k] = "close" /\ d[k - 1] > 0 -> d[k - 1] - 1
               [] OTHER -> d[k - 1]
  IN  d

\* What is said at m still holds at k: the group it was said in is still open.
InForce(ts, m, k) == m < k /\ LET d == Depth(ts) IN \A j \in m..(k - 1) : d[j] >= d[m]

SaidLast(ts, words, k) ==
  LET ms == {m \in 1..(k - 1) : ts[m] \in words /\ InForce(ts, m, k)} IN
  IF ms = {} THEN "nothing" ELSE ts[CHOOSE m \in ms : \A n \in ms : n <= m]

HiddenAt(ts, k) == SaidLast(ts, {"dest"}, k) = "dest"

\* How many tokens stand for a \u character at k where it cannot be shown.
SkipAt(ts, k) ==
  CASE SaidLast(ts, {"uc0", "uc2"}, k) = "uc0" -> 0
    [] SaidLast(ts, {"uc0", "uc2"}, k) = "uc2" -> 2
    [] OTHER -> 1

PairedAt(ts, k) == SaidLast(ts, {"pairs"}, k) = "pairs"

\* k is one of the tokens that stand for a \u character.
IsFallback(ts, k) ==
  \E j \in 1..(k - 1) : /\ ts[j] = "u" /\ \A i \in (j + 1)..k : ts[i] \in Fallback
                       /\ k - j <= SkipAt(ts, j)

\* The byte tokens that are read together with the one at k, up to it.
Run(ts, k) ==
  {j \in 1..k : ts[j] = "byte" /\ ~IsFallback(ts, j) /\ \A i \in j..k : ts[i] \in {"byte", "word"}}

Piece(ts, k) ==
  IF HiddenAt(ts, k) \/ IsFallback(ts, k) THEN <<>>
  ELSE CASE ts[k] = "char" -> <<"a">>
         [] ts[k] = "u" -> <<"b">>
         [] ts[k] = "raw" -> <<"nl">>
         [] ts[k] = "par" -> <<"par">>
         [] ts[k] = "cell" -> <<"cell">>
         [] ts[k] = "row" -> <<"row">>
         [] ts[k] = "byte" /\ ~(\E j \in (k + 1)..Len(ts) : k \in Run(ts, j) /\ ts[j] = "byte") ->
              Decoded(Cardinality(Run(ts, k)), PairedAt(ts, k))
         [] OTHER -> <<>>

\* The end of a cell or row is a separator, where there is none yet.
Joined(s, piece) ==
  LET once(x) == IF s # <<>> /\ Last(s) = x THEN s ELSE Append(s, x) IN
  CASE piece = <<"cell">> -> once("gap")
    [] piece = <<"row">> -> once("nl")
    [] OTHER -> s \o piece

Together(pieces) ==
  LET s[k \in 0..Len(pieces)] == IF k = 0 THEN <<>> ELSE Joined(s[k - 1], pieces[k])
  IN  s[Len(pieces)]

\* The text a reader of the file sees.
Visible(ts) == Together([k \in 1..Len(ts) |-> Piece(ts, k)])
=============================================================================
