------------------------------ MODULE Chunker ------------------------------
(***************************************************************************)
(* Windows over the text of a document (indexer/chunker.py): full windows  *)
(* end at a line break of their last part when there is one, and each      *)
(* begins before the end of the one before.                                *)
(***************************************************************************)
EXTENDS Integers, Sequences, FiniteSetsExt

CONSTANTS
  Target,        \* TARGET_CHARS
  Overlap,       \* OVERLAP_CHARS
  LastPart           \* how far from its end a window may break

ASSUME WindowsAdvance == /\ Target \in Nat /\ Overlap \in Nat /\ LastPart \in Nat
                         /\ LastPart < Target /\ Overlap < Target - LastPart

VARIABLES
  text,          \* the text of the document, lines joined
  at,            \* where the next window begins; beyond the text when there is none
  chunks         \* the windows so far: from, to

\* The last place a full window that begins at i may end at.
BreakEnd(i) ==
  LET breaks == {b \in (i + Target - LastPart)..(i + Target - 1) : text[b] = "nl"} IN
  IF breaks = {} THEN i + Target - 1 ELSE Max(breaks) - 1

WindowEnd(i) == IF i + Target - 1 > Len(text) THEN Len(text) ELSE BreakEnd(i)

NextAtBug(end) == IF end >= Len(text) THEN Len(text) + 1 ELSE end + 1

\* The overlap carries what the end has cut into the next window.
NextAt(end) ==
  IF end >= Len(text) THEN Len(text) + 1 ELSE Max({1, end + 1 - Overlap})

NextChunk ==
  /\ at <= Len(text)
  /\ chunks' = Append(chunks, [from |-> at, to |-> WindowEnd(at)])
  /\ at' = NextAt(WindowEnd(at))
  /\ UNCHANGED text

\* Every window begins after the one before, so there is a last one; together they
\* reach the end of the text; and whatever is no longer than the overlap stands whole
\* in one of them, wherever the cuts fall (chunker.py:61-88).
Covered ==
  /\ \A k \in 2..Len(chunks) : chunks[k - 1].from < chunks[k].from
  /\ at > Len(text) /\ text # <<>> => chunks # <<>> /\ chunks[Len(chunks)].to = Len(text)
  /\ \A p \in 1..Len(text), n \in 1..Overlap :
       p + n - 1 < at \/ (at > Len(text) /\ p + n - 1 <= Len(text)) =>
         \E k \in DOMAIN chunks : chunks[k].from <= p /\ p + n - 1 <= chunks[k].to
=============================================================================
