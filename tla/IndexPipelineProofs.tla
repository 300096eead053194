------------------------ MODULE IndexPipelineProofs ------------------------
(***************************************************************************)
(* Theorems about the content index, for every set of paths and texts,     *)
(* every bound and every kind of trouble.                                  *)
(***************************************************************************)
EXTENDS IndexPipeline, TLAPS

(* index_file has chosen the doc_id of the file.                           *)
Named == \/ pc \in {"tooLarge", "upsertEmpty", "parse", "clone", "clear", "chunk",
                    "fts", "enqueue"}
         \/ pc = "drop" /\ then \in {"upsertEmpty", "parse"}

(* index_file handles an event whenever it is not idle, writes under a name *)
(* it has chosen, and copies chunks only for a duplicate.                  *)
Handling == /\ pc # "idle" => ev \in Event
            /\ Named => id \in DocId
            /\ pc = "clone" => id.kind = "dup"

(* documents.source_path is UNIQUE.                                        *)
OneOwner == \A d, e \in DocId :
              meta[d].path = meta[e].path /\ meta[d].path \in Path => d = e

(* What index_file read as existing is still all there is at the path.     *)
KnownOwner == pc \in {"hash", "hashEmpty"} =>
                \A d \in DocId : meta[d].path = ev.path => d = old

TypeInv == TypeOK /\ Handling

UniqueInv == TypeInv /\ OneOwner /\ KnownOwner /\ NoUniqueClash

-----------------------------------------------------------------------------
(* Names of documents.                                                     *)

(* Every name index_file makes for a file is the name of a document, and   *)
(* "no document" is the name of none.                                      *)
LEMMA DocIds ==
  /\ NoId \notin DocId
  /\ \A c \in Text : Sha(c) \in DocId
  /\ \A c \in Text, p \in Path : Dup(c, p) \in DocId
  /\ \A p \in Path : Skip(p) \in DocId
  /\ \A d \in DocId : d.kind \in {"sha", "dup"} => d.text \in Text
<1>1. NoId \notin DocId
  <2>1. \A d \in DocId : d.kind \in {"sha", "dup", "skip"}
    BY DEF DocId, Sha, Dup, Skip
  <2>2. NoId.kind = "none"
    BY DEF NoId
  <2> QED BY <2>1, <2>2
<1>2. \A c \in Text : Sha(c) \in DocId
  BY DEF DocId
<1>3. \A c \in Text, p \in Path : Dup(c, p) \in DocId
  <2> SUFFICES ASSUME NEW c \in Text, NEW p \in Path
               PROVE  Dup(c, p) \in {Dup(x, y) : x \in Text, y \in Path}
    BY DEF DocId
  <2> QED BY DEF Dup
<1>4. \A p \in Path : Skip(p) \in DocId
  BY DEF DocId
<1>5. \A d \in DocId : d.kind \in {"sha", "dup"} => d.text \in Text
  BY DEF DocId, Sha, Dup, Skip
<1> QED BY <1>1, <1>2, <1>3, <1>4, <1>5

(* The name _doc_id_for chooses is the name of a document.                 *)
LEMMA DocIdForType ==
  ASSUME NEW p \in Path, NEW c \in Text, NEW mine \in DocId \cup {NoId}
  PROVE  DocIdFor(p, c, mine) \in DocId
<1>1. CASE Names(mine, c)
  <2>1. mine.kind # "none"
    BY <1>1 DEF Names
  <2>2. NoId.kind = "none"
    BY DEF NoId
  <2> QED BY <1>1, <2>1, <2>2 DEF DocIdFor
<1>2. CASE ~Names(mine, c)
  BY <1>2, DocIds DEF DocIdFor
<1> QED BY <1>1, <1>2

(* get_document_by_path returns a document with the path, or none.         *)
LEMMA DocAtIs ==
  ASSUME NEW p
  PROVE  /\ DocAt(p) \in DocId \cup {NoId}
         /\ DocAt(p) # NoId => meta[DocAt(p)].path = p
         /\ DocAt(p) = NoId => \A d \in DocId : meta[d].path # p
<1>1. CASE \E d \in DocId : meta[d].path = p
  <2>1. DocAt(p) = CHOOSE d \in DocId : meta[d].path = p
    BY <1>1 DEF DocAt
  <2>2. DocAt(p) \in DocId /\ meta[DocAt(p)].path = p
    BY <1>1, <2>1
  <2> QED BY <2>2, DocIds
<1>2. CASE ~ \E d \in DocId : meta[d].path = p
  BY <1>2 DEF DocAt
<1> QED BY <1>1, <1>2

(* With one owner a path, that document is the only one.                   *)
LEMMA DocAtOwner ==
  ASSUME OneOwner, NEW p \in Path, NEW d \in DocId, meta[d].path = p
  PROVE  d = DocAt(p)
BY DocAtIs DEF OneOwner

-----------------------------------------------------------------------------
(* Type correctness.                                                       *)

LEMMA TypeInit == Init => TypeInv
<1> SUFFICES ASSUME Init PROVE TypeInv
  OBVIOUS
<1> USE DEF Init
<1>1. WorldOK
  BY DEF WorldOK, File, Gone
<1>2. LocalsOK
  BY DEF LocalsOK, Labels
<1>3. StoresOK
  <2>1. NoRow \in Row
    BY DEF NoRow, Row
  <2> QED BY <2>1 DEF StoresOK
<1>4. CountsOK
  BY DEF CountsOK
<1>5. Handling
  BY DEF Handling, Named
<1>6. MarksOK
  BY DEF MarksOK
<1> QED BY <1>1, <1>2, <1>3, <1>4, <1>5, <1>6 DEF TypeInv, TypeOK

(* What a step leaves alone keeps its type.                                *)
LEMMA Frames ==
  ASSUME TypeInv
  PROVE  /\ UNCHANGED <<pc, locals>> => LocalsOK' /\ Handling'
         /\ UNCHANGED stores => StoresOK'
         /\ UNCHANGED counts => CountsOK'
         /\ UNCHANGED marks => MarksOK'
         /\ UNCHANGED <<fs, ops, held, raw, queue, toScan, up>> => WorldOK'
         /\ Finish => LocalsOK' /\ Handling'
<1> USE DEF TypeInv, TypeOK
<1>1. UNCHANGED <<pc, locals>> => LocalsOK' /\ Handling'
  BY DEF LocalsOK, Handling, Named, locals
<1>2. UNCHANGED stores => StoresOK'
  BY DEF StoresOK, stores
<1>3. UNCHANGED counts => CountsOK'
  BY DEF CountsOK, counts
<1>4. UNCHANGED <<fs, ops, held, raw, queue, toScan, up>> => WorldOK'
  BY DEF WorldOK
<1>5. Finish => LocalsOK' /\ Handling'
  BY DEF Finish, LocalsOK, Handling, Named, Labels
<1>6. UNCHANGED marks => MarksOK'
  BY DEF MarksOK, marks
<1> QED BY <1>1, <1>2, <1>3, <1>4, <1>5, <1>6

(* A step of the user.                                                     *)
LEMMA TypeUser == TypeInv /\ User => TypeInv'
<1> SUFFICES ASSUME TypeInv, User PROVE TypeInv'
  OBVIOUS
<1>1. Change /\ WorldOK
  BY DEF User, Write, Remove, Move, TypeInv, TypeOK
<1>2. ASSUME NEW p \in Path, NEW q \in Path \cup {Nil},
             NEW change \in {"created", "modified", "deleted", "moved"},
             Notify(change, p, q), change = "moved" => q \in Path
      PROVE  raw' \in Seq(Raw)
  <2>1. [change |-> change, path |-> p, prev |-> q] \in Raw
    BY <1>2 DEF Raw
  <2> QED BY <1>1, <1>2, <2>1 DEF Notify, WorldOK
<1>3. raw' \in Seq(Raw) /\ fs' \in [Path -> File] /\ held' \in [Text -> SUBSET Path]
  <2>1. ASSUME NEW p \in Path, NEW c \in Text, Write(p, c) PROVE <1>3!:
    <3>1. raw' \in Seq(Raw)
      BY <1>2, <2>1 DEF Write
    <3>2. [text |-> c, stamp |-> ops + 1] \in File
      BY <1>1 DEF WorldOK, File
    <3> QED BY <1>1, <2>1, <3>1, <3>2 DEF Write, WorldOK
  <2>2. ASSUME NEW p \in Path, Remove(p) PROVE <1>3!:
    <3>1. raw' \in Seq(Raw)
      BY <1>2, <2>2 DEF Remove
    <3>2. Gone \in File
      BY DEF Gone, File
    <3> QED BY <1>1, <2>2, <3>1, <3>2 DEF Remove, WorldOK
  <2>3. ASSUME NEW p \in Path, NEW q \in Path, Move(p, q) PROVE <1>3!:
    <3>1. raw' \in Seq(Raw)
      BY <1>2, <2>3 DEF Move
    <3>2. Gone \in File
      BY DEF Gone, File
    <3> QED BY <1>1, <2>3, <3>1, <3>2 DEF Move, WorldOK
  <2> QED BY <2>1, <2>2, <2>3 DEF User
<1>4. WorldOK'
  BY <1>1, <1>3 DEF WorldOK, Change
<1>5. MarksOK'
  <2>1. UNCHANGED <<lastSeen, missed>> /\ stranded' \subseteq stranded /\ outrun' \in BOOLEAN
    BY DEF User, Write, Remove, Move, Change, Appears, TypeInv, TypeOK, MarksOK
  <2> QED BY <2>1 DEF TypeInv, TypeOK, MarksOK
<1> QED BY <1>1, <1>4, <1>5, Frames DEF Change, TypeInv, TypeOK

(* A step of the watcher or of the catch-up scan.                          *)
LEMMA TypeCollector == TypeInv /\ (Notice \/ \E p \in Path : Scan(p)) => TypeInv'
<1> SUFFICES ASSUME TypeInv, Notice \/ \E p \in Path : Scan(p) PROVE TypeInv'
  OBVIOUS
<1>1. WorldOK
  BY DEF TypeInv, TypeOK
<1>2. \A p \in Path : fs[p].stamp \in Nat
  BY <1>1 DEF WorldOK, File
<1>3. CASE Notice
  <2>1. Head(raw) \in Raw /\ raw' \in Seq(Raw)
    BY <1>1, <1>3 DEF Notice, WorldOK
  <2>2. Head(raw).path \in Path
    BY <2>1 DEF Raw
  <2>3. Event4("deleted", Head(raw).path, Nil, 0) \in Event
    BY <2>2 DEF Event4, Event
  <2>4. Event4(Head(raw).change, Head(raw).path, Head(raw).prev,
               fs[Head(raw).path].stamp) \in Event
    BY <1>2, <2>1, <2>2 DEF Event4, Event, Raw
  <2>5. queue' \in Seq(Event)
    BY <1>1, <1>3, <2>3, <2>4 DEF Notice, WorldOK
  <2>6. WorldOK'
    BY <1>1, <1>3, <2>1, <2>5 DEF Notice, WorldOK
  <2>7. stranded' \subseteq stranded \cup {Head(raw).prev}
        /\ (stranded' # stranded => Head(raw).prev \in Path)
        /\ UNCHANGED <<lastSeen, missed, outrun>>
    <3>1. Head(raw).prev \in Path \cup {Nil} /\ (Head(raw).change = "moved" => Head(raw).prev \in Path)
      BY <1>1, <2>1 DEF Raw
    <3> QED BY <1>3, <3>1 DEF Notice
  <2>8. MarksOK'
    BY <2>7 DEF MarksOK, TypeInv, TypeOK
  <2> QED BY <1>3, <2>6, <2>8, Frames DEF Notice, TypeInv, TypeOK
<1>4. ASSUME NEW p \in Path, Scan(p) PROVE TypeInv'
  <2>1. Event4("created", p, Nil, fs[p].stamp) \in Event
    BY <1>2 DEF Event4, Event
  <2>2. queue' \in Seq(Event)
    BY <1>1, <1>4, <2>1 DEF Scan, WorldOK
  <2>3. WorldOK'
    BY <1>1, <1>4, <2>2 DEF Scan, WorldOK
  <2> QED BY <1>4, <2>3, Frames DEF Scan, TypeInv, TypeOK
<1> QED BY <1>3, <1>4

(* What the steps of index_file leave alone.                               *)
LEMMA WorkerFrame ==
  Worker => /\ UNCHANGED <<fs, ops, held, raw, toScan, up, counts>>
            /\ UNCHANGED <<outrun, stranded>>
            /\ Take \/ Debounce \/ UNCHANGED <<queue, marks>>
<1> SUFFICES ASSUME Worker
             PROVE  /\ UNCHANGED <<fs, ops, held, raw, toScan, up, counts>>
                    /\ UNCHANGED <<outrun, stranded>>
                    /\ Take \/ Debounce \/ UNCHANGED <<queue, marks>>
  OBVIOUS
<1> QED
  BY DEF Worker, outside, marks, Take, Debounce, Purge, Drop, Rename, Moved, Stat, TooLarge, Hash,
         UpsertEmpty, Reuse, Clone, Parse, Clear, ReplaceChunks, FtsUpsert, EnqueueJobs

(* Writing or deleting a row of the documents table keeps its type.        *)
LEMMA RowsOK ==
  ASSUME TypeInv
  PROVE  /\ \A d \in DocId : DeleteRow(d) => /\ meta' \in [DocId -> Row]
                                             /\ chunks' \in [DocId -> SUBSET Chunk]
         /\ \A d \in DocId, p \in Path, s \in Nat, ok \in BOOLEAN :
              Upsert(d, p, s, ok) => meta' \in [DocId -> Row]
<1>1. StoresOK
  BY DEF TypeInv, TypeOK
<1>2. NoRow \in Row
  BY DEF NoRow, Row
<1>3. ASSUME NEW d \in DocId, NEW p \in Path, NEW s \in Nat, NEW ok \in BOOLEAN,
             Upsert(d, p, s, ok)
      PROVE  meta' \in [DocId -> Row]
  <2>1. [path |-> p, stamp |-> s, ok |-> ok] \in Row
    BY DEF Row
  <2> QED BY <1>1, <1>3, <2>1 DEF Upsert, StoresOK
<1>4. ASSUME NEW d \in DocId, DeleteRow(d)
      PROVE  meta' \in [DocId -> Row] /\ chunks' \in [DocId -> SUBSET Chunk]
  BY <1>1, <1>2, <1>4 DEF DeleteRow, StoresOK
<1> QED BY <1>3, <1>4

(* A step of index_file: what it keeps in its locals and writes to the     *)
(* stores has the type it should.                                          *)
LEMMA TypeWorker ==
  TypeInv /\ Worker => LocalsOK' /\ Handling' /\ StoresOK'
<1> SUFFICES ASSUME TypeInv, Worker
             PROVE  LocalsOK' /\ Handling' /\ StoresOK'
  OBVIOUS
<1>1. WorldOK /\ LocalsOK /\ StoresOK /\ Handling
  BY DEF TypeInv, TypeOK
<1>2. ASSUME pc # "idle"
      PROVE  /\ ev \in Event /\ ev.path \in Path /\ ev.stamp \in Nat
             /\ fs[ev.path].stamp \in Nat /\ fs[ev.path].text \in Text \cup {Nil}
  BY <1>1, <1>2 DEF Handling, Event, WorldOK, File
<1>3. UNCHANGED stores => StoresOK'
  BY Frames
<1>4. Finish => LocalsOK' /\ Handling'
  BY Frames
<1>5. CASE Take
  <2>1. Head(queue) \in Event
    BY <1>1, <1>5 DEF Take, WorldOK
  <2>2. pc' \in {"purge", "move", "stat"}
    BY <1>5 DEF Take, Goto
  <2>3. LocalsOK' /\ Handling'
    BY <1>1, <1>5, <2>1, <2>2 DEF Take, LocalsOK, Handling, Named, Labels
  <2> QED BY <1>3, <1>5, <2>1, <2>3 DEF Take
<1>6. CASE Purge
  <2>1. CASE DocAt(ev.path) = NoId
    BY <1>3, <1>4, <1>6, <2>1 DEF Purge
  <2>2. CASE DocAt(ev.path) # NoId
    <3>1. DocAt(ev.path) \in DocId
      BY <2>2, DocAtIs
    <3>2. StoresOK'
      BY <1>1, <1>6, <2>2, <3>1, RowsOK DEF Purge, StoresOK
    <3>3. LocalsOK' /\ Handling'
      BY <1>1, <1>6, <2>2, <3>1
         DEF Purge, At, DropThen, LocalsOK, Handling, Named, Labels
    <3> QED BY <3>2, <3>3
  <2> QED BY <2>1, <2>2
<1>7. CASE Drop
  <2>1. StoresOK'
    BY <1>1, <1>7 DEF Drop, StoresOK
  <2>2. CASE then = "idle"
    BY <1>4, <1>7, <2>1, <2>2 DEF Drop
  <2>3. CASE then # "idle"
    BY <1>1, <1>7, <2>1, <2>3 DEF Drop, At, Goto, LocalsOK, Handling, Named, Labels
  <2> QED BY <2>2, <2>3
<1>8. CASE Rename
  <2> DEFINE d == DocAt(ev.prev)
             e == DocAt(ev.path)
  <2>1. CASE d = NoId
    BY <1>1, <1>3, <1>8, <2>1 DEF Rename, At, Goto, LocalsOK, Handling, Named, Labels
  <2>2. CASE d # NoId
    <3>1. d \in DocId /\ e \in DocId \cup {NoId}
      BY <2>2, DocAtIs
    <3>2. meta' \in [DocId -> Row]
      <4>1. NoRow \in Row
        BY DEF NoRow, Row
      <4>2. [meta[d] EXCEPT !.path = ev.path] \in Row
        BY <1>1, <1>2, <1>8, <3>1 DEF StoresOK, Row, Rename, At
      <4> HIDE DEF d, e
      <4>3. meta' = [x \in DocId |->
                       IF x = d THEN [meta[d] EXCEPT !.path = ev.path]
                       ELSE IF x = e THEN NoRow ELSE meta[x]]
        BY <1>8, <2>2 DEF Rename, d, e
      <4> QED BY <1>1, <4>1, <4>2, <4>3 DEF StoresOK
    <3>3. StoresOK'
      BY <1>1, <1>8, <2>2, <3>2 DEF Rename, StoresOK
    <3>4. LocalsOK' /\ Handling'
      <4>1. CASE e \in {NoId, d}
        BY <1>1, <1>8, <2>2, <3>1, <4>1
           DEF Rename, At, Goto, LocalsOK, Handling, Named, Labels
      <4>2. CASE e \notin {NoId, d}
        BY <1>1, <1>8, <2>2, <3>1, <4>2
           DEF Rename, At, DropThen, LocalsOK, Handling, Named, Labels
      <4> QED BY <4>1, <4>2
    <3> QED BY <3>3, <3>4
  <2> QED BY <2>1, <2>2
<1>9. CASE Moved
  <2>1. CASE pc' = "idle"
    BY <1>3, <1>4, <1>9, <2>1 DEF Moved, Goto
  <2>2. CASE pc' # "idle"
    BY <1>1, <1>3, <1>9, <2>2
       DEF Moved, At, Goto, Finish, LocalsOK, Handling, Named, Labels
  <2> QED BY <2>1, <2>2
<1>10. CASE Stat
  <2>1. DocAt(ev.path) \in DocId \cup {NoId}
    BY DocAtIs
  <2>2. Skip(ev.path) \in DocId
    BY <1>2, <1>10, DocIds DEF Stat, At
  <2>3. LocalsOK' /\ Handling'
    BY <1>1, <1>2, <1>4, <1>10, <2>1, <2>2
       DEF Stat, At, Goto, LocalsOK, Handling, Named, Labels
  <2> QED BY <1>3, <1>10, <2>3 DEF Stat
<1>11. CASE TooLarge
  <2>1. id \in DocId /\ seen \in Nat
    BY <1>1, <1>11 DEF TooLarge, At, Handling, Named, LocalsOK
  <2>2. meta' \in [DocId -> Row]
    BY <1>1, <1>2, <1>11, <2>1, RowsOK DEF TooLarge, At, StoresOK
  <2>3. StoresOK'
    BY <1>1, <1>11, <2>2 DEF TooLarge, StoresOK
  <2>4. LocalsOK' /\ Handling'
    BY <1>1, <1>4, <1>11
       DEF TooLarge, At, Goto, LocalsOK, Handling, Named, Labels, locals
  <2> QED BY <2>3, <2>4
<1>12. ASSUME NEW label \in {"hash", "hashEmpty"}, NEW next \in {"parse", "upsertEmpty"},
              Hash(label, next)
       PROVE  LocalsOK' /\ Handling' /\ StoresOK'
  <2> DEFINE d == DocIdFor(ev.path, fs[ev.path].text, old)
  <2>1. CASE ~Exists(ev.path)
    BY <1>3, <1>4, <1>12, <2>1 DEF Hash
  <2>2. CASE Exists(ev.path)
    <3>1. d \in DocId
      BY <1>1, <1>2, <1>12, <2>2, DocIdForType DEF Hash, At, Exists, LocalsOK
    <3> HIDE DEF d
    <3>2. CASE old \in {NoId, d}
      BY <1>1, <1>3, <1>12, <2>2, <3>1, <3>2
         DEF Hash, d, At, Goto, LocalsOK, Handling, Named, Labels
    <3>3. CASE old \notin {NoId, d}
      <4>1. old \in DocId
        BY <1>1, <3>3 DEF LocalsOK
      <4>2. StoresOK'
        BY <1>1, <1>12, <2>2, <3>3, <4>1, RowsOK DEF Hash, d, StoresOK
      <4>3. LocalsOK' /\ Handling'
        BY <1>1, <1>12, <2>2, <3>1, <3>3, <4>1
           DEF Hash, d, At, DropThen, LocalsOK, Handling, Named, Labels
      <4> QED BY <4>2, <4>3
    <3> QED BY <3>2, <3>3
  <2> QED BY <2>1, <2>2
<1>13. CASE UpsertEmpty
  <2>1. id \in DocId
    BY <1>1, <1>13 DEF UpsertEmpty, At, Handling, Named
  <2>2. meta' \in [DocId -> Row]
    BY <1>1, <1>2, <1>13, <2>1, RowsOK DEF UpsertEmpty, At, StoresOK
  <2> QED BY <1>1, <1>4, <1>13, <2>2 DEF UpsertEmpty, StoresOK
<1>14. CASE Reuse
  <2>1. id \in DocId /\ id.kind = "dup" /\ seen \in Nat
    BY <1>1, <1>14 DEF Reuse, Reusable, At, Handling, Named, LocalsOK
  <2>2. meta' \in [DocId -> Row]
    BY <1>1, <1>2, <1>14, <2>1, RowsOK DEF Reuse, At, StoresOK
  <2>3. LocalsOK' /\ Handling'
    BY <1>1, <1>4, <1>14, <2>1
       DEF Reuse, At, Goto, LocalsOK, Handling, Named, Labels, locals
  <2> QED BY <1>1, <1>14, <2>2, <2>3 DEF Reuse, StoresOK
<1>15. CASE Clone
  <2>1. Canonical \in DocId
    BY <1>1, <1>15, DocIds DEF Clone, At, Handling, Named, Canonical
  <2>2. got' \subseteq Chunk
    BY <1>1, <1>15, <2>1 DEF Clone, StoresOK
  <2>3. LocalsOK' /\ Handling'
    BY <1>1, <1>15, <2>2 DEF Clone, At, Goto, LocalsOK, Handling, Named, Labels
  <2> QED BY <1>3, <1>15, <2>3 DEF Clone
<1>16. ASSUME NEW o \in {"ok", "stub", "failed"}, Parse(o)
       PROVE  LocalsOK' /\ Handling' /\ StoresOK'
  <2>1. id \in DocId
    BY <1>1, <1>16 DEF Parse, At, Handling, Named
  <2>2. meta' \in [DocId -> Row]
    BY <1>1, <1>2, <1>16, <2>1, RowsOK DEF Parse, At, StoresOK
  <2>3. o = "ok" => Exists(ev.path)
    BY <1>16 DEF Parse, Parsed
  <2>4. \A c \in Text : Pieces(c) \subseteq Chunk
    BY Universe DEF Pieces, Chunk
  <2>5. o = "ok" => Pieces(fs[ev.path].text) \subseteq Chunk
    BY <1>2, <1>16, <2>3, <2>4 DEF Parse, At, Exists
  <2>6. LocalsOK' /\ Handling'
    <3>1. CASE Clash(id, ev.path)
      BY <1>4, <1>16, <3>1 DEF Parse
    <3>2. CASE ~Clash(id, ev.path)
      <4>1. got' \subseteq Chunk
        BY <1>16, <2>5, <3>2 DEF Parse
      <4> QED BY <1>1, <1>16, <2>1, <3>2, <4>1
              DEF Parse, At, Goto, LocalsOK, Handling, Named, Labels
    <3> QED BY <3>1, <3>2
  <2> QED BY <1>1, <1>16, <2>2, <2>6 DEF Parse, StoresOK
<1>17. CASE Clear
  <2>1. id \in DocId
    BY <1>1, <1>17 DEF Clear, At, Handling, Named
  <2>2. StoresOK'
    BY <1>1, <1>17, <2>1 DEF Clear, StoresOK
  <2>3. LocalsOK' /\ Handling'
    BY <1>1, <1>17, <2>1 DEF Clear, At, DropThen, LocalsOK, Handling, Named, Labels
  <2> QED BY <2>2, <2>3
<1>18. CASE ReplaceChunks
  <2>1. StoresOK'
    BY <1>1, <1>18 DEF ReplaceChunks, StoresOK, LocalsOK
  <2>2. LocalsOK' /\ Handling'
    BY <1>1, <1>4, <1>18
       DEF ReplaceChunks, At, Goto, LocalsOK, Handling, Named, Labels, locals
  <2> QED BY <2>1, <2>2
<1>19. CASE FtsUpsert
  <2>1. StoresOK'
    BY <1>1, <1>19 DEF FtsUpsert, StoresOK, LocalsOK
  <2>2. LocalsOK' /\ Handling'
    BY <1>1, <1>19 DEF FtsUpsert, At, Goto, LocalsOK, Handling, Named, Labels, locals
  <2> QED BY <2>1, <2>2
<1>20. CASE EnqueueJobs
  <2>1. id \in DocId
    BY <1>1, <1>20 DEF EnqueueJobs, At, Handling, Named
  <2> QED BY <1>1, <1>4, <1>20, <2>1 DEF EnqueueJobs, StoresOK
<1>21. CASE Debounce
  BY <1>21, Frames DEF Debounce
<1> QED BY <1>5, <1>6, <1>7, <1>8, <1>9, <1>10, <1>11, <1>12, <1>13, <1>14, <1>15, <1>16,
           <1>17, <1>18, <1>19, <1>20, <1>21 DEF Worker

(* A step of the RPC thread, an exception, a crash or a restart.           *)
LEMMA TypeTrouble ==
  TypeInv /\ ((\E d \in DocId : Forget(d)) \/ ForgetRows \/ Fail \/ Crash \/ Restart)
    => TypeInv'
<1> SUFFICES ASSUME TypeInv,
                    (\E d \in DocId : Forget(d)) \/ ForgetRows \/ Fail \/ Crash \/ Restart
             PROVE  TypeInv'
  OBVIOUS
<1>1. WorldOK /\ LocalsOK /\ StoresOK /\ CountsOK /\ Handling
  BY DEF TypeInv, TypeOK
<1>2. ASSUME NEW d \in DocId, Forget(d) PROVE TypeInv'
  <2>1. StoresOK'
    BY <1>1, <1>2, RowsOK DEF Forget, StoresOK
  <2>2. CountsOK'
    BY <1>1, <1>2 DEF Forget, CountsOK
  <2> QED BY <1>2, <2>1, <2>2, Frames DEF Forget, events, marks, TypeInv, TypeOK
<1>3. CASE ForgetRows
  <2>1. StoresOK' /\ CountsOK'
    BY <1>1, <1>3 DEF ForgetRows, StoresOK, CountsOK
  <2> QED BY <1>3, <2>1, Frames DEF ForgetRows, events, marks, TypeInv, TypeOK
<1>4. CASE Fail
  <2>1. CountsOK'
    BY <1>1, <1>4 DEF Fail, CountsOK
  <2> QED BY <1>4, <2>1, Frames DEF Fail, events, marks, TypeInv, TypeOK
<1>5. CASE Crash
  <2>1. WorldOK'
    <3>1. /\ fs' = fs /\ ops' = ops /\ held' = held /\ up' = FALSE
          /\ raw' = <<>> /\ queue' = <<>> /\ toScan' = {}
      BY <1>5 DEF Crash
    <3>2. raw' \in Seq(Raw) /\ queue' \in Seq(Event)
      BY <3>1
    <3> QED BY <1>1, <3>1, <3>2 DEF WorldOK
  <2>2. CountsOK'
    BY <1>1, <1>5 DEF Crash, CountsOK
  <2>3. MarksOK'
    BY <1>5 DEF Crash, MarksOK, TypeInv, TypeOK
  <2> QED BY <1>5, <2>1, <2>2, <2>3, Frames DEF Crash, TypeInv, TypeOK
<1>6. CASE Restart
  <2>1. WorldOK'
    BY <1>1, <1>6 DEF Restart, WorldOK
  <2> QED BY <1>6, <2>1, Frames DEF Restart, marks, TypeInv, TypeOK
<1> QED BY <1>2, <1>3, <1>4, <1>5, <1>6

LEMMA TypeStep == TypeInv /\ [Next]_vars => TypeInv'
<1> SUFFICES ASSUME TypeInv, [Next]_vars PROVE TypeInv'
  OBVIOUS
<1>1. CASE Worker
  <2>1. UNCHANGED <<fs, ops, held, raw, toScan, up, counts>>
    BY <1>1, WorkerFrame
  <2>2. queue' \in Seq(Event)
    <3>1. queue \in Seq(Event)
      BY DEF TypeInv, TypeOK, WorldOK
    <3>2. CASE Take \/ Debounce
      BY <3>1, <3>2 DEF Take, Debounce
    <3>3. CASE UNCHANGED queue
      BY <3>1, <3>3
    <3> QED BY <1>1, <3>2, <3>3, WorkerFrame
  <2>3. WorldOK' /\ CountsOK'
    BY <2>1, <2>2, Frames DEF TypeInv, TypeOK, WorldOK
  <2>4. MarksOK'
    <3>1. CASE Take \/ Debounce
      <4>1. Head(queue) \in Event
        BY <3>1 DEF Take, Debounce, TypeInv, TypeOK, WorldOK
      <4>2. Head(queue).path \in Path
        BY <4>1 DEF Event
      <4> QED BY <3>1, <4>2 DEF Take, Debounce, MarksOK, TypeInv, TypeOK
    <3> QED BY <1>1, <3>1, WorkerFrame, Frames
  <2> QED BY <1>1, <2>3, <2>4, TypeWorker DEF TypeInv, TypeOK
<1>2. CASE UNCHANGED vars
  BY <1>2, Frames DEF vars, TypeInv, TypeOK
<1> QED BY <1>1, <1>2, TypeUser, TypeCollector, TypeTrouble DEF Next

(* Every variable always holds a value the code can give it.               *)
THEOREM TypeCorrect == Spec => []TypeOK
<1>1. TypeInv => TypeOK
  BY DEF TypeInv
<1> QED BY <1>1, TypeInit, TypeStep, PTL DEF Spec

-----------------------------------------------------------------------------
(* The UNIQUE constraint on documents.source_path.                         *)

LEMMA UniqueInit == Init => UniqueInv
<1> SUFFICES ASSUME Init PROVE UniqueInv
  OBVIOUS
<1>1. OneOwner
  BY Universe DEF Init, OneOwner, NoRow
<1>2. KnownOwner /\ NoUniqueClash
  BY DEF Init, KnownOwner, NoUniqueClash, Writing
<1> QED BY <1>1, <1>2, TypeInit DEF UniqueInv

(* Deleting rows and touching nothing else of index_file breaks nothing.   *)
LEMMA FewerRows ==
  ASSUME UniqueInv, UNCHANGED <<pc, locals>>,
         \A d \in DocId : meta'[d].path \in {Nil, meta[d].path}
  PROVE  OneOwner' /\ KnownOwner' /\ NoUniqueClash'
<1>1. OneOwner'
  BY Universe DEF UniqueInv, OneOwner
<1>2. pc # "idle" => ev.path \in Path
  BY DEF UniqueInv, TypeInv, Handling, Event
<1>3. KnownOwner'
  BY <1>2, Universe DEF UniqueInv, KnownOwner, locals
<1>4. Clash(id, ev.path)' /\ Writing => Clash(id, ev.path)
  BY <1>2, Universe DEF Clash, Writing, locals
<1>5. NoUniqueClash'
  BY <1>4 DEF UniqueInv, NoUniqueClash, Writing, locals
<1> QED BY <1>1, <1>3, <1>5

(* A row written where there was no clash leaves one owner a path.         *)
LEMMA OwnersAfterUpsert ==
  ASSUME UniqueInv, NEW d \in DocId, NEW p \in Path, NEW s, NEW ok,
         ~Clash(d, p), Upsert(d, p, s, ok)
  PROVE  OneOwner'
<1>1. \A e \in DocId : e # d => meta'[e] = meta[e] /\ meta[e].path # p
  BY DEF Upsert, Clash, UniqueInv, TypeInv, TypeOK, StoresOK
<1>2. meta'[d].path = p
  BY DEF Upsert, UniqueInv, TypeInv, TypeOK, StoresOK
<1> QED BY <1>1, <1>2 DEF UniqueInv, OneOwner

(* Rows deleted by DeleteRow.                                              *)
LEMMA OwnersAfterDelete ==
  ASSUME UniqueInv, NEW d \in DocId, DeleteRow(d)
  PROVE  /\ OneOwner'
         /\ meta'[d].path = Nil
         /\ \A e \in DocId : meta'[e].path \in {Nil, meta[e].path}
<1>1. meta'[d].path = Nil /\ \A e \in DocId : e # d => meta'[e] = meta[e]
  BY DEF DeleteRow, NoRow, UniqueInv, TypeInv, TypeOK, StoresOK
<1> QED BY <1>1, Universe DEF UniqueInv, OneOwner

(* A step of index_file.                                                   *)
LEMMA OwnersWorker ==
  UniqueInv /\ Worker => OneOwner' /\ KnownOwner' /\ NoUniqueClash'
<1> SUFFICES ASSUME UniqueInv, Worker
             PROVE  OneOwner' /\ KnownOwner' /\ NoUniqueClash'
  OBVIOUS
<1> DEFINE Unbound == /\ pc' \notin {"hash", "hashEmpty", "tooLarge", "upsertEmpty", "parse"}
                      /\ pc' = "drop" => then' \in {"idle", "moved"}
<1>1. TypeInv /\ OneOwner /\ KnownOwner /\ NoUniqueClash
  BY DEF UniqueInv
<1>2. pc # "idle" => ev.path \in Path /\ ev.path # Nil
  BY <1>1, Universe DEF TypeInv, Handling, Event
<1>3. Unbound => KnownOwner' /\ NoUniqueClash'
  BY DEF KnownOwner, NoUniqueClash, Writing
<1>4. UNCHANGED meta => OneOwner'
  BY <1>1 DEF OneOwner
<1>5. Finish => Unbound
  BY DEF Finish
<1> HIDE DEF Unbound
<1>6. CASE Take
  <2>1. pc' \in {"purge", "move", "stat"}
    BY <1>6 DEF Take, Goto
  <2> QED BY <1>3, <1>4, <1>6, <2>1 DEF Take, stores, Unbound
<1>7. CASE Purge
  <2>1. CASE DocAt(ev.path) = NoId
    BY <1>3, <1>4, <1>5, <1>7, <2>1 DEF Purge, stores
  <2>2. CASE DocAt(ev.path) # NoId
    <3>1. DocAt(ev.path) \in DocId
      BY <2>2, DocAtIs
    <3>2. OneOwner'
      BY <1>7, <2>2, <3>1, OwnersAfterDelete DEF Purge
    <3> QED BY <1>3, <1>7, <2>2, <3>2 DEF Purge, DropThen, Unbound
  <2> QED BY <2>1, <2>2
<1>8. CASE Drop
  <2>1. OneOwner'
    BY <1>4, <1>8 DEF Drop
  <2>2. CASE then \in {"idle", "moved"}
    BY <1>3, <1>5, <1>8, <2>1, <2>2 DEF Drop, Goto, Unbound
  <2>3. CASE then \in {"parse", "upsertEmpty"}
    <3>1. pc = "drop" /\ pc' = then /\ id' = id /\ ev' = ev /\ meta' = meta
      BY <1>8, <2>3 DEF Drop, At, Goto
    <3>2. ~Clash(id, ev.path)
      BY <1>1, <2>3, <3>1 DEF NoUniqueClash, Writing
    <3>3. ~Clash(id, ev.path)'
      BY <3>1, <3>2 DEF Clash
    <3> QED BY <2>1, <2>3, <3>1, <3>3 DEF NoUniqueClash, KnownOwner
  <2> QED BY <1>1, <2>2, <2>3 DEF TypeInv, TypeOK, LocalsOK
<1>9. CASE Rename
  <2> DEFINE d == DocAt(ev.prev)
             e == DocAt(ev.path)
  <2>1. CASE d = NoId
    BY <1>3, <1>4, <1>9, <2>1 DEF Rename, Goto, stores, Unbound
  <2>2. CASE d # NoId
    <3>1. d \in DocId /\ ev.path \in Path
      BY <1>2, <1>9, <2>2, DocAtIs DEF Rename, At
    <3>2. \A x \in DocId : meta[x].path = ev.path => x = e
      BY <1>1, <3>1, DocAtOwner
    <3>3. meta' = [x \in DocId |-> IF x = d THEN [meta[d] EXCEPT !.path = ev.path]
                                   ELSE IF x = e THEN NoRow ELSE meta[x]]
      BY <1>9, <2>2 DEF Rename
    <3>4. meta[d] \in Row
      BY <1>1, <3>1 DEF TypeInv, TypeOK, StoresOK
    <3> HIDE DEF d, e
    <3>5. meta'[d].path = ev.path
      BY <3>1, <3>3, <3>4 DEF Row
    <3>6. \A x \in DocId : x # d => \/ meta'[x].path = Nil
                                    \/ meta'[x] = meta[x] /\ meta[x].path # ev.path
      BY <3>2, <3>3 DEF NoRow
    <3>7. OneOwner'
      BY <1>1, <3>1, <3>5, <3>6, Universe DEF OneOwner
    <3>8. Unbound
      BY <1>9, <2>2 DEF Rename, Goto, DropThen, Unbound, d, e
    <3> QED BY <1>3, <3>7, <3>8
  <2> QED BY <2>1, <2>2
<1>10. CASE Moved
  BY <1>3, <1>4, <1>5, <1>10 DEF Moved, Goto, stores, Unbound
<1>11. CASE Stat
  <2> DEFINE d == DocAt(ev.path)
  <2>1. (ev.path \in Path /\ ev' = ev) \/ Finish
    BY <1>2, <1>11 DEF Stat, At
  <2>2. meta' = meta
    BY <1>11 DEF Stat, stores
  <2>3. CASE Finish
    BY <1>3, <1>4, <1>5, <2>2, <2>3
  <2>4. CASE ~Finish
    <3>1. \A x \in DocId : meta[x].path = ev.path => x = d
      BY <1>1, <2>1, <2>4, DocAtOwner
    <3> HIDE DEF d
    <3>2. CASE pc' = "tooLarge"
      <4>1. id' = d \/ d = NoId
        BY <1>11, <2>4, <3>2 DEF Stat, Goto, d
      <4>2. ~Clash(id, ev.path)'
        BY <2>1, <2>2, <2>4, <3>1, <4>1, DocIds DEF Clash
      <4> QED BY <1>4, <2>2, <3>2, <4>2 DEF NoUniqueClash, KnownOwner
    <3>3. CASE pc' # "tooLarge"
      <4>1. pc' \in {"hash", "hashEmpty"} /\ old' = d
        BY <1>11, <2>4, <3>3 DEF Stat, Goto, d
      <4> QED BY <1>4, <2>1, <2>2, <2>4, <3>1, <4>1
              DEF KnownOwner, NoUniqueClash, Writing
    <3> QED BY <3>2, <3>3
  <2> QED BY <2>3, <2>4
<1>12. ASSUME NEW label \in {"hash", "hashEmpty"}, NEW next \in {"parse", "upsertEmpty"},
              Hash(label, next)
       PROVE  OneOwner' /\ KnownOwner' /\ NoUniqueClash'
  <2> DEFINE d == DocIdFor(ev.path, fs[ev.path].text, old)
  <2>1. CASE ~Exists(ev.path)
    BY <1>3, <1>4, <1>5, <1>12, <2>1 DEF Hash, stores
  <2>2. CASE Exists(ev.path)
    <3> HIDE DEF d
    <3>1. /\ \A x \in DocId : meta[x].path = ev.path => x = old
          /\ ev.path \in Path /\ ev.path # Nil /\ ev' = ev /\ id' = d
      BY <1>1, <1>2, <1>12, <2>2 DEF Hash, d, At, KnownOwner
    <3>2. CASE old \in {NoId, d}
      <4>1. meta' = meta /\ pc' = next
        BY <1>12, <2>2, <3>2 DEF Hash, d, Goto, stores
      <4>2. ~Clash(id, ev.path)'
        BY <3>1, <3>2, <4>1, DocIds DEF Clash
      <4> QED BY <1>4, <4>1, <4>2 DEF NoUniqueClash, KnownOwner
    <3>3. CASE old \notin {NoId, d}
      <4>1. old \in DocId
        BY <1>1, <3>3 DEF TypeInv, TypeOK, LocalsOK
      <4>2. DeleteRow(old) /\ pc' = "drop" /\ then' = next
        BY <1>12, <2>2, <3>3 DEF Hash, d, DropThen
      <4>3. \A x \in DocId : meta'[x].path # ev.path
        BY <3>1, <4>1, <4>2, OwnersAfterDelete
      <4>4. ~Clash(id, ev.path)'
        BY <3>1, <4>3 DEF Clash
      <4> QED BY <4>1, <4>2, <4>4, OwnersAfterDelete DEF NoUniqueClash, KnownOwner
    <3> QED BY <3>2, <3>3
  <2> QED BY <2>1, <2>2
<1>13. ASSUME pc \in {"tooLarge", "upsertEmpty", "parse"}
       PROVE  id \in DocId
  BY <1>1, <1>13 DEF TypeInv, Handling, Named
<1>14. CASE TooLarge
  BY <1>2, <1>3, <1>4, <1>5, <1>13, <1>14, OwnersAfterUpsert DEF TooLarge, At, Goto, Unbound
<1>15. CASE UpsertEmpty
  BY <1>2, <1>3, <1>4, <1>5, <1>13, <1>15, OwnersAfterUpsert DEF UpsertEmpty, At
<1>16. CASE Reuse
  BY <1>2, <1>3, <1>4, <1>5, <1>13, <1>16, OwnersAfterUpsert DEF Reuse, At, Goto, Unbound
<1>17. ASSUME NEW o \in {"ok", "stub", "failed"}, Parse(o)
       PROVE  OneOwner' /\ KnownOwner' /\ NoUniqueClash'
  BY <1>2, <1>3, <1>4, <1>5, <1>13, <1>17, OwnersAfterUpsert DEF Parse, At, Goto, Unbound
<1>18. CASE Clone \/ Clear \/ ReplaceChunks \/ FtsUpsert \/ EnqueueJobs
  <2>1. meta' = meta
    BY <1>18 DEF Clone, Clear, ReplaceChunks, FtsUpsert, EnqueueJobs, stores
  <2>2. Unbound
    BY <1>5, <1>18
       DEF Clone, Clear, ReplaceChunks, FtsUpsert, EnqueueJobs, Goto, DropThen, Unbound
  <2> QED BY <1>3, <1>4, <2>1, <2>2
<1>19. CASE Debounce
  BY <1>3, <1>19, FewerRows DEF Debounce, stores
<1> QED BY <1>6, <1>7, <1>8, <1>9, <1>10, <1>11, <1>12, <1>14, <1>15, <1>16, <1>17, <1>18, <1>19
        DEF Worker

LEMMA UniqueStep == UniqueInv /\ [Next]_vars => UniqueInv'
<1> SUFFICES ASSUME UniqueInv, [Next]_vars
             PROVE  OneOwner' /\ KnownOwner' /\ NoUniqueClash'
  BY TypeStep DEF UniqueInv
<1>1. CASE Worker
  BY <1>1, OwnersWorker
<1>2. CASE \/ User \/ Notice \/ \E p \in Path : Scan(p)
           \/ ForgetRows \/ Restart \/ UNCHANGED vars
  <2>1. UNCHANGED <<pc, locals, meta>>
    BY <1>2 DEF User, Write, Remove, Move, Change, Notice, Scan, ForgetRows, Restart,
                vars, stores
  <2>2. \A d \in DocId : meta'[d].path \in {Nil, meta[d].path}
    BY <2>1
  <2> QED BY <2>1, <2>2, FewerRows
<1>3. ASSUME NEW d \in DocId, Forget(d)
      PROVE  OneOwner' /\ KnownOwner' /\ NoUniqueClash'
  <2>1. UNCHANGED <<pc, locals>> /\ DeleteRow(d)
    BY <1>3 DEF Forget
  <2>2. \A e \in DocId : meta'[e].path \in {Nil, meta[e].path}
    BY <2>1, OwnersAfterDelete
  <2> QED BY <2>1, <2>2, FewerRows
<1>4. CASE Fail \/ Crash
  <2>1. meta' = meta /\ pc' = "idle"
    BY <1>4 DEF Fail, Crash, Finish, stores
  <2> QED BY <2>1 DEF UniqueInv, OneOwner, KnownOwner, NoUniqueClash, Writing
<1> QED BY <1>1, <1>2, <1>3, <1>4 DEF Next

(* The UNIQUE constraint on documents.source_path never raises: whatever   *)
(* the user, the RPC thread, exceptions and crashes do between the steps   *)
(* of index_file, no other document has the path it writes a row for.      *)
THEOREM UniqueNeverRaises == Spec => []NoUniqueClash
<1>1. UniqueInv => NoUniqueClash
  BY DEF UniqueInv
<1> QED BY <1>1, UniqueInit, UniqueStep, PTL DEF Spec

(* No two documents ever have the same path.                               *)
THEOREM PathsUnique == Spec => []OneOwner
<1>1. UniqueInv => OneOwner
  BY DEF UniqueInv
<1> QED BY <1>1, UniqueInit, UniqueStep, PTL DEF Spec

-----------------------------------------------------------------------------
(* No hit without a document.                                              *)

(* The row comes before the Tantivy documents, and stays until they go.    *)
RowFirst == Undisturbed /\ pc \in {"clone", "chunk", "fts"} => HasRow(id)

OrphanInv == TypeInv /\ RowFirst /\ NoOrphanHits

LEMMA OrphanInit == Init => OrphanInv
<1> SUFFICES ASSUME Init PROVE RowFirst /\ NoOrphanHits
  BY TypeInit DEF OrphanInv
<1> QED BY DEF Init, RowFirst, NoOrphanHits

(* A step that leaves the rows, the Tantivy documents and the event alone. *)
LEMMA OrphanFrame ==
  ASSUME OrphanInv, UNCHANGED <<meta, fts, faults, forgets>>, pc # "drop",
         pc' \in {"clone", "chunk", "fts"} => pc \in {"clone", "chunk", "fts"} /\ id' = id
  PROVE  RowFirst' /\ NoOrphanHits'
BY DEF OrphanInv, RowFirst, NoOrphanHits, Undisturbed, HasRow

(* A step that writes a row and no Tantivy document.                       *)
LEMMA OrphanUpsert ==
  ASSUME OrphanInv, pc # "drop", UNCHANGED <<fts, faults, forgets>>, id' = id,
         id \in DocId, NEW p \in Path, NEW s, NEW ok, Upsert(id, p, s, ok)
  PROVE  RowFirst' /\ NoOrphanHits'
<1>1. StoresOK
  BY DEF OrphanInv, TypeInv, TypeOK
<1>2. HasRow(id)'
  BY <1>1, Universe DEF Upsert, HasRow, StoresOK
<1>3. \A d \in DocId : HasRow(d) => HasRow(d)'
  BY <1>1, <1>2, Universe DEF Upsert, HasRow, StoresOK
<1> QED BY <1>2, <1>3 DEF OrphanInv, RowFirst, NoOrphanHits, Undisturbed

(* A step that deletes a row, and whose next step is to drop its Tantivy   *)
(* documents.                                                              *)
LEMMA OrphanDelete ==
  ASSUME OrphanInv, pc # "drop", UNCHANGED <<fts, faults, forgets>>,
         NEW d \in DocId, DeleteRow(d), pc' = "drop", victim' = d
  PROVE  RowFirst' /\ NoOrphanHits'
<1>1. \A e \in DocId : e # d => (HasRow(e) <=> HasRow(e)')
  BY DEF OrphanInv, TypeInv, TypeOK, StoresOK, DeleteRow, HasRow
<1> QED BY <1>1 DEF OrphanInv, RowFirst, NoOrphanHits, Undisturbed

LEMMA OrphanWorker == OrphanInv /\ Worker => RowFirst' /\ NoOrphanHits'
<1> SUFFICES ASSUME OrphanInv, Worker PROVE RowFirst' /\ NoOrphanHits'
  OBVIOUS
<1>1. TypeInv /\ RowFirst /\ NoOrphanHits
  BY DEF OrphanInv
<1>2. pc # "idle" => ev.path \in Path
  BY <1>1 DEF TypeInv, Handling, Event
<1>3. UNCHANGED <<faults, forgets>>
  BY WorkerFrame DEF counts
<1>4. Named => id \in DocId
  BY <1>1 DEF TypeInv, Handling
<1>5. CASE Take \/ Moved \/ Stat
  <2>1. UNCHANGED <<meta, fts>> /\ pc # "drop"
    BY <1>5 DEF Take, Moved, Stat, At, stores
  <2>2. pc' \notin {"clone", "chunk", "fts"}
    BY <1>5 DEF Take, Moved, Stat, Goto, Finish
  <2> QED BY <1>3, <2>1, <2>2, OrphanFrame
<1>6. CASE Purge
  <2>1. CASE DocAt(ev.path) = NoId
    BY <1>3, <1>6, <2>1, OrphanFrame DEF Purge, At, Finish, stores
  <2>2. CASE DocAt(ev.path) # NoId
    <3>1. DocAt(ev.path) \in DocId
      BY <2>2, DocAtIs
    <3> QED BY <1>3, <1>6, <2>2, <3>1, OrphanDelete DEF Purge, At, DropThen
  <2> QED BY <2>1, <2>2
<1>7. CASE Drop
  <2>1. pc = "drop" /\ meta' = meta /\ pc' \in {"idle", "moved", "parse", "upsertEmpty"}
    BY <1>1, <1>7 DEF Drop, At, Goto, Finish, TypeInv, TypeOK, LocalsOK
  <2>2. \A d \in DocId : fts'[d] # {} => fts[d] # {} /\ d # victim
    BY <1>1, <1>7 DEF Drop, TypeInv, TypeOK, StoresOK
  <2> QED BY <1>1, <1>3, <2>1, <2>2 DEF RowFirst, NoOrphanHits, Undisturbed, HasRow
<1>8. CASE Rename
  <2> DEFINE d == DocAt(ev.prev)
             e == DocAt(ev.path)
  <2>1. CASE d = NoId
    BY <1>3, <1>8, <2>1, OrphanFrame DEF Rename, At, Goto, stores
  <2>2. CASE d # NoId
    <3>1. d \in DocId /\ ev.path \in Path /\ meta[d] \in Row /\ pc = "move"
      BY <1>1, <1>2, <1>8, <2>2, DocAtIs DEF Rename, At, TypeInv, TypeOK, StoresOK
    <3>2. meta' = [x \in DocId |-> IF x = d THEN [meta[d] EXCEPT !.path = ev.path]
                                   ELSE IF x = e THEN NoRow ELSE meta[x]]
      BY <1>8, <2>2 DEF Rename
    <3>3. fts' = fts /\ pc' \in {"moved", "drop"}
      BY <1>8, <2>2 DEF Rename, Goto, DropThen
    <3>4. e \in {NoId, d} \/ (pc' = "drop" /\ victim' = e)
      BY <1>8, <2>2 DEF Rename, DropThen
    <3> HIDE DEF d, e
    <3>5. meta'[d].path # Nil
      BY <3>1, <3>2, Universe DEF Row
    <3>6. \A x \in DocId : HasRow(x) => HasRow(x)' \/ (pc' = "drop" /\ victim' = x)
      BY <3>2, <3>4, <3>5, DocIds DEF HasRow
    <3> QED BY <1>1, <1>3, <3>1, <3>3, <3>6 DEF RowFirst, NoOrphanHits, Undisturbed
  <2> QED BY <2>1, <2>2
<1>9. ASSUME NEW label \in {"hash", "hashEmpty"}, NEW next \in {"parse", "upsertEmpty"},
             Hash(label, next)
      PROVE  RowFirst' /\ NoOrphanHits'
  <2>1. CASE UNCHANGED stores
    <3>1. pc # "drop" /\ pc' \notin {"clone", "chunk", "fts"}
      BY <1>9 DEF Hash, At, Goto, Finish, DropThen
    <3> QED BY <1>3, <2>1, <3>1, OrphanFrame DEF stores
  <2>2. CASE DeleteRow(old) /\ DropThen(old, next) /\ UNCHANGED fts /\ old # NoId
    <3>1. old \in DocId
      BY <1>1, <2>2 DEF TypeInv, TypeOK, LocalsOK
    <3>2. pc # "drop"
      BY <1>9 DEF Hash, At
    <3> QED BY <1>3, <2>2, <3>1, <3>2, OrphanDelete DEF DropThen
  <2> QED BY <1>9, <2>1, <2>2 DEF Hash
<1>10. CASE TooLarge \/ UpsertEmpty \/ Reuse \/ \E o \in {"ok", "stub", "failed"} : Parse(o)
  <2>1. pc \in {"tooLarge", "upsertEmpty", "parse"} /\ fts' = fts
    BY <1>10 DEF TooLarge, UpsertEmpty, Reuse, Parse, At
  <2>2. id \in DocId /\ ev.path \in Path
    BY <1>2, <1>4, <2>1 DEF Named
  <2>3. CASE meta' = meta /\ Finish
    BY <1>3, <2>1, <2>3, OrphanFrame DEF Finish
  <2>4. CASE UpsertEmpty /\ Finish
    <3>1. CASE meta' = meta
      BY <2>3, <2>4, <3>1
    <3>2. CASE meta' # meta
      <4>1. Upsert(id, ev.path, ev.stamp, FALSE)
        BY <2>4, <3>2 DEF UpsertEmpty
      <4>2. StoresOK
        BY <1>1 DEF TypeInv, TypeOK
      <4>3. \A d \in DocId : HasRow(d) => HasRow(d)'
        BY <2>2, <4>1, <4>2, Universe DEF Upsert, HasRow, StoresOK
      <4> QED BY <1>1, <1>3, <2>1, <2>4, <4>3
              DEF RowFirst, NoOrphanHits, Undisturbed, Finish
    <3> QED BY <3>1, <3>2
  <2>5. CASE id' = id /\ \E s, ok : Upsert(id, ev.path, s, ok)
    BY <1>3, <2>1, <2>2, <2>5, OrphanUpsert
  <2> QED BY <1>10, <2>3, <2>4, <2>5 DEF TooLarge, UpsertEmpty, Reuse, Parse, locals
<1>11. CASE Clone \/ Clear \/ ReplaceChunks \/ EnqueueJobs
  <2>1. UNCHANGED <<meta, fts>> /\ pc # "drop"
    BY <1>11 DEF Clone, Clear, ReplaceChunks, EnqueueJobs, At, stores
  <2>2. pc' \in {"clone", "chunk", "fts"} => pc \in {"clone", "chunk", "fts"} /\ id' = id
    BY <1>11 DEF Clone, Clear, ReplaceChunks, EnqueueJobs, At, Goto, DropThen, Finish, locals
  <2> QED BY <1>3, <2>1, <2>2, OrphanFrame
<1>12. CASE FtsUpsert
  <2>1. pc = "fts" /\ meta' = meta /\ pc' = "enqueue" /\ id \in DocId
    BY <1>4, <1>12 DEF FtsUpsert, At, Goto, Named
  <2>2. \A d \in DocId : d # id => fts'[d] = fts[d]
    BY <1>1, <1>12 DEF FtsUpsert, TypeInv, TypeOK, StoresOK
  <2> QED BY <1>1, <1>3, <2>1, <2>2 DEF RowFirst, NoOrphanHits, Undisturbed, HasRow
<1>13. CASE Debounce
  BY <1>3, <1>13, OrphanFrame DEF Debounce, At, stores, locals
<1> QED BY <1>5, <1>6, <1>7, <1>8, <1>9, <1>10, <1>11, <1>12, <1>13 DEF Worker

LEMMA OrphanStep == OrphanInv /\ [Next]_vars => OrphanInv'
<1> SUFFICES ASSUME OrphanInv, [Next]_vars PROVE RowFirst' /\ NoOrphanHits'
  BY TypeStep DEF OrphanInv
<1>1. CASE Worker
  BY <1>1, OrphanWorker
<1>2. CASE \/ User \/ Notice \/ (\E p \in Path : Scan(p)) \/ Restart \/ UNCHANGED vars
  <2>1. UNCHANGED <<pc, id, victim, meta, fts, faults, forgets>>
    BY <1>2 DEF User, Write, Remove, Move, Change, Notice, Scan, Restart,
                vars, stores, locals, counts
  <2> QED BY <2>1 DEF OrphanInv, RowFirst, NoOrphanHits, Undisturbed, HasRow
<1>3. CASE ForgetRows
  <2>1. UNCHANGED <<pc, id, victim, meta, faults, forgets>>
    BY <1>3 DEF ForgetRows, locals
  <2>2. \A d \in DocId : fts'[d] # {} => fts[d] # {}
    BY <1>3 DEF ForgetRows, OrphanInv, TypeInv, TypeOK, StoresOK
  <2> QED BY <2>1, <2>2 DEF OrphanInv, RowFirst, NoOrphanHits, Undisturbed, HasRow
<1>4. CASE (\E d \in DocId : Forget(d)) \/ Fail \/ Crash
  <2>1. ~Undisturbed'
    BY <1>4 DEF Forget, Fail, Crash, Undisturbed, OrphanInv, TypeInv, TypeOK, CountsOK
  <2> QED BY <2>1 DEF RowFirst, NoOrphanHits
<1> QED BY <1>1, <1>2, <1>3, <1>4 DEF Next

(* Until an exception, a crash or a forget, a search hit has a document in *)
(* SQLite behind it, or index_file is about to delete it.                  *)
THEOREM HitsHaveDocuments == Spec => []NoOrphanHits
<1>1. OrphanInv => NoOrphanHits
  BY DEF OrphanInv
<1> QED BY <1>1, OrphanInit, OrphanStep, PTL DEF Spec


-----------------------------------------------------------------------------
(* Rows stay with their paths.                                             *)

(* Where nobody renames, no MOVED event is on its way to a replace_path.   *)
NoRenames ==
  /\ \A i \in DOMAIN raw : raw[i].change # "moved"
  /\ \A i \in DOMAIN queue : queue[i].change # "moved"
  /\ pc \notin {"move", "moved"} /\ then # "moved"

(* The doc_id of a duplicate, or of a file too large, names its path.      *)
NamesItsPath(d, p) == d.kind \in {"dup", "skip"} => d.path = p

(* A document index_file may write to has no row of another path, and none *)
(* of another name comes to be one while index_file waits.                 *)
Mine(d) == d \in DocId => meta[d].path \in {Nil, ev.path} /\ NamesItsPath(d, ev.path)

HomeInv ==
  /\ NoRenames
  /\ \A d \in DocId : HasRow(d) => NamesItsPath(d, meta[d].path)
  /\ pc \in {"hash", "hashEmpty"} => Mine(old)
  /\ Writing => Mine(id)

LEMMA HomeInit == Init => HomeInv
<1> SUFFICES ASSUME Init PROVE HomeInv
  OBVIOUS
<1>1. NoRenames
  BY DEF Init, NoRenames
<1>2. \A d \in DocId : ~HasRow(d)
  BY DEF Init, HasRow, NoRow
<1> QED BY <1>1, <1>2 DEF Init, HomeInv, Writing

(* Notifications and events keep to what the user does.                    *)
LEMMA NoRenamesStep ==
  ASSUME MoveWhen = "never", TypeInv, NoRenames, [Next]_vars
  PROVE  NoRenames'
<1>1. raw \in Seq(Raw) /\ queue \in Seq(Event) /\ then \in {"idle", "moved", "parse", "upsertEmpty"}
  BY DEF TypeInv, TypeOK, WorldOK, LocalsOK
<1>2. CASE User
  <2>1. UNCHANGED <<queue, pc, then>>
    BY <1>2 DEF User, Write, Remove, Move, Change, locals
  <2>2. ~ \E p, q \in Path : Move(p, q)
    BY DEF Move, Allowed
  <2>3. raw' = raw \/ \E r : raw' = Append(raw, r) /\ r.change # "moved"
    <3>1. \A c, p, q : Notify(c, p, q) /\ c # "moved" =>
            raw' = raw \/ \E r : raw' = Append(raw, r) /\ r.change # "moved"
      BY DEF Notify
    <3>2. \E c \in {"created", "modified", "deleted"} : \E p : Notify(c, p, Nil)
      BY <1>2, <2>2 DEF User, Write, Remove
    <3> QED BY <3>1, <3>2
  <2>4. \A i \in DOMAIN raw' : raw'[i].change # "moved"
    BY <1>1, <2>3 DEF NoRenames
  <2> QED BY <2>1, <2>4 DEF NoRenames
<1>3. CASE Notice
  <2>1. Head(raw).change # "moved" /\ \A i \in DOMAIN raw' : raw'[i].change # "moved"
    BY <1>1, <1>3 DEF Notice, NoRenames
  <2>2. queue' = queue \/ \E e : queue' = Append(queue, e) /\ e.change # "moved"
    BY <1>3, <2>1 DEF Notice, Event4
  <2>3. UNCHANGED <<pc, then>>
    BY <1>3 DEF Notice, locals
  <2>4. \A i \in DOMAIN queue' : queue'[i].change # "moved"
    BY <1>1, <2>2 DEF NoRenames
  <2> QED BY <1>1, <2>1, <2>3, <2>4 DEF NoRenames
<1>4. ASSUME NEW p \in Path, Scan(p) PROVE NoRenames'
  <2>1. queue' = queue \/ \E e : queue' = Append(queue, e) /\ e.change # "moved"
    BY <1>4 DEF Scan, Event4
  <2> QED BY <1>1, <1>4, <2>1 DEF Scan, NoRenames, locals
<1>5. CASE Worker
  <2>1. raw' = raw
    BY <1>5, WorkerFrame
  <2>2. CASE Take
    <3>1. Head(queue).change # "moved" /\ \A i \in DOMAIN queue' : queue'[i].change # "moved"
      BY <1>1, <2>2 DEF Take, NoRenames
    <3> QED BY <2>1, <2>2, <3>1 DEF Take, NoRenames, Goto
  <2>3. CASE Debounce
    <3>1. \A i \in DOMAIN queue' : queue'[i].change # "moved"
      BY <1>1, <2>3 DEF Debounce, NoRenames
    <3> QED BY <1>1, <2>1, <2>3, <3>1 DEF Debounce, NoRenames, locals
  <2>4. CASE ~Take /\ ~Debounce
    <3>1. queue' = queue
      BY <1>5, <2>4, WorkerFrame
    <3>2. pc' \notin {"move", "moved"} /\ then' # "moved"
      <4>1. CASE Purge \/ Drop \/ Stat \/ TooLarge \/ UpsertEmpty \/ Reuse \/ Clone
        BY <1>1, <4>1
           DEF Purge, Drop, Stat, TooLarge, UpsertEmpty, Reuse, Clone, Goto, DropThen,
               Finish, locals, NoRenames
      <4>2. CASE Clear \/ ReplaceChunks \/ FtsUpsert \/ EnqueueJobs
                 \/ \E o \in {"ok", "stub", "failed"} : Parse(o)
        BY <4>2
           DEF Parse, Clear, ReplaceChunks, FtsUpsert, EnqueueJobs, Goto, DropThen,
               Finish, locals, NoRenames
      <4>3. CASE Hash("hash", "parse") \/ Hash("hashEmpty", "upsertEmpty")
        BY <4>3 DEF Hash, Goto, DropThen, Finish, NoRenames
      <4>4. ~Rename /\ ~Moved
        BY DEF Rename, Moved, At, NoRenames
      <4> QED BY <1>5, <2>4, <4>1, <4>2, <4>3, <4>4 DEF Worker
    <3> QED BY <2>1, <3>1, <3>2 DEF NoRenames
  <2> QED BY <2>2, <2>3, <2>4
<1>6. CASE Crash
  BY <1>6 DEF Crash, Finish, NoRenames
<1>7. CASE Fail
  BY <1>7 DEF Fail, Finish, NoRenames, events
<1>8. CASE \/ (\E d \in DocId : Forget(d)) \/ ForgetRows \/ Restart \/ UNCHANGED vars
  <2>1. UNCHANGED <<raw, queue, pc, then>>
    BY <1>8 DEF Forget, ForgetRows, Restart, vars, locals, events
  <2> QED BY <2>1 DEF NoRenames
<1> QED BY <1>2, <1>3, <1>4, <1>5, <1>6, <1>7, <1>8 DEF Next

(* Rows may go, and index_file may stay where it is.                       *)
LEMMA HomeFewer ==
  ASSUME TypeInv, HomeInv, NoRenames', UNCHANGED <<pc, locals>>,
         \A d \in DocId : meta'[d].path \in {Nil, meta[d].path}
  PROVE  HomeInv'
<1>1. UNCHANGED <<pc, ev, old, id, then>>
  BY DEF locals
<1>2. \A d \in DocId : HasRow(d)' => HasRow(d) /\ meta'[d].path = meta[d].path
  BY DEF HasRow
<1>3. \A d : Mine(d) => Mine(d)'
  BY <1>1 DEF Mine
<1>4. pc \in {"hash", "hashEmpty"} => Mine(old)'
  BY <1>1, <1>3 DEF HomeInv
<1>5. Writing' => Mine(id)'
  BY <1>1, <1>3 DEF HomeInv, Writing
<1> QED BY <1>1, <1>2, <1>4, <1>5 DEF HomeInv, Mine

(* A step of index_file that writes no row.                                *)
LEMMA HomeReads ==
  ASSUME TypeInv, HomeInv, NoRenames',
         \A d \in DocId : meta'[d].path \in {Nil, meta[d].path},
         pc' \in {"hash", "hashEmpty"} => Mine(old'), Writing' => Mine(id'),
         pc' \in {"hash", "hashEmpty"} \/ Writing' => ev' = ev
  PROVE  HomeInv'
<1>1. \A d \in DocId : HasRow(d)' => HasRow(d) /\ meta'[d].path = meta[d].path
  BY DEF HasRow
<1>2. pc' \in {"hash", "hashEmpty"} => Mine(old)'
  BY DEF Mine
<1>3. Writing' => Mine(id)'
  BY DEF Mine
<1> QED BY <1>1, <1>2, <1>3 DEF HomeInv

(* A step of index_file that writes its row.                               *)
LEMMA HomeWrites ==
  ASSUME TypeInv, HomeInv, NoRenames', Writing, ev.path \in Path,
         NEW s, NEW ok, Upsert(id, ev.path, s, ok),
         pc' \notin {"hash", "hashEmpty"}, ~Writing'
  PROVE  /\ HomeInv'
         /\ \A d \in DocId : HasRow(d) => meta'[d].path = meta[d].path
<1>1. id \in DocId /\ meta \in [DocId -> Row]
  BY DEF TypeInv, TypeOK, Handling, Named, Writing, StoresOK
<1>2. meta'[id].path = ev.path /\ \A d \in DocId : d # id => meta'[d] = meta[d]
  BY <1>1 DEF Upsert
<1>3. NamesItsPath(id, ev.path) /\ meta[id].path \in {Nil, ev.path}
  BY <1>1 DEF HomeInv, Mine
<1>4. \A d \in DocId : HasRow(d)' => NamesItsPath(d, meta'[d].path)
  BY <1>2, <1>3 DEF HomeInv, HasRow
<1> QED BY <1>2, <1>3, <1>4 DEF HomeInv, HasRow

(* A step of index_file keeps rows where they are.                         *)
LEMMA HomeWorker ==
  ASSUME TypeInv, HomeInv, NoRenames', Worker
  PROVE  /\ HomeInv'
         /\ \A d \in DocId : HasRow(d) => meta'[d].path \in {Nil, meta[d].path}
<1> DEFINE Fewer == \A d \in DocId : meta'[d].path \in {Nil, meta[d].path}
           Reading == /\ pc' \notin {"hash", "hashEmpty", "tooLarge", "upsertEmpty", "parse"}
                      /\ pc' = "drop" => then' = "idle"
<1>1. NoRenames /\ then \in {"idle", "parse", "upsertEmpty"}
  BY DEF HomeInv, NoRenames, TypeInv, TypeOK, LocalsOK
<1>2. pc # "idle" => ev.path \in Path /\ ev.path # Nil
  BY Universe DEF TypeInv, Handling, Event
<1>3. Reading => pc' \notin {"hash", "hashEmpty"} /\ ~Writing'
  BY DEF Writing
<1>4. meta' = meta => Fewer
  OBVIOUS
<1>5. Finish => Reading
  BY DEF Finish
<1>6. Fewer /\ Reading => HomeInv'
  BY <1>3, HomeReads
<1> HIDE DEF Reading, Fewer
<1> SUFFICES (HomeInv' /\ Fewer)
               \/ (HomeInv' /\ \A d \in DocId : HasRow(d) => meta'[d].path = meta[d].path)
  BY DEF Fewer
<1>7. CASE Take
  <2>1. pc' \in {"purge", "stat"}
    BY <1>7 DEF Take, Goto, NoRenames
  <2> QED BY <1>4, <1>6, <1>7, <2>1 DEF Take, stores, Reading
<1>8. CASE Purge
  <2>1. CASE DocAt(ev.path) = NoId
    BY <1>4, <1>5, <1>6, <1>8, <2>1 DEF Purge, stores
  <2>2. CASE DocAt(ev.path) # NoId
    <3>1. DocAt(ev.path) \in DocId
      BY <2>2, DocAtIs
    <3>2. Fewer
      BY <1>8, <2>2, <3>1 DEF Purge, DeleteRow, NoRow, Fewer, TypeInv, TypeOK, StoresOK
    <3> QED BY <1>6, <1>8, <2>2, <3>2 DEF Purge, DropThen, Reading
  <2> QED BY <2>1, <2>2
<1>9. CASE Drop
  <2>1. meta' = meta /\ Fewer
    BY <1>4, <1>9 DEF Drop
  <2>2. CASE then = "idle"
    BY <1>5, <1>6, <1>9, <2>1, <2>2 DEF Drop
  <2>3. CASE then # "idle"
    <3>1. pc = "drop" /\ pc' = then /\ UNCHANGED <<ev, id>> /\ then \in {"parse", "upsertEmpty"}
      BY <1>1, <1>9, <2>3 DEF Drop, At, Goto
    <3>2. Mine(id)
      BY <3>1 DEF HomeInv, Writing
    <3>3. pc' \notin {"hash", "hashEmpty"} /\ Mine(id')
      BY <3>1, <3>2
    <3> QED BY <2>1, <3>1, <3>3, HomeReads DEF Fewer
  <2> QED BY <2>2, <2>3
<1>10. ~Rename /\ ~Moved
  BY <1>1 DEF Rename, Moved, At, NoRenames
<1>11. CASE Stat
  <2> DEFINE d == DocAt(ev.path)
  <2>1. meta' = meta /\ Fewer /\ pc = "stat"
    BY <1>4, <1>11 DEF Stat, At, stores
  <2>2. CASE Finish
    BY <1>5, <1>6, <2>1, <2>2
  <2>3. CASE ~Finish
    <3>1. d \in DocId => Mine(d)
      <4>1. d # NoId => meta[d].path = ev.path
        BY DocAtIs
      <4> HIDE DEF d
      <4> QED BY <1>2, <2>1, <4>1, DocIds DEF HomeInv, Mine, HasRow
    <3>2. Mine(Skip(ev.path))
      <4>1. Skip(ev.path).kind = "skip" /\ Skip(ev.path).path = ev.path
        BY DEF Skip
      <4> HIDE DEF Skip
      <4> QED BY <4>1 DEF HomeInv, Mine, HasRow, NamesItsPath
    <3>3. d \in DocId \cup {NoId} /\ Mine(d)
      BY <3>1, DocAtIs DEF Mine
    <3>4. ev' = ev
      BY <1>11, <2>3 DEF Stat
    <3> HIDE DEF d
    <3>5. \/ pc' = "tooLarge" /\ id' \in {d, Skip(ev.path)}
          \/ pc' \in {"hash", "hashEmpty"} /\ old' = d
      BY <1>11, <2>3 DEF Stat, Goto, d
    <3>6. pc' \in {"hash", "hashEmpty"} => Mine(old')
      BY <3>3, <3>5
    <3>7. Writing' => Mine(id')
      BY <3>2, <3>3, <3>5 DEF Writing
    <3> QED BY <2>1, <3>4, <3>6, <3>7, HomeReads DEF Fewer
  <2> QED BY <2>2, <2>3
<1>12. ASSUME NEW label \in {"hash", "hashEmpty"}, NEW next \in {"parse", "upsertEmpty"},
              Hash(label, next)
       PROVE  HomeInv' /\ Fewer
  <2> DEFINE c == fs[ev.path].text
             d == DocIdFor(ev.path, c, old)
  <2>1. CASE ~Exists(ev.path)
    BY <1>4, <1>5, <1>6, <1>12, <2>1 DEF Hash, stores
  <2>2. CASE Exists(ev.path)
    <3>1. pc \in {"hash", "hashEmpty"} /\ ev.path \in Path /\ Mine(old) /\ ev' = ev /\ id' = d
      BY <1>2, <1>12, <2>2 DEF Hash, At, HomeInv
    <3>2. c \in Text
      BY <2>2, <3>1 DEF Exists, TypeInv, TypeOK, WorldOK, File
    <3>3. Mine(d)
      <4>1. CASE d = old
        BY <3>1, <4>1
      <4>2. CASE d = Sha(c) /\ meta[Sha(c)].path \in {Nil, ev.path}
        <5>1. Sha(c).kind = "sha"
          BY DEF Sha
        <5> HIDE DEF d, Sha
        <5> QED BY <4>2, <5>1 DEF Mine, NamesItsPath
      <4>3. CASE d = Dup(c, ev.path)
        <5>1. Dup(c, ev.path).kind = "dup" /\ Dup(c, ev.path).path = ev.path
          BY DEF Dup
        <5> HIDE DEF d, Dup
        <5> QED BY <4>3, <5>1 DEF HomeInv, Mine, HasRow, NamesItsPath
      <4> HIDE DEF c
      <4> QED BY <4>1, <4>2, <4>3 DEF DocIdFor
    <3>4. Fewer
      <4>1. CASE meta' = meta
        BY <1>4, <4>1
      <4>2. CASE DeleteRow(old) /\ old # NoId
        <5>1. old \in DocId
          BY <4>2 DEF TypeInv, TypeOK, LocalsOK
        <5> QED BY <4>2, <5>1 DEF DeleteRow, NoRow, Fewer, TypeInv, TypeOK, StoresOK
      <4> QED BY <1>12, <2>2, <4>1, <4>2 DEF Hash, stores
    <3>5. pc' \notin {"hash", "hashEmpty"}
      BY <1>12, <2>2 DEF Hash, Goto, DropThen
    <3> HIDE DEF d
    <3>6. Mine(id')
      BY <3>1, <3>3
    <3> QED BY <3>1, <3>4, <3>5, <3>6, HomeReads DEF Fewer
  <2> QED BY <2>1, <2>2
<1>13. CASE TooLarge \/ UpsertEmpty \/ Reuse \/ \E o \in {"ok", "stub", "failed"} : Parse(o)
  <2>1. Writing /\ ev.path \in Path
    BY <1>2, <1>13 DEF TooLarge, UpsertEmpty, Reuse, Parse, At, Writing
  <2>2. Reading
    BY <1>5, <1>13 DEF TooLarge, UpsertEmpty, Reuse, Parse, Goto, Reading
  <2>3. meta' = meta \/ \E s, ok : Upsert(id, ev.path, s, ok)
    BY <1>13 DEF TooLarge, UpsertEmpty, Reuse, Parse
  <2> QED BY <1>3, <1>4, <1>6, <2>1, <2>2, <2>3, HomeWrites
<1>14. CASE Clone \/ Clear \/ ReplaceChunks \/ FtsUpsert \/ EnqueueJobs
  <2>1. meta' = meta
    BY <1>14 DEF Clone, Clear, ReplaceChunks, FtsUpsert, EnqueueJobs, stores
  <2>2. Reading
    BY <1>5, <1>14
       DEF Clone, Clear, ReplaceChunks, FtsUpsert, EnqueueJobs, Goto, DropThen, Reading
  <2> QED BY <1>4, <1>6, <2>1, <2>2
<1>15. CASE Debounce
  BY <1>4, <1>6, <1>15 DEF Debounce, At, Reading, stores, locals
<1> QED BY <1>7, <1>8, <1>9, <1>10, <1>11, <1>12, <1>13, <1>14, <1>15 DEF Worker

LEMMA HomeStep ==
  ASSUME MoveWhen = "never", TypeInv, HomeInv, [Next]_vars
  PROVE  /\ HomeInv'
         /\ \A d \in DocId : HasRow(d) => meta'[d].path \in {Nil, meta[d].path}
<1>1. NoRenames'
  BY NoRenamesStep DEF HomeInv
<1>2. CASE Worker
  BY <1>1, <1>2, HomeWorker
<1>3. CASE \/ User \/ Notice \/ \E p \in Path : Scan(p)
           \/ ForgetRows \/ Restart \/ UNCHANGED vars
  <2>1. UNCHANGED <<pc, locals, meta>>
    BY <1>3 DEF User, Write, Remove, Move, Change, Notice, Scan, ForgetRows, Restart,
                vars, stores
  <2>2. \A d \in DocId : meta'[d].path \in {Nil, meta[d].path}
    BY <2>1
  <2> QED BY <1>1, <2>1, <2>2, HomeFewer
<1>4. ASSUME NEW e \in DocId, Forget(e)
      PROVE  HomeInv' /\ \A d \in DocId : meta'[d].path \in {Nil, meta[d].path}
  <2>1. UNCHANGED <<pc, locals>>
    BY <1>4 DEF Forget
  <2>2. \A d \in DocId : meta'[d].path \in {Nil, meta[d].path}
    BY <1>4 DEF Forget, DeleteRow, NoRow, TypeInv, TypeOK, StoresOK
  <2> QED BY <1>1, <2>1, <2>2, HomeFewer
<1>5. CASE Fail \/ Crash
  <2>1. meta' = meta /\ pc' = "idle"
    BY <1>5 DEF Fail, Crash, Finish, stores
  <2> QED BY <1>1, <2>1 DEF HomeInv, Writing, HasRow
<1> QED BY <1>2, <1>3, <1>4, <1>5 DEF Next

(* Where files are written, copied and removed but not renamed, whatever   *)
(* forgets, exceptions and crashes come between, indexing one file never   *)
(* takes the row of another.  With renames it may: the name of a duplicate *)
(* outlives its path.                                                      *)
THEOREM RowsStay ==
  ASSUME MoveWhen = "never"
  PROVE  Spec => RowsStayHome
<1>1. TypeInv /\ HomeInv /\ [Next]_vars =>
        (TypeInv /\ HomeInv)' /\
        [\A d \in DocId :
           HasRow(d) /\ meta'[d].path \notin {Nil, meta[d].path} => pc = "move"]_vars
  BY HomeStep, TypeStep
<1>2. Init => TypeInv /\ HomeInv
  BY HomeInit, TypeInit
<1> QED BY <1>1, <1>2, PTL DEF Spec, RowsStayHome
=============================================================================
