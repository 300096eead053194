---------------------------- MODULE CatchUpProofs ----------------------------
(***************************************************************************)
(* What a quiet index holds: no ghost of a file that is gone, whatever the *)
(* user did and when, and, where no content comes twice and no file is     *)
(* empty, every file as it is, but for those whose last event was          *)
(* debounced.                                                              *)
(***************************************************************************)
EXTENDS IndexPipelineProofs

(* The paths with a file, those with one the watcher takes, and those the  *)
(* documents table has a row for.                                          *)
Existing == {p \in Path : Exists(p)}
Seen     == {p \in Path : Visible(p)}
Owned    == {meta[d].path : d \in DocId}

(* e says that the file at p is gone, or that there is one.                *)
Ends(e, p)   == \/ e.change = "deleted" /\ e.path = p
                \/ e.change = "moved" /\ e.prev = p
Brings(e, p) == e.change # "deleted" /\ e.path = p

(* Somewhere in s, or after its i-th element, it is said that the file at  *)
(* p is gone.                                                              *)
Says(s, p)       == \E j \in DOMAIN s : Ends(s[j], p)
Follows(s, i, p) == \E j \in DOMAIN s : j > i /\ Ends(s[j], p)

(* Whatever is on its way about a file that is gone, its end is the last   *)
(* of it, and while the end is on its way the row may stay.                *)
Left(p) ==
  /\ \A i \in DOMAIN raw : Brings(raw[i], p) => Follows(raw, i, p)
  /\ \A i \in DOMAIN queue : Brings(queue[i], p) => Follows(queue, i, p) \/ Says(raw, p)
  /\ pc # "idle" /\ Brings(ev, p) => Says(queue, p) \/ Says(raw, p)
  /\ p \in Owned => \/ Says(queue, p) \/ Says(raw, p)
                    \/ pc = "purge" /\ ev.path = p
                    \/ pc = "move" /\ ev.prev = p

(* But where the watcher dropped the rename by which it went.              *)
Missing == Path \ (Existing \cup stranded)
LeftInv == \A p \in Missing : Left(p)

(* Where index_file is when it handles a deletion.                         *)
Deleting ==
  /\ pc = "purge" => ev.change = "deleted"
  /\ pc # "idle" /\ ev.change = "deleted" => pc = "purge" \/ (pc = "drop" /\ then = "idle")

GhostInv == Undisturbed => up /\ forgetting = NoId /\ Deleting /\ LeftInv

-----------------------------------------------------------------------------
(* Sequences of notifications and events.                                  *)

LEMMA SaysAppend ==
  ASSUME NEW S, NEW s \in Seq(S), NEW e \in S, NEW p
  PROVE  LET t == Append(s, e) IN
         /\ \A i \in DOMAIN t : t[i] = e \/ (i \in DOMAIN s /\ t[i] = s[i])
         /\ \A i \in DOMAIN s : Follows(s, i, p) \/ Ends(e, p) => Follows(t, i, p)
         /\ Says(s, p) \/ Ends(e, p) => Says(t, p)
<1> DEFINE t == Append(s, e)
<1>1. /\ DOMAIN t = DOMAIN s \cup {Len(s) + 1} /\ t[Len(s) + 1] = e
      /\ \A i \in DOMAIN s : t[i] = s[i] /\ Len(s) + 1 > i
  OBVIOUS
<1> HIDE DEF t
<1>2. \A i \in DOMAIN t : t[i] = e \/ (i \in DOMAIN s /\ t[i] = s[i])
  BY <1>1
<1>3. \A i \in DOMAIN s : Follows(s, i, p) \/ Ends(e, p) => Follows(t, i, p)
  BY <1>1 DEF Follows
<1>4. Says(s, p) \/ Ends(e, p) => Says(t, p)
  BY <1>1 DEF Says
<1> QED BY <1>2, <1>3, <1>4 DEF t

LEMMA SaysTail ==
  ASSUME NEW S, NEW s \in Seq(S), s # <<>>, NEW p
  PROVE  LET t == Tail(s) IN
         /\ 1 \in DOMAIN s /\ Head(s) = s[1]
         /\ \A i \in DOMAIN t : /\ i + 1 \in DOMAIN s /\ t[i] = s[i + 1]
                                /\ Follows(s, i + 1, p) => Follows(t, i, p)
         /\ Follows(s, 1, p) => Says(t, p)
         /\ Says(s, p) => Says(t, p) \/ Ends(s[1], p)
<1> DEFINE t == Tail(s)
<1>1. /\ 1 \in DOMAIN s /\ Head(s) = s[1] /\ DOMAIN s = 1..Len(s)
      /\ DOMAIN t = 1..(Len(s) - 1) /\ Len(s) \in Nat
      /\ \A i \in DOMAIN t : i + 1 \in DOMAIN s /\ t[i] = s[i + 1]
  OBVIOUS
<1> HIDE DEF t
<1>2. ASSUME NEW i \in DOMAIN s, i # 1 PROVE i - 1 \in DOMAIN t /\ t[i - 1] = s[i]
  BY <1>1, <1>2
<1>3. ASSUME NEW i \in DOMAIN t, Follows(s, i + 1, p) PROVE Follows(t, i, p)
  <2>1. PICK j \in DOMAIN s : j > i + 1 /\ Ends(s[j], p)
    BY <1>3 DEF Follows
  <2>2. j - 1 > i /\ j # 1
    BY <1>1, <2>1
  <2> QED BY <1>2, <2>1, <2>2 DEF Follows
<1>4. Follows(s, 1, p) => Says(t, p)
  BY <1>1, <1>2 DEF Follows, Says
<1>5. Says(s, p) => Says(t, p) \/ Ends(s[1], p)
  BY <1>2 DEF Says
<1> QED BY <1>1, <1>3, <1>4, <1>5 DEF t

-----------------------------------------------------------------------------
(* No ghosts.                                                              *)

(* The user: whatever is done, the OS says so last.                        *)
LEMMA LeftUser ==
  ASSUME TypeInv, up, LeftInv, User
  PROVE  LeftInv'
<1>1. /\ ops \in Nat /\ fs \in [Path -> File] /\ raw \in Seq(Raw) /\ Gone.text = Nil
      /\ \A p \in Path : Exists(p) => fs[p].text \in Text
  BY DEF TypeInv, TypeOK, WorldOK, File, Exists, Gone
<1>2. UNCHANGED <<queue, pc, ev, meta>>
  BY DEF User, Write, Remove, Move, Change, locals, stores
<1>3. \E r \in Raw : /\ raw' = Append(raw, r)
                     /\ \A p \in Missing' : ~Brings(r, p) /\ (Ends(r, p) \/ p \in Missing)
  <2>1. ASSUME NEW x \in Path, NEW c \in Text, Write(x, c) PROVE <1>3
    <3> DEFINE r == [change |-> IF Exists(x) THEN "modified" ELSE "created", path |-> x, prev |-> Nil]
    <3>1. r \in Raw /\ r.path = x
      BY DEF Raw
    <3>2. raw' = Append(raw, r)
      BY <2>1 DEF Write, Notify
    <3>3. fs' = [fs EXCEPT ![x] = [text |-> c, stamp |-> ops + 1]] /\ stranded' = stranded \ {x}
      BY <2>1 DEF Write, Appears
    <3>4. c # Nil
      BY Universe
    <3>5. \A p \in Missing' : p # x /\ p \in Missing
      BY <1>1, <3>3, <3>4 DEF Missing, Existing, Exists
    <3> HIDE DEF r
    <3> QED BY <3>1, <3>2, <3>5 DEF Brings
  <2>2. ASSUME NEW x \in Path, Remove(x) PROVE <1>3
    <3> DEFINE r == [change |-> "deleted", path |-> x, prev |-> Nil]
    <3>1. r \in Raw /\ r.path = x /\ r.change = "deleted"
      BY DEF Raw
    <3>2. raw' = Append(raw, r)
      BY <2>2 DEF Remove, Notify
    <3>3. fs' = [fs EXCEPT ![x] = Gone] /\ stranded' = stranded
      BY <2>2 DEF Remove
    <3>4. \A p \in Missing' : p = x \/ p \in Missing
      BY <1>1, <3>3 DEF Missing, Existing, Exists
    <3> HIDE DEF r
    <3> QED BY <3>1, <3>2, <3>4 DEF Brings, Ends
  <2>3. ASSUME NEW x \in Path, NEW y \in Path, Move(x, y) PROVE <1>3
    <3> DEFINE r == [change |-> "moved", path |-> y, prev |-> x]
    <3>1. r \in Raw /\ r.path = y /\ r.prev = x /\ r.change = "moved"
      BY DEF Raw
    <3>2. raw' = Append(raw, r)
      BY <2>3 DEF Move, Notify
    <3>3. fs' = [fs EXCEPT ![y] = fs[x], ![x] = Gone] /\ stranded' = stranded \ {y}
          /\ x # y /\ fs[x].text # Nil
      BY <2>3 DEF Move, Appears, Exists
    <3>4. \A p \in Missing' : p # y /\ (p = x \/ p \in Missing)
      BY <1>1, <3>3 DEF Missing, Existing, Exists
    <3> HIDE DEF r
    <3>5. Ends(r, x) /\ \A p : Brings(r, p) => p = y
      BY <3>1 DEF Brings, Ends
    <3> QED BY <3>1, <3>2, <3>4, <3>5
  <2> QED BY <2>1, <2>2, <2>3 DEF User
<1>4. PICK r \in Raw : /\ raw' = Append(raw, r)
                       /\ \A p \in Missing' : ~Brings(r, p) /\ (Ends(r, p) \/ p \in Missing)
  BY <1>3
<1>5. SUFFICES ASSUME NEW p \in Missing' PROVE Left(p)'
  BY DEF LeftInv
<1>6. /\ \A i \in DOMAIN raw' : raw'[i] = r \/ (i \in DOMAIN raw /\ raw'[i] = raw[i])
      /\ \A i \in DOMAIN raw : Follows(raw, i, p) \/ Ends(r, p) => Follows(raw', i, p)
      /\ Says(raw, p) \/ Ends(r, p) => Says(raw', p)
  BY <1>1, <1>4, SaysAppend
<1>7. Owned' = Owned
  BY <1>2 DEF Owned
<1>8. ASSUME NEW i \in DOMAIN raw', Brings(raw'[i], p) PROVE Follows(raw', i, p)
  BY <1>4, <1>6, <1>8 DEF LeftInv, Left
<1> QED BY <1>2, <1>4, <1>6, <1>7, <1>8 DEF LeftInv, Left

(* The watcher: a rename it drops leaves the file stranded.                *)
LEMMA LeftNotice ==
  ASSUME TypeInv, LeftInv, Notice
  PROVE  LeftInv'
<1> DEFINE r == Head(raw)
           d == Event4("deleted", r.path, Nil, 0)
           e == Event4(r.change, r.path, r.prev, fs[r.path].stamp)
<1>1. raw \in Seq(Raw) /\ raw # <<>> /\ queue \in Seq(Event) /\ fs \in [Path -> File]
  BY DEF TypeInv, TypeOK, WorldOK, Notice
<1>2. r \in Raw /\ r.path \in Path /\ (r.change = "moved" => r.prev \in Path)
  <2>1. r \in Raw
    BY <1>1
  <2> QED BY <2>1 DEF Raw
<1>3. /\ queue' = IF r.change = "deleted" THEN Append(queue, d)
                  ELSE IF Visible(r.path) THEN Append(queue, e) ELSE queue
      /\ raw' = Tail(raw) /\ UNCHANGED <<fs, pc, ev, meta>>
      /\ stranded' = IF r.change = "moved" /\ ~Visible(r.path) /\ ~Exists(r.prev)
                     THEN stranded \cup {r.prev} ELSE stranded
  BY DEF Notice, locals, stores
<1>4. fs[r.path].stamp \in Nat
  BY <1>1, <1>2 DEF File
<1>5. /\ d \in Event /\ e \in Event
      /\ r.change = "deleted" => \A p : (Ends(d, p) <=> Ends(r, p)) /\ ~Brings(d, p)
      /\ r.change # "deleted" => \A p : (Ends(e, p) <=> Ends(r, p)) /\ (Brings(e, p) <=> Brings(r, p))
  BY <1>2, <1>4 DEF Event4, Event, Raw, Ends, Brings
<1>6. UNCHANGED <<Existing, Owned>>
  BY <1>3 DEF Existing, Exists, Owned
<1> HIDE DEF d, e, r
<1>7. SUFFICES ASSUME NEW p \in Missing' PROVE Left(p)'
  BY DEF LeftInv
<1>8. p \in Path /\ p \notin Existing /\ p \in Missing
  BY <1>3, <1>6 DEF Missing
<1>9. /\ 1 \in DOMAIN raw /\ r = raw[1]
      /\ \A i \in DOMAIN raw' : /\ i + 1 \in DOMAIN raw /\ raw'[i] = raw[i + 1]
                                /\ Follows(raw, i + 1, p) => Follows(raw', i, p)
      /\ Follows(raw, 1, p) => Says(raw', p)
      /\ Says(raw, p) => Says(raw', p) \/ Ends(r, p)
  BY <1>1, <1>3, SaysTail DEF r
<1>10. \A i \in DOMAIN raw' : Brings(raw'[i], p) => Follows(raw', i, p)
  BY <1>8, <1>9 DEF LeftInv, Left
<1>11. Brings(r, p) => Says(raw', p)
  BY <1>8, <1>9 DEF LeftInv, Left
<1>12. ASSUME NEW n \in Event, queue' = Append(queue, n),
              \A x : (Ends(n, x) <=> Ends(r, x)) /\ (Brings(n, x) => Brings(r, x))
       PROVE  Left(p)'
  <2>1. /\ \A i \in DOMAIN queue' : queue'[i] = n \/ (i \in DOMAIN queue /\ queue'[i] = queue[i])
        /\ \A i \in DOMAIN queue : Follows(queue, i, p) \/ Ends(n, p) => Follows(queue', i, p)
        /\ Says(queue, p) \/ Ends(n, p) => Says(queue', p)
    BY <1>1, <1>12, SaysAppend
  <2>2. Says(queue, p) \/ Says(raw, p) => Says(queue', p) \/ Says(raw', p)
    BY <1>9, <1>12, <2>1
  <2>3. \A i \in DOMAIN queue' : Brings(queue'[i], p) => Follows(queue', i, p) \/ Says(raw', p)
    BY <1>8, <1>9, <1>11, <1>12, <2>1 DEF LeftInv, Left
  <2> QED BY <1>3, <1>6, <1>8, <1>10, <2>2, <2>3 DEF LeftInv, Left
<1>13. CASE r.change # "deleted" /\ ~Visible(r.path)
  <2>1. queue' = queue
    BY <1>3, <1>13
  <2>2. ~Ends(r, p)
    <3>1. r.change = "moved" /\ r.prev = p => p \in stranded'
      BY <1>3, <1>8, <1>13 DEF Existing
    <3> QED BY <1>13, <3>1 DEF Ends, Missing
  <2>3. Says(raw, p) => Says(raw', p)
    BY <1>9, <2>2
  <2> QED BY <1>3, <1>6, <1>8, <1>10, <2>1, <2>3 DEF LeftInv, Left
<1> QED BY <1>3, <1>5, <1>12, <1>13

(* The catch-up scan emits an event for files only.                        *)
LEMMA LeftScan ==
  ASSUME TypeInv, LeftInv, NEW x \in Path, Scan(x)
  PROVE  LeftInv'
<1> DEFINE e == Event4("created", x, Nil, fs[x].stamp)
<1>1. queue \in Seq(Event) /\ fs[x].stamp \in Nat
  BY DEF TypeInv, TypeOK, WorldOK, File
<1>2. /\ queue' = IF Visible(x) THEN Append(queue, e) ELSE queue
      /\ UNCHANGED <<raw, fs, pc, ev, meta, stranded>>
  BY DEF Scan, locals, stores, marks
<1>3. e \in Event /\ e.path = x
  BY <1>1 DEF Event4, Event
<1>4. UNCHANGED <<Existing, Owned, Missing>>
  BY <1>2 DEF Existing, Exists, Owned, Missing
<1>5. Visible(x) => x \notin Missing
  BY Universe DEF Visible, Missing, Existing, Exists
<1> HIDE DEF e
<1>6. SUFFICES ASSUME NEW p \in Missing PROVE Left(p)'
  BY <1>4 DEF LeftInv
<1>7. CASE queue' = queue
  BY <1>2, <1>4, <1>7 DEF LeftInv, Left
<1>8. CASE Visible(x) /\ queue' = Append(queue, e)
  <2>1. /\ \A i \in DOMAIN queue' : queue'[i] = e \/ (i \in DOMAIN queue /\ queue'[i] = queue[i])
        /\ \A i \in DOMAIN queue : Follows(queue, i, p) \/ Ends(e, p) => Follows(queue', i, p)
        /\ Says(queue, p) \/ Ends(e, p) => Says(queue', p)
    BY <1>1, <1>3, <1>8, SaysAppend
  <2>2. ~Brings(e, p)
    BY <1>3, <1>5, <1>8 DEF Brings
  <2> QED BY <1>2, <1>4, <2>1, <2>2 DEF LeftInv, Left
<1> QED BY <1>2, <1>7, <1>8

(* What the worker takes is in hand, and what it drops is no end.          *)
LEMMA LeftTake ==
  ASSUME TypeInv, LeftInv, Take \/ Debounce
  PROVE  LeftInv'
<1>1. /\ queue # <<>> /\ queue' = Tail(queue) /\ UNCHANGED <<raw, fs, meta, stranded>> /\ pc = "idle"
      /\ \/ /\ ev' = Head(queue)
            /\ ev'.change = "deleted" => pc' = "purge"
            /\ ev'.change = "moved" => pc' = "move"
         \/ pc' = "idle" /\ Head(queue).change = "modified"
  BY DEF Take, Debounce, At, Goto, stores
<1>2. queue \in Seq(Event)
  BY DEF TypeInv, TypeOK, WorldOK
<1>3. UNCHANGED <<Existing, Owned, Missing>>
  BY <1>1 DEF Existing, Exists, Owned, Missing
<1>4. SUFFICES ASSUME NEW p \in Missing PROVE Left(p)'
  BY <1>3 DEF LeftInv
<1>5. /\ 1 \in DOMAIN queue /\ Head(queue) = queue[1]
      /\ \A i \in DOMAIN queue' : /\ i + 1 \in DOMAIN queue /\ queue'[i] = queue[i + 1]
                                  /\ Follows(queue, i + 1, p) => Follows(queue', i, p)
      /\ Follows(queue, 1, p) => Says(queue', p)
      /\ Says(queue, p) => Says(queue', p) \/ Ends(queue[1], p)
  BY <1>1, <1>2, SaysTail
<1>6. \A i \in DOMAIN queue' : Brings(queue'[i], p) => Follows(queue', i, p) \/ Says(raw', p)
  BY <1>1, <1>5 DEF LeftInv, Left
<1>7. pc' # "idle" /\ Brings(ev', p) => Says(queue', p) \/ Says(raw', p)
  BY <1>1, <1>5 DEF LeftInv, Left
<1>8. Says(queue, p) => \/ Says(queue', p)
                        \/ pc' = "purge" /\ ev'.path = p
                        \/ pc' = "move" /\ ev'.prev = p
  BY <1>1, <1>5 DEF Ends
<1> QED BY <1>1, <1>3, <1>6, <1>7, <1>8 DEF LeftInv, Left

(* index_file ends, or goes on with its event.                             *)
LEMMA WorkerGoesOn ==
  ASSUME Worker, ~Take, ~Debounce
  PROVE  /\ UNCHANGED <<fs, ops, held, raw, queue, toScan, up, counts, marks>>
         /\ pc # "idle" /\ (Finish \/ (ev' = ev /\ pc' # "idle"))
<1>1. UNCHANGED <<fs, ops, held, raw, queue, toScan, up, counts, marks>>
  BY WorkerFrame
<1>2. CASE Purge \/ Rename \/ Moved \/ Stat \/ TooLarge \/ Drop \/ UpsertEmpty
  BY <1>1, <1>2 DEF Purge, Drop, Rename, Moved, Stat, TooLarge, UpsertEmpty, At, Goto, DropThen, locals
<1>3. CASE Hash("hash", "parse") \/ Hash("hashEmpty", "upsertEmpty") \/ Reuse \/ Clone
             \/ \E o \in {"ok", "stub", "failed"} : Parse(o)
  BY <1>1, <1>3 DEF Hash, Reuse, Clone, Parse, At, Goto, DropThen, locals
<1>4. CASE Clear \/ ReplaceChunks \/ FtsUpsert \/ EnqueueJobs
  BY <1>1, <1>4 DEF Clear, ReplaceChunks, FtsUpsert, EnqueueJobs, At, Goto, DropThen, locals
<1> QED BY <1>2, <1>3, <1>4 DEF Worker

(* A rename gives the row of the former path to the new one.               *)
LEMMA RenameIs ==
  ASSUME TypeInv, Rename
  PROVE  LET d == DocAt(ev.prev) IN
         /\ pc = "move" /\ pc' \in {"stat", "moved", "drop"} /\ UNCHANGED <<ev, old, seen, got, fts, jobs>>
         /\ d = NoId => UNCHANGED <<id, victim, then, meta, chunks>> /\ pc' = "stat"
         /\ d # NoId =>
              /\ d \in DocId /\ meta[d].path = ev.prev /\ id' = d /\ chunks'[d] = chunks[d]
              /\ meta'[d].path = ev.path /\ meta'[d].stamp = meta[d].stamp /\ meta'[d].ok = meta[d].ok
              /\ \A x \in DocId : x # d => \/ meta'[x] = meta[x] /\ chunks'[x] = chunks[x]
                                           \/ meta'[x] = NoRow /\ meta[x].path = ev.path
              /\ \/ pc' = "moved"
                 \/ /\ pc' = "drop" /\ then' = "moved" /\ victim' # d
                    /\ victim' \in DocId /\ meta'[victim'] = NoRow
<1> DEFINE d == DocAt(ev.prev)
           e == DocAt(ev.path)
<1>1. meta \in [DocId -> Row] /\ chunks \in [DocId -> SUBSET Chunk]
  BY DEF TypeInv, TypeOK, StoresOK
<1>2. d \in DocId \cup {NoId} /\ (d # NoId => meta[d].path = ev.prev)
  BY DocAtIs
<1>3. e \in DocId \cup {NoId} /\ (e # NoId => meta[e].path = ev.path)
  BY DocAtIs
<1>4. pc = "move"
  BY DEF Rename, At
<1>5. CASE d = NoId
  <2>1. UNCHANGED <<ev, old, seen, got, fts, jobs, id, victim, then, meta, chunks>> /\ pc' = "stat"
    BY <1>5 DEF Rename, Goto, stores
  <2> HIDE DEF d
  <2> QED BY <1>4, <1>5, <2>1 DEF d
<1>6. CASE d # NoId
  <2>1. UNCHANGED <<ev, old, seen, got, fts, jobs>> /\ id' = d
    BY <1>6 DEF Rename, stores
  <2>2. meta' = [x \in DocId |-> IF x = d THEN [meta[d] EXCEPT !.path = ev.path]
                                ELSE IF x = e THEN NoRow ELSE meta[x]]
    BY <1>6 DEF Rename
  <2>3. chunks' = IF e \in {NoId, d} THEN chunks ELSE [chunks EXCEPT ![e] = {}]
    BY <1>6 DEF Rename
  <2>4. IF e \in {NoId, d} THEN pc' = "moved" ELSE pc' = "drop" /\ victim' = e /\ then' = "moved"
    BY <1>6 DEF Rename, Goto, DropThen
  <2> HIDE DEF d, e
  <2>5. d \in DocId /\ meta[d] \in Row
    BY <1>1, <1>2, <1>6
  <2>6. meta'[d] = [meta[d] EXCEPT !.path = ev.path]
    BY <2>2, <2>5
  <2>7. meta'[d].path = ev.path /\ meta'[d].stamp = meta[d].stamp /\ meta'[d].ok = meta[d].ok
    BY <2>5, <2>6 DEF Row
  <2>8. \A x \in DocId : x # d => meta'[x] = IF x = e THEN NoRow ELSE meta[x]
    BY <2>2
  <2>9. \A x \in DocId : x = d \/ x # e => chunks'[x] = chunks[x]
    BY <1>1, <2>3
  <2>10. pc' = "moved" \/ (pc' = "drop" /\ then' = "moved" /\ victim' = e /\ e \in DocId /\ e # d)
    BY <1>3, <2>4
  <2>11. \A x \in DocId : x # d => \/ meta'[x] = meta[x] /\ chunks'[x] = chunks[x]
                                   \/ meta'[x] = NoRow /\ meta[x].path = ev.path
    <3> SUFFICES ASSUME NEW x \in DocId, x # d
                 PROVE  \/ meta'[x] = meta[x] /\ chunks'[x] = chunks[x]
                        \/ meta'[x] = NoRow /\ meta[x].path = ev.path
      OBVIOUS
    <3>1. CASE x = e
      <4>1. e # NoId
        BY <3>1, DocIds
      <4> QED BY <1>3, <2>8, <3>1, <4>1
    <3> QED BY <2>8, <2>9, <3>1
  <2>12. pc' \in {"stat", "moved", "drop"}
    BY <2>10
  <2>13. pc' = "moved" \/ (pc' = "drop" /\ then' = "moved" /\ victim' # d
                              /\ victim' \in DocId /\ meta'[victim'] = NoRow)
    BY <2>8, <2>10
  <2>14. meta[d].path = ev.prev /\ chunks'[d] = chunks[d]
    BY <1>2, <1>6, <2>5, <2>9
  <2> QED BY <1>4, <1>6, <2>1, <2>5, <2>7, <2>11, <2>12, <2>13, <2>14 DEF d
<1> QED BY <1>5, <1>6


(* index_file gives a row the path of its event and no other.              *)
LEMMA OwnPath ==
  ASSUME TypeInv, Worker, ~Take, ~Debounce
  PROVE  \A d \in DocId : meta'[d].path \in {Nil, meta[d].path, ev.path}
<1>1. meta \in [DocId -> Row]
  BY DEF TypeInv, TypeOK, StoresOK
<1>2. \A d \in DocId : \A s, ok : Upsert(d, ev.path, s, ok) =>
        \A e \in DocId : meta'[e].path \in {meta[e].path, ev.path}
  BY <1>1 DEF Upsert
<1>3. \A d : DeleteRow(d) => \A e \in DocId : meta'[e].path \in {Nil, meta[e].path}
  BY <1>1 DEF DeleteRow, NoRow
<1>4. CASE Purge \/ Hash("hash", "parse") \/ Hash("hashEmpty", "upsertEmpty")
  <2>1. meta' = meta \/ \E d : DeleteRow(d)
    BY <1>4 DEF Purge, Hash, stores
  <2> QED BY <1>3, <2>1
<1>5. CASE TooLarge \/ UpsertEmpty \/ Reuse \/ \E o \in {"ok", "stub", "failed"} : Parse(o)
  <2>1. id \in DocId
    BY <1>5 DEF TypeInv, Handling, Named, TooLarge, UpsertEmpty, Reuse, Parse, At
  <2>2. meta' = meta \/ \E s, ok : Upsert(id, ev.path, s, ok)
    BY <1>5 DEF TooLarge, UpsertEmpty, Reuse, Parse
  <2> QED BY <1>2, <2>1, <2>2
<1>6. CASE Drop \/ Moved \/ Stat \/ Clone \/ Clear \/ ReplaceChunks \/ FtsUpsert \/ EnqueueJobs
  BY <1>6 DEF Drop, Moved, Stat, Clone, Clear, ReplaceChunks, FtsUpsert, EnqueueJobs, stores
<1>7. CASE Rename
  <2>1. DocAt(ev.prev) = NoId => meta' = meta
    BY <1>7, RenameIs
  <2>2. DocAt(ev.prev) # NoId => \A d \in DocId : \/ meta'[d].path = ev.path
                                                  \/ meta'[d] \in {meta[d], NoRow}
    BY <1>7, RenameIs
  <2> QED BY <2>1, <2>2 DEF NoRow
<1> QED BY <1>4, <1>5, <1>6, <1>7 DEF Worker

LEMMA DeletingWorker ==
  ASSUME TypeInv, Deleting, Worker
  PROVE  Deleting'
<1>1. CASE Take \/ Debounce
  BY <1>1 DEF Take, Debounce, Goto, Deleting, locals
<1>2. CASE Finish
  BY <1>2 DEF Finish, Deleting
<1>3. CASE ~Take /\ ~Debounce /\ ev' = ev /\ pc # "idle" /\ ~Finish
  <2>1. pc' # "purge"
    <3>1. CASE Drop
      BY <1>3, <3>1 DEF Drop, Goto, TypeInv, TypeOK, LocalsOK
    <3>2. CASE Purge \/ Rename \/ Moved \/ Stat \/ TooLarge \/ UpsertEmpty
      BY <1>3, <3>2 DEF Purge, Rename, Moved, Stat, TooLarge, UpsertEmpty, Goto, DropThen
    <3>3. CASE Hash("hash", "parse") \/ Hash("hashEmpty", "upsertEmpty") \/ Reuse \/ Clone
                 \/ \E o \in {"ok", "stub", "failed"} : Parse(o)
      BY <1>3, <3>3 DEF Hash, Reuse, Clone, Parse, Goto, DropThen
    <3>4. CASE Clear \/ ReplaceChunks \/ FtsUpsert \/ EnqueueJobs
      BY <1>3, <3>4 DEF Clear, ReplaceChunks, FtsUpsert, EnqueueJobs, Goto, DropThen
    <3> QED BY <1>3, <3>1, <3>2, <3>3, <3>4 DEF Worker
  <2>2. ASSUME ev.change = "deleted" PROVE pc' = "drop" /\ then' = "idle"
    <3>1. pc = "purge" \/ (pc = "drop" /\ then = "idle")
      BY <1>3, <2>2 DEF Deleting
    <3>2. Purge \/ Drop
      BY <1>3, <3>1 DEF Worker, Rename, Moved, Stat, TooLarge, UpsertEmpty, Hash, Reuse, Clone,
                    Parse, Clear, ReplaceChunks, FtsUpsert, EnqueueJobs, At
    <3> QED BY <1>3, <3>1, <3>2 DEF Purge, Drop, At, DropThen
  <2> QED BY <1>3, <2>1, <2>2 DEF Deleting
<1> QED BY <1>1, <1>2, <1>3, WorkerGoesOn

(* index_file: the row of an ended path goes with its event, and a row is  *)
(* given only to a path whose end is still to come.                        *)
LEMMA LeftWorker ==
  ASSUME TypeInv, OneOwner, Deleting, LeftInv, Worker, ~Take, ~Debounce
  PROVE  LeftInv'
<1>1. /\ UNCHANGED <<fs, raw, queue, stranded>> /\ pc # "idle"
      /\ (Finish \/ (ev' = ev /\ pc' # "idle"))
  BY WorkerGoesOn DEF marks
<1>2. UNCHANGED <<Existing, Missing>>
  BY <1>1 DEF Existing, Exists, Missing
<1>3. ev.path \in Path /\ Nil \notin Path
  BY <1>1, Universe DEF TypeInv, Handling, Event
<1>4. \A p \in Owned' : p \in Owned \/ p \in {Nil, ev.path}
  BY OwnPath DEF Owned
<1>5. ASSUME Purge PROVE ev.path \notin Owned' /\ \A p \in Owned' : p \in Owned \cup {Nil}
  <2>1. CASE DocAt(ev.path) = NoId
    <3>1. ev.path \notin Owned /\ meta' = meta
      BY <1>5, <2>1, DocAtIs DEF Purge, stores, Owned
    <3> QED BY <3>1 DEF Owned
  <2>2. CASE DocAt(ev.path) # NoId
    <3>1. DocAt(ev.path) \in DocId /\ \A d \in DocId : meta[d].path = ev.path => d = DocAt(ev.path)
      BY <1>3, <2>2, DocAtIs, DocAtOwner
    <3>2. \A d \in DocId : meta'[d] = IF d = DocAt(ev.path) THEN NoRow ELSE meta[d]
      BY <1>5, <2>2, <3>1 DEF Purge, DeleteRow, TypeInv, TypeOK, StoresOK
    <3>3. NoRow.path = Nil
      BY DEF NoRow
    <3> QED BY <1>3, <3>1, <3>2, <3>3 DEF Owned
  <2> QED BY <2>1, <2>2
<1>6. ASSUME Rename, ev.prev \in Path, ev.prev # ev.path PROVE ev.prev \notin Owned'
  <2>1. CASE DocAt(ev.prev) = NoId
    <3>1. ev.prev \notin Owned /\ meta' = meta
      BY <1>6, <2>1, DocAtIs, RenameIs DEF Owned
    <3> QED BY <3>1 DEF Owned
  <2>2. CASE DocAt(ev.prev) # NoId
    <3>1. \A x \in DocId : meta[x].path = ev.prev => x = DocAt(ev.prev)
      BY <1>6, DocAtOwner
    <3>2. \A x \in DocId : meta'[x].path = ev.path \/ (x # DocAt(ev.prev) /\ meta'[x] \in {meta[x], NoRow})
      BY <1>6, <2>2, RenameIs
    <3>3. NoRow.path = Nil
      BY DEF NoRow
    <3> QED BY <1>3, <1>6, <3>1, <3>2, <3>3 DEF Owned
  <2> QED BY <2>1, <2>2
<1>7. ev.change = "deleted" => \A p \in Owned' : p \in Owned \cup {Nil}
  <2>1. ev.change = "deleted" => Purge \/ Drop
    BY <1>1 DEF Deleting, Worker, Drop, Rename, Moved, Stat, TooLarge, UpsertEmpty, Hash, Reuse,
          Clone, Parse, Clear, ReplaceChunks, FtsUpsert, EnqueueJobs, At
  <2>2. Drop => Owned' = Owned
    BY DEF Drop, Owned
  <2> QED BY <1>5, <2>1, <2>2
<1>8. (pc = "purge" => Purge) /\ (pc = "move" => Rename)
  BY DEF Worker, Take, Debounce, Purge, Drop, Rename, Moved, Stat, TooLarge, UpsertEmpty, Hash,
         Reuse, Clone, Parse, Clear, ReplaceChunks, FtsUpsert, EnqueueJobs, At
<1>9. SUFFICES ASSUME NEW p \in Missing PROVE Left(p)'
  BY <1>2 DEF LeftInv
<1>10. Left(p) /\ p \in Path
  BY DEF LeftInv, Missing
<1>11. Brings(ev, p) => Says(queue, p) \/ Says(raw, p)
  BY <1>1, <1>10 DEF Left
<1>12. pc' # "idle" /\ Brings(ev', p) => Says(queue, p) \/ Says(raw, p)
  BY <1>1, <1>11 DEF Finish
<1>13. ASSUME p \in Owned' PROVE Says(queue, p) \/ Says(raw, p)
  <2>1. CASE p \notin Owned
    <3>1. p = ev.path /\ ev.change # "deleted"
      BY <1>3, <1>4, <1>7, <1>10, <1>13, <2>1
    <3> QED BY <1>11, <3>1 DEF Brings
  <2>2. CASE pc = "purge" /\ ev.path = p
    BY <1>5, <1>8, <1>13, <2>2
  <2>3. CASE pc = "move" /\ ev.prev = p
    <3>1. ev.prev = ev.path
      BY <1>6, <1>8, <1>10, <1>13, <2>3
    <3>2. ev.change # "deleted"
      BY <2>3 DEF Deleting
    <3> QED BY <1>11, <2>3, <3>1, <3>2 DEF Brings
  <2> QED BY <1>10, <2>1, <2>2, <2>3 DEF Left
<1> QED BY <1>1, <1>2, <1>10, <1>12, <1>13 DEF Left

LEMMA GhostInit == Init => GhostInv
<1> SUFFICES ASSUME Init PROVE GhostInv
  OBVIOUS
<1>1. DOMAIN raw = {} /\ DOMAIN queue = {} /\ pc = "idle" /\ up /\ forgetting = NoId
  BY DEF Init
<1>2. \A p \in Path : p \notin Owned
  BY Universe DEF Init, Owned, NoRow
<1>3. LeftInv
  BY <1>1, <1>2 DEF LeftInv, Left, Missing
<1> QED BY <1>1, <1>3 DEF GhostInv, Deleting

(* Once something has gone wrong, it has.                                  *)
LEMMA StaysDisturbed ==
  ASSUME TypeInv, [Next]_vars, Undisturbed'
  PROVE  /\ Undisturbed
         /\ up /\ forgetting = NoId =>
              \/ User \/ Notice \/ (\E p \in Path : Scan(p)) \/ Worker \/ UNCHANGED vars
<1>1. faults \in Nat /\ forgets \in Nat
  BY DEF TypeInv, TypeOK, CountsOK
<1>2. CASE User \/ Notice \/ (\E p \in Path : Scan(p)) \/ UNCHANGED vars
  BY <1>2 DEF User, Write, Remove, Move, Change, Notice, Scan, counts, vars, Undisturbed
<1>3. CASE Worker
  BY <1>3, WorkerFrame DEF counts, Undisturbed
<1>4. CASE (\E d \in DocId : Forget(d)) \/ Fail \/ Crash
  BY <1>1, <1>4 DEF Forget, Fail, Crash, Undisturbed
<1>5. CASE ForgetRows \/ Restart
  BY <1>5 DEF ForgetRows, Restart, counts, Undisturbed
<1> QED BY <1>2, <1>3, <1>4, <1>5 DEF Next

LEMMA GhostStep ==
  ASSUME TypeInv, OneOwner, GhostInv, [Next]_vars
  PROVE  GhostInv'
<1> SUFFICES ASSUME Undisturbed' PROVE up' /\ forgetting' = NoId /\ Deleting' /\ LeftInv'
  BY DEF GhostInv
<1>1. Undisturbed /\ up /\ forgetting = NoId /\ Deleting /\ LeftInv
  BY StaysDisturbed DEF GhostInv
<1>2. CASE User \/ Notice \/ \E p \in Path : Scan(p)
  <2>1. UNCHANGED <<up, forgetting, pc, ev, then>>
    BY <1>2 DEF User, Write, Remove, Move, Change, Notice, Scan, counts, locals
  <2>2. LeftInv'
    BY <1>1, <1>2, LeftUser, LeftNotice, LeftScan
  <2> QED BY <1>1, <2>1, <2>2 DEF Deleting
<1>3. CASE Worker
  <2>1. UNCHANGED <<up, forgetting>>
    BY <1>3, WorkerFrame DEF counts
  <2> QED BY <1>1, <1>3, <2>1, DeletingWorker, LeftTake, LeftWorker
<1>4. CASE UNCHANGED vars
  <2>1. UNCHANGED <<fs, raw, queue, pc, ev, then, meta, up, forgetting, stranded>>
    BY <1>4 DEF vars, locals, stores, counts, marks
  <2>2. UNCHANGED <<Existing, Owned, Missing>>
    BY <2>1 DEF Existing, Exists, Owned, Missing
  <2> QED BY <1>1, <2>1, <2>2 DEF Deleting, LeftInv, Left
<1> QED BY <1>1, <1>2, <1>3, <1>4, StaysDisturbed

(* Whatever the user writes, copies, renames and removes, and when, while  *)
(* the watcher, the scan and index_file are at any step: when nothing is   *)
(* left to do no row points at a file that is gone, unless it went by a    *)
(* rename the watcher dropped because the file was gone again, or too      *)
(* large, under its new path before the watcher looked.                    *)
THEOREM NoGhostsLeft == Spec => []NoGhosts
<1> DEFINE I == UniqueInv /\ GhostInv
<1>1. I => NoGhosts
  <2> SUFFICES ASSUME I, Quiet, Undisturbed, NEW d \in DocId, HasRow(d)
               PROVE  Exists(meta[d].path) \/ meta[d].path \in stranded
    BY DEF NoGhosts
  <2>1. meta[d].path \in Path /\ meta[d].path \in Owned
    BY DEF UniqueInv, TypeInv, TypeOK, StoresOK, Row, HasRow, Owned
  <2>2. DOMAIN raw = {} /\ DOMAIN queue = {} /\ pc = "idle"
    BY DEF Quiet
  <2>3. meta[d].path \notin Missing
    BY <2>1, <2>2 DEF GhostInv, LeftInv, Left, Says
  <2> QED BY <2>1, <2>3 DEF Missing, Existing
<1>2. Init => I
  BY UniqueInit, GhostInit
<1>3. I /\ [Next]_vars => I'
  BY UniqueStep, GhostStep DEF UniqueInv
<1> QED BY <1>1, <1>2, <1>3, PTL DEF Spec

-----------------------------------------------------------------------------
(* Every file is served.  Nobody copies a content or writes an empty file, *)
(* a parser that gives up fails, and who renames does so when the index is *)
(* quiet, and has no file that is too large for it.                        *)

Restrained ==
  /\ MoveWhen = "never" \/ (MoveWhen = "quiet" /\ Huge = {} /\ Large = {})
  /\ DupWhen = "never" /\ Empty = {} /\ "stub" \notin Outcomes

(* Paths something is still to be noticed of, paths of waiting events, and *)
(* the path index_file is at.                                              *)
Coming == {raw[i].path : i \in DOMAIN raw}
Queued == {queue[i].path : i \in DOMAIN queue}
Later  == Coming \cup Queued
InHand == IF pc = "idle" THEN {} ELSE {ev.path}

(* The latest of what s says about a path.                                 *)
Latest(s, i) == \A j \in DOMAIN s : j > i => s[j].path # s[i].path

(* The events that tell what has become of their files.                    *)
Current == {e \in Event : /\ e.path \in Seen => e.change # "deleted" /\ e.stamp = fs[e.path].stamp
                          /\ e.path \notin Existing => e.change = "deleted"}

(* The latest notification of a path says whether there is a file, and an  *)
(* event nothing comes after tells what has become of it.                  *)
RawNews   == \A i \in DOMAIN raw :
               Latest(raw, i) => (raw[i].change = "deleted" <=> raw[i].path \notin Existing)
QueueNews == \A i \in DOMAIN queue :
               queue[i].path \notin Coming /\ Latest(queue, i) => queue[i] \in Current
HandNews  == pc # "idle" /\ ev.path \notin Later => ev \in Current
NewsInv   == RawNews /\ QueueNews /\ HandNews

(* The renames whose row has still to follow, wherever they are on the way. *)
Shift(e)   == [from |-> e.prev, to |-> e.path]
RawMoves   == {i \in DOMAIN raw : raw[i].change = "moved"}
QueueMoves == {i \in DOMAIN queue : queue[i].change = "moved"}
Noticing   == {Shift(raw[i]) : i \in RawMoves}
Waiting    == {Shift(queue[i]) : i \in QueueMoves}
Handled    == IF pc = "move" THEN {Shift(ev)} ELSE {}
Renaming   == Noticing \cup Waiting \cup Handled
From       == {m.from : m \in Renaming}

(* A rename is made when all is quiet, so it is the first thing to be      *)
(* noticed, the first to be taken, and at the path it left there is no     *)
(* file, or one that something is still to be noticed of.                  *)
MoveInv ==
  /\ \A i \in RawMoves : i = 1 /\ queue = <<>> /\ toScan = {} /\ pc = "idle"
  /\ \A i \in QueueMoves : i = 1 /\ pc = "idle"
  /\ pc = "move" => ev.change = "moved"
  /\ \A m \in Renaming : /\ MoveWhen = "quiet" /\ m.from # m.to
                         /\ m.from \in Existing => m.from \in Later

-----------------------------------------------------------------------------
(* Sequences of notifications and events.                                  *)

LEMMA LatestAppend ==
  ASSUME NEW S, NEW s \in Seq(S), NEW e \in S
  PROVE  LET t == Append(s, e) IN
         /\ DOMAIN t = DOMAIN s \cup {Len(s) + 1} /\ t[Len(s) + 1] = e
         /\ \A i \in DOMAIN s : t[i] = s[i]
         /\ \A i \in DOMAIN s : Latest(t, i) => Latest(s, i) /\ s[i].path # e.path
<1> DEFINE t == Append(s, e)
<1>1. /\ DOMAIN t = DOMAIN s \cup {Len(s) + 1} /\ t[Len(s) + 1] = e
      /\ \A i \in DOMAIN s : t[i] = s[i]
  OBVIOUS
<1>2. \A i \in DOMAIN s : Len(s) + 1 > i
  OBVIOUS
<1> HIDE DEF t
<1>3. \A i \in DOMAIN s : Latest(t, i) => Latest(s, i) /\ s[i].path # e.path
  BY <1>1, <1>2 DEF Latest
<1> QED BY <1>1, <1>3 DEF t

LEMMA LatestTail ==
  ASSUME NEW S, NEW s \in Seq(S), s # <<>>
  PROVE  LET t == Tail(s) IN
         /\ 1 \in DOMAIN s /\ Head(s) = s[1]
         /\ \A i \in DOMAIN t : i + 1 \in DOMAIN s /\ t[i] = s[i + 1]
         /\ \A i \in DOMAIN s : i = 1 \/ \E k \in DOMAIN t : t[k] = s[i]
         /\ \A i \in DOMAIN t : Latest(t, i) => Latest(s, i + 1)
         /\ (\A i \in DOMAIN t : t[i].path # s[1].path) => Latest(s, 1)
<1> DEFINE t == Tail(s)
<1>1. /\ 1 \in DOMAIN s /\ Head(s) = s[1] /\ DOMAIN s = 1..Len(s)
      /\ DOMAIN t = 1..(Len(s) - 1) /\ Len(s) \in Nat
      /\ \A i \in DOMAIN t : i + 1 \in DOMAIN s /\ t[i] = s[i + 1]
  OBVIOUS
<1> HIDE DEF t
<1>2. ASSUME NEW i \in DOMAIN s, i # 1 PROVE i - 1 \in DOMAIN t /\ t[i - 1] = s[i]
  BY <1>1, <1>2
<1>3. ASSUME NEW i \in DOMAIN t, Latest(t, i) PROVE Latest(s, i + 1)
  <2> SUFFICES ASSUME NEW j \in DOMAIN s, j > i + 1 PROVE s[j].path # s[i + 1].path
    BY DEF Latest
  <2>1. j # 1 /\ j - 1 > i
    BY <1>1
  <2>2. j - 1 \in DOMAIN t /\ t[j - 1] = s[j]
    BY <1>2, <2>1
  <2> QED BY <1>1, <1>3, <2>1, <2>2 DEF Latest
<1>4. ASSUME \A i \in DOMAIN t : t[i].path # s[1].path PROVE Latest(s, 1)
  <2> SUFFICES ASSUME NEW j \in DOMAIN s, j > 1 PROVE s[j].path # s[1].path
    BY DEF Latest
  <2> QED BY <1>1, <1>2, <1>4
<1> QED BY <1>1, <1>2, <1>3, <1>4 DEF t

-----------------------------------------------------------------------------
(* What the steps outside index_file do.                                   *)

(* The user writes or removes the file at p, and the OS says r.            *)
Changed(p, r) ==
  /\ raw' = Append(raw, r) /\ r.path = p /\ r.change # "moved"
  /\ r.change = "deleted" <=> fs'[p].text = Nil
  /\ \A q \in Path : q # p => fs'[q] = fs[q]
  /\ fs'[p].text # Nil => fs'[p].stamp = ops + 1
  /\ fs'[p].stamp <= ops + 1 /\ ops' = ops + 1
  /\ \A c \in Text : held[c] \subseteq held'[c]
  /\ fs'[p].text # Nil => p \in held'[fs'[p].text]
  /\ fs'[p].text # Nil /\ DupWhen = "never" => held[fs'[p].text] \subseteq {p}
  /\ UNCHANGED <<queue, toScan, up, pc, locals, stores, counts, lastSeen, missed, outrun>>

(* The user renames p to q, and the OS says r.                             *)
Shifted(p, q, r) ==
  /\ Quiet /\ MoveWhen = "quiet" /\ p # q /\ Exists(p)
  /\ r.change = "moved" /\ r.path = q /\ r.prev = p
  /\ raw' = <<r>>
  /\ fs'[q] = fs[p] /\ fs'[p] = Gone
  /\ \A x \in Path : x \notin {p, q} => fs'[x] = fs[x]
  /\ ops' = ops + 1
  /\ q \in held'[fs[p].text] /\ \A c \in Text : held[c] \subseteq held'[c]
  /\ outrun' = (outrun \/ p \in missed)
  /\ UNCHANGED <<queue, toScan, up, pc, locals, stores, counts, lastSeen, missed>>

LEMMA UserIs ==
  ASSUME Restrained, TypeInv, up, User
  PROVE  \/ \E p \in Path : \E r \in Raw : Changed(p, r)
         \/ \E p, q \in Path : \E r \in Raw : Shifted(p, q, r)
<1>1. /\ ops \in Nat /\ fs \in [Path -> File] /\ held \in [Text -> SUBSET Path]
      /\ \A p \in Path : Exists(p) => fs[p].text \in Text
  BY DEF TypeInv, TypeOK, WorldOK, File, Exists
<1>2. ASSUME NEW p \in Path, NEW c \in Text, Write(p, c)
      PROVE  \E r \in Raw : Changed(p, r)
  <2> DEFINE r == [change |-> IF Exists(p) THEN "modified" ELSE "created", path |-> p, prev |-> Nil]
  <2>1. r \in Raw /\ r.path = p /\ r.change \notin {"deleted", "moved"}
    BY DEF Raw
  <2>2. raw' = Append(raw, r)
    BY <1>2 DEF Write, Notify
  <2>3. fs'[p] = [text |-> c, stamp |-> ops + 1] /\ c # Nil
    BY <1>1, <1>2, Universe DEF Write
  <2>4. fs'[p].text = c /\ fs'[p].stamp = ops + 1
    BY <2>3
  <2>5. \A q \in Path : q # p => fs'[q] = fs[q]
    BY <1>1, <1>2 DEF Write
  <2>6. ops' = ops + 1 /\ UNCHANGED <<queue, toScan, up, pc, locals, stores, counts, lastSeen, missed, outrun>>
    BY <1>2 DEF Write, Change
  <2>8. held' = [held EXCEPT ![c] = held[c] \cup {p}]
        /\ (DupWhen = "never" => held[c] \subseteq {p})
    BY <1>2 DEF Write, Allowed
  <2>9. p \in held'[c] /\ \A b \in Text : held[b] \subseteq held'[b]
    BY <1>1, <2>8
  <2> HIDE DEF r
  <2>10. Changed(p, r)
    BY <1>1, <2>1, <2>2, <2>3, <2>4, <2>5, <2>6, <2>8, <2>9 DEF Changed
  <2> QED BY <2>1, <2>10
<1>3. ASSUME NEW p \in Path, Remove(p)
      PROVE  \E r \in Raw : Changed(p, r)
  <2> DEFINE r == [change |-> "deleted", path |-> p, prev |-> Nil]
  <2>1. r \in Raw /\ r.path = p /\ r.change = "deleted"
    BY DEF Raw
  <2>2. raw' = Append(raw, r)
    BY <1>3 DEF Remove, Notify
  <2>3. fs'[p].text = Nil /\ fs'[p].stamp = 0
    BY <1>1, <1>3 DEF Remove, Gone
  <2>4. \A q \in Path : q # p => fs'[q] = fs[q]
    BY <1>1, <1>3 DEF Remove
  <2>5. ops' = ops + 1 /\ UNCHANGED <<queue, toScan, up, pc, locals, stores, counts, lastSeen, missed, outrun>>
    BY <1>3 DEF Remove, Change
  <2>7. held' = held
    BY <1>3 DEF Remove
  <2> HIDE DEF r
  <2>8. Changed(p, r)
    BY <1>1, <2>1, <2>2, <2>3, <2>4, <2>5, <2>7 DEF Changed
  <2> QED BY <2>1, <2>8
<1>4. ASSUME NEW p \in Path, NEW q \in Path, Move(p, q)
      PROVE  \E r \in Raw : Shifted(p, q, r)
  <2> DEFINE r == [change |-> "moved", path |-> q, prev |-> p]
  <2>1. r \in Raw /\ r.path = q /\ r.prev = p /\ r.change = "moved"
    BY DEF Raw
  <2>2. Quiet /\ MoveWhen = "quiet" /\ p # q /\ Exists(p)
    BY <1>4 DEF Move, Allowed, Restrained
  <2>3. raw' = <<r>>
    BY <1>4, <2>2 DEF Move, Notify, Quiet
  <2>4. fs' = [fs EXCEPT ![q] = fs[p], ![p] = Gone] /\ ops' = ops + 1
        /\ outrun' = (outrun \/ p \in missed)
        /\ UNCHANGED <<queue, toScan, up, pc, locals, stores, counts, lastSeen, missed>>
    BY <1>4 DEF Move, Change
  <2>5. fs'[q] = fs[p] /\ fs'[p] = Gone /\ \A x \in Path : x \notin {p, q} => fs'[x] = fs[x]
    BY <1>1, <2>2, <2>4
  <2>6. held' = [held EXCEPT ![fs[p].text] = held[fs[p].text] \cup {q}] /\ fs[p].text \in Text
    BY <1>1, <1>4 DEF Move
  <2>7. q \in held'[fs[p].text] /\ \A c \in Text : held[c] \subseteq held'[c]
    BY <1>1, <2>6
  <2> HIDE DEF r
  <2>8. Shifted(p, q, r)
    BY <2>1, <2>2, <2>3, <2>4, <2>5, <2>7 DEF Shifted
  <2> QED BY <2>1, <2>8
<1> QED BY <1>2, <1>3, <1>4 DEF User

LEMMA NoticeIs ==
  ASSUME TypeInv, Notice
  PROVE  \E r \in Raw :
           /\ raw # <<>> /\ r = raw[1] /\ raw' = Tail(raw)
           /\ UNCHANGED <<fs, ops, held, toScan, up, pc, locals, stores, counts, lastSeen, missed, outrun>>
           /\ \/ queue' = queue /\ r.path \notin Seen /\ r.change # "deleted"
              \/ \E e \in Event :
                   /\ queue' = Append(queue, e) /\ e.path = r.path /\ e.change = r.change
                   /\ e.stamp = 0 \/ (e.path \in Seen /\ e.stamp = fs[e.path].stamp)
                   /\ r.change = "moved" => e.prev = r.prev
                   /\ (r.change = "deleted" <=> r.path \notin Existing) => e \in Current
<1> DEFINE r == Head(raw)
           d == Event4("deleted", r.path, Nil, 0)
           e == Event4(r.change, r.path, r.prev, fs[r.path].stamp)
<1>1. raw \in Seq(Raw) /\ raw # <<>> /\ fs \in [Path -> File]
  BY DEF TypeInv, TypeOK, WorldOK, Notice
<1>2. r \in Raw /\ r = raw[1]
  BY <1>1
<1>3. r.path \in Path /\ fs[r.path].stamp \in Nat
  BY <1>1, <1>2 DEF Raw, File
<1>4. /\ queue' = IF r.change = "deleted" THEN Append(queue, d)
                  ELSE IF Visible(r.path) THEN Append(queue, e) ELSE queue
      /\ raw' = Tail(raw) /\ UNCHANGED <<fs, ops, held, toScan, up, pc, locals, stores, counts, lastSeen, missed, outrun>>
  BY DEF Notice
<1>5. d \in Event /\ d.path = r.path /\ d.change = "deleted" /\ d.stamp = 0
  BY <1>3 DEF Event4, Event
<1>6. /\ e \in Event /\ e.path = r.path /\ e.prev = r.prev /\ e.change = r.change
      /\ e.stamp = fs[r.path].stamp
  BY <1>2, <1>3 DEF Event4, Event, Raw
<1>7. Seen \subseteq Existing /\ (r.path \in Seen <=> Visible(r.path))
  BY <1>3, Universe DEF Seen, Existing, Visible, Exists
<1> HIDE DEF r, d, e
<1>8. CASE r.change = "deleted"
  <2>1. r.path \notin Existing => d \in Current
    BY <1>5, <1>7 DEF Current
  <2> QED BY <1>1, <1>2, <1>3, <1>4, <1>5, <1>8, <2>1
<1>9. CASE r.change # "deleted" /\ Visible(r.path)
  <2>1. e \in Current
    BY <1>6, <1>7, <1>9 DEF Current
  <2> QED BY <1>1, <1>2, <1>3, <1>4, <1>6, <1>7, <1>9, <2>1
<1>10. CASE r.change # "deleted" /\ ~Visible(r.path)
  BY <1>1, <1>2, <1>3, <1>4, <1>7, <1>10
<1> QED BY <1>8, <1>9, <1>10

LEMMA ScanIs ==
  ASSUME TypeInv, NEW p \in Path, Scan(p)
  PROVE  /\ UNCHANGED <<fs, ops, held, raw, up, pc, locals, stores, counts, marks>>
         /\ toScan' = toScan \ {p}
         /\ \/ queue' = queue /\ p \notin Seen
            \/ \E e \in Current : /\ queue' = Append(queue, e) /\ e.path = p
                                  /\ e.stamp = fs[p].stamp
<1> DEFINE e == Event4("created", p, Nil, fs[p].stamp)
<1>1. fs[p].stamp \in Nat
  BY DEF TypeInv, TypeOK, WorldOK, File
<1>2. e \in Event /\ e.path = p /\ e.change = "created" /\ e.stamp = fs[p].stamp
  BY <1>1 DEF Event4, Event
<1>3. /\ queue' = IF Visible(p) THEN Append(queue, e) ELSE queue
      /\ UNCHANGED <<fs, ops, held, raw, up, pc, locals, stores, counts, marks>>
      /\ toScan' = toScan \ {p}
  BY DEF Scan
<1>4. p \in Seen <=> Visible(p)
  BY DEF Seen
<1>5. Visible(p) => p \in Existing
  BY Universe DEF Visible, Exists, Existing
<1> HIDE DEF e
<1>6. Visible(p) => e \in Current
  BY <1>2, <1>5 DEF Current
<1> QED BY <1>2, <1>3, <1>4, <1>6
-----------------------------------------------------------------------------
(* The latest news of a file are true.                                     *)

LEMMA NewsUser ==
  ASSUME TypeInv, NewsInv, NEW p \in Path, NEW r \in Raw, Changed(p, r)
  PROVE  /\ NewsInv'
         /\ Coming' = Coming \cup {p} /\ Queued' = Queued /\ InHand' = InHand
         /\ \A q \in Path \ {p} : /\ q \in Existing' <=> q \in Existing
                                  /\ q \in Seen' <=> q \in Seen
                                  /\ fs'[q] = fs[q]
<1>1. raw \in Seq(Raw) /\ queue \in Seq(Event)
  BY DEF TypeInv, TypeOK, WorldOK
<1>2. /\ DOMAIN raw' = DOMAIN raw \cup {Len(raw) + 1} /\ raw'[Len(raw) + 1] = r
      /\ \A i \in DOMAIN raw : raw'[i] = raw[i]
      /\ \A i \in DOMAIN raw : Latest(raw', i) => Latest(raw, i) /\ raw[i].path # p
  <2>1. raw' = Append(raw, r) /\ r.path = p
    BY DEF Changed
  <2> QED BY <1>1, <2>1, LatestAppend
<1>3. /\ r.path = p /\ (r.change = "deleted" <=> p \notin Existing')
      /\ UNCHANGED <<queue, pc, ev>>
  BY DEF Changed, locals, Existing, Exists
<1>4. Coming' = Coming \cup {p} /\ Queued' = Queued /\ InHand' = InHand
  BY <1>2, <1>3 DEF Coming, Queued, InHand
<1>5. \A q \in Path \ {p} : /\ q \in Existing' <=> q \in Existing
                            /\ q \in Seen' <=> q \in Seen
                            /\ fs'[q] = fs[q]
  BY DEF Changed, Existing, Exists, Seen, Visible
<1>6. RawNews'
  <2> SUFFICES ASSUME NEW i \in DOMAIN raw', Latest(raw', i)
               PROVE  raw'[i].change = "deleted" <=> raw'[i].path \notin Existing'
    BY DEF RawNews
  <2>1. CASE i \in DOMAIN raw
    <3>1. raw'[i] = raw[i] /\ Latest(raw, i) /\ raw[i].path # p
      BY <1>2, <2>1
    <3>2. raw[i] \in Raw
      BY <1>1, <2>1
    <3>3. raw[i].path \in Path
      BY <3>2 DEF Raw
    <3> QED BY <1>5, <2>1, <3>1, <3>3 DEF NewsInv, RawNews
  <2>2. CASE i = Len(raw) + 1
    BY <1>2, <1>3, <2>2
  <2> QED BY <1>2, <2>1, <2>2
<1>7. \A e \in Current : e.path # p => e \in Current'
  BY <1>5 DEF Current, Event
<1>8. QueueNews'
  BY <1>3, <1>4, <1>7 DEF NewsInv, QueueNews
<1>9. HandNews'
  BY <1>3, <1>4, <1>7 DEF NewsInv, HandNews, Later
<1> QED BY <1>4, <1>5, <1>6, <1>8, <1>9 DEF NewsInv

LEMMA NewsNotice ==
  ASSUME TypeInv, NewsInv, Notice
  PROVE  /\ NewsInv'
         /\ UNCHANGED <<Existing, Seen, InHand>>
         /\ \A p \in Later : p \in Later' \/ p \in Existing \ Seen
<1>1. PICK r \in Raw :
           /\ raw # <<>> /\ r = raw[1] /\ raw' = Tail(raw)
           /\ UNCHANGED <<fs, ops, held, toScan, up, pc, locals, stores, counts, lastSeen, missed, outrun>>
           /\ \/ queue' = queue /\ r.path \notin Seen /\ r.change # "deleted"
              \/ \E e \in Event :
                   /\ queue' = Append(queue, e) /\ e.path = r.path /\ e.change = r.change
                   /\ e.stamp = 0 \/ (e.path \in Seen /\ e.stamp = fs[e.path].stamp)
                   /\ r.change = "moved" => e.prev = r.prev
                   /\ (r.change = "deleted" <=> r.path \notin Existing) => e \in Current
  BY NoticeIs
<1>2. raw \in Seq(Raw) /\ queue \in Seq(Event)
  BY DEF TypeInv, TypeOK, WorldOK
<1>3. /\ 1 \in DOMAIN raw /\ r = raw[1]
      /\ \A i \in DOMAIN raw' : i + 1 \in DOMAIN raw /\ raw'[i] = raw[i + 1]
      /\ \A i \in DOMAIN raw : i = 1 \/ \E k \in DOMAIN raw' : raw'[k] = raw[i]
      /\ \A i \in DOMAIN raw' : Latest(raw', i) => Latest(raw, i + 1)
      /\ (\A i \in DOMAIN raw' : raw'[i].path # raw[1].path) => Latest(raw, 1)
  BY <1>1, <1>2, LatestTail
<1>4. /\ UNCHANGED <<fs, pc, ev>>
      /\ UNCHANGED <<Existing, Seen, InHand, Current>>
  BY <1>1 DEF locals, Existing, Exists, Seen, Visible, InHand, Current
<1>5. Coming = Coming' \cup {r.path}
  BY <1>3 DEF Coming
<1>6. r.path \notin Coming' => (r.change = "deleted" <=> r.path \notin Existing)
  BY <1>3 DEF Coming, NewsInv, RawNews
<1>7. RawNews'
  BY <1>3, <1>4 DEF NewsInv, RawNews
<1>8. r.path \in Path
  BY DEF Raw
<1>9. CASE queue' = queue /\ r.path \notin Seen /\ r.change # "deleted"
  <2>1. r.path \notin Coming' => \A e \in Event : e.path = r.path => e \in Current
    BY <1>6, <1>9 DEF Current
  <2>2. Queued' = Queued
    BY <1>9 DEF Queued
  <2>3. \A i \in DOMAIN queue : queue[i] \in Event
    BY <1>2
  <2>4. QueueNews'
    BY <1>4, <1>5, <1>9, <2>1, <2>3 DEF NewsInv, QueueNews
  <2>5. HandNews'
    <3>1. pc # "idle" => ev \in Event
      BY DEF TypeInv, Handling
    <3> QED BY <1>4, <1>5, <2>1, <2>2, <3>1 DEF NewsInv, HandNews, Later
  <2>6. \A p \in Later : p \in Later' \/ p \in Existing \ Seen
    BY <1>5, <1>6, <1>8, <1>9, <2>2 DEF Later
  <2> QED BY <1>4, <1>7, <2>4, <2>5, <2>6 DEF NewsInv
<1>10. ASSUME NEW e \in Event, queue' = Append(queue, e), e.path = r.path,
              (r.change = "deleted" <=> r.path \notin Existing) => e \in Current
       PROVE  NewsInv' /\ \A p \in Later : p \in Later'
  <2>1. /\ DOMAIN queue' = DOMAIN queue \cup {Len(queue) + 1} /\ queue'[Len(queue) + 1] = e
        /\ \A i \in DOMAIN queue : queue'[i] = queue[i]
        /\ \A i \in DOMAIN queue : Latest(queue', i) => Latest(queue, i) /\ queue[i].path # e.path
    BY <1>2, <1>10, LatestAppend
  <2>2. Queued' = Queued \cup {r.path}
    BY <1>10, <2>1 DEF Queued
  <2>3. QueueNews'
    BY <1>4, <1>5, <1>6, <1>10, <2>1 DEF NewsInv, QueueNews
  <2>4. HandNews'
    BY <1>4, <1>5, <2>2 DEF NewsInv, HandNews, Later
  <2> QED BY <1>5, <1>7, <2>2, <2>3, <2>4 DEF NewsInv, Later
<1> QED BY <1>1, <1>4, <1>9, <1>10

LEMMA NewsScan ==
  ASSUME TypeInv, NewsInv, NEW p \in Path, Scan(p)
  PROVE  /\ NewsInv'
         /\ UNCHANGED <<Existing, Seen, InHand>> /\ Later \subseteq Later'
<1>1. /\ UNCHANGED <<fs, ops, held, raw, up, pc, locals, stores, counts, marks>>
      /\ \/ queue' = queue
         \/ \E e \in Current : queue' = Append(queue, e)
  BY ScanIs
<1>2. queue \in Seq(Event)
  BY DEF TypeInv, TypeOK, WorldOK
<1>3. /\ UNCHANGED <<fs, raw, pc, ev>>
      /\ UNCHANGED <<Existing, Seen, InHand, Coming, Current, RawNews>>
  BY <1>1 DEF locals, Existing, Exists, Seen, Visible, InHand, Coming, Current, RawNews
<1>4. CASE queue' = queue
  BY <1>3, <1>4 DEF NewsInv, QueueNews, HandNews, Later, Queued
<1>5. ASSUME NEW e \in Current, queue' = Append(queue, e)
      PROVE  NewsInv' /\ Later \subseteq Later'
  <2>1. /\ DOMAIN queue' = DOMAIN queue \cup {Len(queue) + 1} /\ queue'[Len(queue) + 1] = e
        /\ \A i \in DOMAIN queue : queue'[i] = queue[i]
        /\ \A i \in DOMAIN queue : Latest(queue', i) => Latest(queue, i) /\ queue[i].path # e.path
    <3>1. e \in Event
      BY DEF Current
    <3> QED BY <1>2, <1>5, <3>1, LatestAppend
  <2>2. Later \subseteq Later'
    BY <1>3, <2>1 DEF Later, Queued
  <2>3. QueueNews'
    BY <1>3, <2>1 DEF NewsInv, QueueNews
  <2>4. HandNews'
    BY <1>3, <2>2 DEF NewsInv, HandNews
  <2> QED BY <1>3, <2>2, <2>3, <2>4 DEF NewsInv
<1> QED BY <1>1, <1>3, <1>4, <1>5

LEMMA NewsTake ==
  ASSUME TypeInv, NewsInv, Take \/ Debounce
  PROVE  /\ NewsInv' /\ UNCHANGED <<Existing, Seen>> /\ InHand = {}
         /\ Later \cup missed \subseteq Later' \cup InHand' \cup missed'
<1>1. /\ queue # <<>> /\ queue' = Tail(queue) /\ UNCHANGED <<fs, raw>> /\ pc = "idle"
      /\ \/ ev' = Head(queue) /\ pc' # "idle" /\ missed' = missed \ {ev'.path}
         \/ pc' = "idle" /\ missed' = missed \cup {Head(queue).path}
  BY DEF Take, Debounce, At, Goto
<1>2. queue \in Seq(Event)
  BY DEF TypeInv, TypeOK, WorldOK
<1>3. /\ 1 \in DOMAIN queue /\ Head(queue) = queue[1]
      /\ \A i \in DOMAIN queue' : i + 1 \in DOMAIN queue /\ queue'[i] = queue[i + 1]
      /\ \A i \in DOMAIN queue : i = 1 \/ \E k \in DOMAIN queue' : queue'[k] = queue[i]
      /\ \A i \in DOMAIN queue' : Latest(queue', i) => Latest(queue, i + 1)
      /\ (\A i \in DOMAIN queue' : queue'[i].path # queue[1].path) => Latest(queue, 1)
  BY <1>1, <1>2, LatestTail
<1>4. UNCHANGED <<Existing, Seen, Coming, Current, RawNews>>
  BY <1>1 DEF Existing, Exists, Seen, Visible, Coming, Current, RawNews
<1>5. Queued = Queued' \cup {Head(queue).path}
  BY <1>3 DEF Queued
<1>6. InHand = {} /\ (ev' = Head(queue) /\ pc' # "idle" => InHand' = {Head(queue).path})
  BY <1>1 DEF InHand
<1>7. QueueNews'
  BY <1>3, <1>4 DEF NewsInv, QueueNews
<1>8. HandNews'
  BY <1>1, <1>3, <1>4, <1>5 DEF NewsInv, QueueNews, HandNews, Later, Queued
<1>9. Later \cup missed \subseteq Later' \cup InHand' \cup missed'
  BY <1>1, <1>4, <1>5, <1>6 DEF Later
<1> QED BY <1>4, <1>6, <1>7, <1>8, <1>9 DEF NewsInv

LEMMA NewsWorker ==
  ASSUME NewsInv, Worker, ~Take, ~Debounce
  PROVE  NewsInv' /\ UNCHANGED <<Existing, Seen, Later>>
<1>1. /\ UNCHANGED <<fs, raw, queue>>
      /\ Finish \/ (ev' = ev /\ pc # "idle")
  BY WorkerGoesOn
<1>2. UNCHANGED <<Existing, Seen, Coming, Queued, Later, Current, RawNews, QueueNews>>
  BY <1>1 DEF Existing, Exists, Seen, Visible, Coming, Queued, Later, Current, RawNews, QueueNews
<1>3. HandNews'
  BY <1>1, <1>2 DEF NewsInv, HandNews, Finish
<1> QED BY <1>2, <1>3 DEF NewsInv

-----------------------------------------------------------------------------

-----------------------------------------------------------------------------
(* Renames on their way.                                                   *)

LEMMA NewsShift ==
  ASSUME Restrained, TypeInv, NewsInv, NEW p \in Path, NEW q \in Path, NEW r \in Raw, Shifted(p, q, r)
  PROVE  /\ NewsInv' /\ Coming = {} /\ Later = {} /\ Later' = {q} /\ InHand = {} /\ InHand' = {}
         /\ p \in Seen /\ p \notin Existing' /\ q \in Seen'
         /\ \A x \in Path \ {p, q} : /\ x \in Existing' <=> x \in Existing
                                     /\ x \in Seen' <=> x \in Seen
                                     /\ fs'[x] = fs[x]
<1>1. /\ raw = <<>> /\ queue = <<>> /\ pc = "idle" /\ UNCHANGED <<queue, pc, ev>>
      /\ raw' = <<r>> /\ r.path = q /\ r.change = "moved" /\ Huge = {}
      /\ p # q /\ fs[p].text # Nil /\ fs'[q] = fs[p] /\ fs'[p] = Gone
      /\ \A x \in Path : x \notin {p, q} => fs'[x] = fs[x]
  BY DEF Shifted, Quiet, locals, Restrained, Exists
<1>2. fs[p].text \in Text /\ Gone.text = Nil
  BY <1>1 DEF TypeInv, TypeOK, WorldOK, File, Gone
<1>3. DOMAIN raw' = {1} /\ raw'[1] = r /\ DOMAIN queue' = {} /\ DOMAIN raw = {}
  BY <1>1
<1>4. p \in Seen /\ p \notin Existing' /\ q \in Seen' /\ q \in Existing'
  BY <1>1, <1>2 DEF Seen, Visible, Existing, Exists
<1>5. \A x \in Path \ {p, q} : /\ x \in Existing' <=> x \in Existing
                               /\ x \in Seen' <=> x \in Seen
                               /\ fs'[x] = fs[x]
  BY <1>1 DEF Seen, Visible, Existing, Exists
<1>6. Coming' = {q} /\ Queued' = {} /\ Coming = {} /\ Queued = {}
  BY <1>1, <1>3 DEF Coming, Queued
<1>7. RawNews'
  BY <1>1, <1>3, <1>4 DEF RawNews
<1>8. QueueNews' /\ HandNews'
  BY <1>1, <1>3 DEF QueueNews, HandNews
<1>9. InHand = {} /\ InHand' = {}
  BY <1>1 DEF InHand
<1> QED BY <1>4, <1>5, <1>6, <1>7, <1>8, <1>9 DEF NewsInv, Later

LEMMA MovesUser ==
  ASSUME TypeInv, NewsInv, MoveInv, NEW p \in Path, NEW r \in Raw, Changed(p, r)
  PROVE  MoveInv' /\ UNCHANGED Renaming
<1>1. raw \in Seq(Raw) /\ raw' = Append(raw, r) /\ r.change # "moved"
      /\ UNCHANGED <<queue, toScan, pc, ev>>
  BY DEF TypeInv, TypeOK, WorldOK, Changed, locals
<1>2. DOMAIN raw' = DOMAIN raw \cup {Len(raw) + 1} /\ raw'[Len(raw) + 1] = r
      /\ \A i \in DOMAIN raw : raw'[i] = raw[i]
  BY <1>1, LatestAppend
<1>3. RawMoves' = RawMoves /\ \A i \in RawMoves : raw'[i] = raw[i]
  BY <1>1, <1>2 DEF RawMoves
<1>4. UNCHANGED <<Noticing, QueueMoves, Waiting, Handled>>
  BY <1>1, <1>3 DEF Noticing, QueueMoves, Waiting, Handled
<1>5. UNCHANGED Renaming
  BY <1>4 DEF Renaming
<1>6. \A m \in Renaming : m.from \in Existing' => m.from \in Later'
  <2>1. Later' = Later \cup {p} /\ \A q \in Path \ {p} : q \in Existing' <=> q \in Existing
    BY NewsUser DEF Later
  <2> QED BY <2>1 DEF MoveInv, Existing
<1> QED BY <1>1, <1>3, <1>4, <1>5, <1>6 DEF MoveInv

LEMMA MovesShift ==
  ASSUME Restrained, TypeInv, NewsInv, MoveInv,
         NEW p \in Path, NEW q \in Path, NEW r \in Raw, Shifted(p, q, r)
  PROVE  MoveInv' /\ Renaming = {} /\ Renaming' = {[from |-> p, to |-> q]} /\ From' = {p}
<1>1. /\ raw = <<>> /\ queue = <<>> /\ pc = "idle" /\ toScan = {} /\ UNCHANGED <<queue, pc, ev, toScan>>
      /\ raw' = <<r>> /\ r.path = q /\ r.prev = p /\ r.change = "moved" /\ MoveWhen = "quiet"
      /\ p # q
  BY DEF Shifted, Quiet, locals
<1>2. DOMAIN raw' = {1} /\ raw'[1] = r /\ DOMAIN queue = {} /\ DOMAIN raw = {}
  BY <1>1
<1>3. RawMoves' = {1} /\ RawMoves = {} /\ QueueMoves = {} /\ QueueMoves' = {}
  BY <1>1, <1>2 DEF RawMoves, QueueMoves
<1>4. Noticing' = {[from |-> p, to |-> q]} /\ Noticing = {}
  BY <1>1, <1>2, <1>3 DEF Noticing, Shift
<1>5. Waiting = {} /\ Waiting' = {} /\ Handled = {} /\ Handled' = {}
  BY <1>1, <1>3 DEF Waiting, Handled
<1>6. Renaming = {} /\ Renaming' = {[from |-> p, to |-> q]}
  BY <1>4, <1>5 DEF Renaming
<1>7. From' = {p}
  BY <1>6 DEF From
<1>8. p \notin Existing'
  BY NewsShift
<1>9. \A m \in Renaming' : /\ MoveWhen = "quiet" /\ m.from # m.to
                           /\ m.from \in Existing' => m.from \in Later'
  BY <1>1, <1>6, <1>8
<1> QED BY <1>1, <1>3, <1>6, <1>7, <1>9 DEF MoveInv

(* The watcher passes a rename on, or drops it when its file is gone.      *)
LEMMA MovesNotice ==
  ASSUME Restrained, TypeInv, NewsInv, MoveInv, Notice
  PROVE  /\ MoveInv'
         /\ \/ UNCHANGED Renaming
            \/ Renaming' = {} /\ \A m \in Renaming : m.to \notin Existing
<1>1. PICK r \in Raw :
           /\ raw # <<>> /\ r = raw[1] /\ raw' = Tail(raw)
           /\ UNCHANGED <<fs, ops, held, toScan, up, pc, locals, stores, counts, lastSeen, missed, outrun>>
           /\ \/ queue' = queue /\ r.path \notin Seen /\ r.change # "deleted"
              \/ \E e \in Event :
                   /\ queue' = Append(queue, e) /\ e.path = r.path /\ e.change = r.change
                   /\ e.stamp = 0 \/ (e.path \in Seen /\ e.stamp = fs[e.path].stamp)
                   /\ r.change = "moved" => e.prev = r.prev
                   /\ (r.change = "deleted" <=> r.path \notin Existing) => e \in Current
  BY NoticeIs
<1>2. raw \in Seq(Raw) /\ queue \in Seq(Event) /\ UNCHANGED <<fs, pc, ev, toScan>>
  BY <1>1 DEF TypeInv, TypeOK, WorldOK, locals
<1>3. UNCHANGED <<Existing, Seen, Handled>>
  BY <1>2 DEF Existing, Exists, Seen, Visible, Handled
<1>4. 1 \in DOMAIN raw /\ \A i \in DOMAIN raw' : i \in Nat \ {0} /\ i + 1 \in DOMAIN raw /\ raw'[i] = raw[i + 1]
  <2>1. \A i \in DOMAIN raw' : i \in Nat \ {0}
    BY <1>1, <1>2
  <2> QED BY <1>1, <1>2, <2>1, LatestTail
<1>5. RawMoves' = {} /\ RawMoves \subseteq {1} /\ (1 \in RawMoves <=> r.change = "moved")
  <2>1. \A i \in RawMoves : i = 1
    BY DEF MoveInv
  <2>2. \A i \in RawMoves' : i + 1 \in RawMoves /\ i + 1 # 1
    BY <1>4 DEF RawMoves
  <2> QED BY <1>1, <1>4, <2>1, <2>2 DEF RawMoves
<1>6. Noticing' = {} /\ Noticing = IF r.change = "moved" THEN {Shift(r)} ELSE {}
  <2>1. CASE r.change = "moved"
    <3>1. RawMoves = {1}
      BY <1>5, <2>1
    <3> QED BY <1>1, <1>5, <2>1, <3>1 DEF Noticing
  <2>2. CASE r.change # "moved"
    <3>1. RawMoves = {}
      BY <1>5, <2>2
    <3> QED BY <1>5, <2>2, <3>1 DEF Noticing
  <2> QED BY <2>1, <2>2
<1>7. \A m \in Renaming : m.from \in Existing => m.from \in Later'
  <2> SUFFICES ASSUME NEW m \in Renaming, m.from \in Existing PROVE m.from \in Later'
    OBVIOUS
  <2>1. Huge = {} /\ m.from \in Later
    BY DEF MoveInv, Restrained
  <2>2. Existing \subseteq Seen
    <3>1. \A x \in Path : fs[x].text \in Text \cup {Nil}
      BY DEF TypeInv, TypeOK, WorldOK, File
    <3> QED BY <2>1, <3>1 DEF Existing, Seen, Exists, Visible
  <2> QED BY <2>1, <2>2, NewsNotice
<1>8. CASE r.change = "moved"
  <2>1. queue = <<>> /\ pc = "idle" /\ QueueMoves = {} /\ Waiting = {} /\ Handled = {}
    <3>1. queue = <<>> /\ pc = "idle"
      BY <1>5, <1>8 DEF MoveInv
    <3>2. QueueMoves = {}
      BY <3>1 DEF QueueMoves
    <3> QED BY <3>1, <3>2 DEF Waiting, Handled
  <2>2. Renaming = {Shift(r)}
    BY <1>6, <1>8, <2>1 DEF Renaming
  <2>3. CASE queue' = queue /\ r.path \notin Seen
    <3>1. QueueMoves' = {} /\ Waiting' = {}
      BY <2>1, <2>3 DEF QueueMoves, Waiting
    <3>2. Renaming' = {}
      BY <1>3, <1>6, <2>1, <3>1 DEF Renaming
    <3>3. Huge = {} /\ r.path \in Path
      <4>1. MoveWhen = "quiet"
        BY <2>2 DEF MoveInv
      <4> QED BY <4>1 DEF Restrained, Raw
    <3>4. r.path \notin Existing
      <4>1. fs[r.path].text \in Text \cup {Nil}
        BY <3>3 DEF TypeInv, TypeOK, WorldOK, File
      <4> QED BY <2>3, <3>3, <4>1 DEF Existing, Seen, Exists, Visible
    <3> QED BY <1>2, <1>5, <2>2, <3>1, <3>2, <3>4 DEF MoveInv, Shift
  <2>4. ASSUME NEW e \in Event, queue' = Append(queue, e), e.path = r.path, e.change = "moved", e.prev = r.prev
        PROVE  MoveInv' /\ UNCHANGED Renaming
    <3>1. DOMAIN queue' = {1} /\ queue'[1] = e
      BY <1>2, <2>1, <2>4
    <3>2. QueueMoves' = {1}
      BY <2>4, <3>1 DEF QueueMoves
    <3>3. Waiting' = {Shift(r)}
      BY <2>4, <3>1, <3>2 DEF Waiting, Shift
    <3>4. UNCHANGED Renaming
      BY <1>3, <1>6, <2>1, <2>2, <3>3 DEF Renaming
    <3> QED BY <1>2, <1>3, <1>5, <1>7, <2>1, <3>2, <3>4 DEF MoveInv
  <2> QED BY <1>1, <1>8, <2>3, <2>4
<1>9. CASE r.change # "moved"
  <2>1. QueueMoves' = QueueMoves /\ \A i \in QueueMoves : queue'[i] = queue[i]
    <3>1. CASE queue' = queue
      BY <3>1 DEF QueueMoves
    <3>2. ASSUME NEW e \in Event, queue' = Append(queue, e), e.change # "moved"
          PROVE  QueueMoves' = QueueMoves /\ \A i \in QueueMoves : queue'[i] = queue[i]
      <4>1. DOMAIN queue' = DOMAIN queue \cup {Len(queue) + 1} /\ queue'[Len(queue) + 1] = e
            /\ \A i \in DOMAIN queue : queue'[i] = queue[i]
        BY <1>2, <3>2, LatestAppend
      <4> QED BY <3>2, <4>1 DEF QueueMoves
    <3> QED BY <1>1, <1>9, <3>1, <3>2
  <2>2. Waiting' = Waiting /\ Noticing = {}
    BY <1>6, <1>9, <2>1 DEF Waiting
  <2>3. UNCHANGED Renaming
    BY <1>3, <1>6, <2>2 DEF Renaming
  <2> QED BY <1>2, <1>3, <1>5, <1>7, <2>1, <2>3 DEF MoveInv
<1> QED BY <1>8, <1>9

LEMMA MovesScan ==
  ASSUME TypeInv, NewsInv, MoveInv, NEW p \in Path, Scan(p)
  PROVE  MoveInv' /\ UNCHANGED Renaming
<1>1. /\ UNCHANGED <<fs, raw, pc, ev>> /\ p \in toScan
      /\ queue' = queue \/ \E e \in Event : queue' = Append(queue, e) /\ e.change # "moved"
  <2> DEFINE e == Event4("created", p, Nil, fs[p].stamp)
  <2>1. fs[p].stamp \in Nat
    BY DEF TypeInv, TypeOK, WorldOK, File
  <2>2. e \in Event /\ e.change # "moved"
    BY <2>1 DEF Event4, Event
  <2>3. queue' = queue \/ queue' = Append(queue, e)
    BY DEF Scan
  <2> HIDE DEF e
  <2> QED BY <2>2, <2>3 DEF Scan, locals
<1>2. queue \in Seq(Event)
  BY DEF TypeInv, TypeOK, WorldOK
<1>3. RawMoves = {} /\ RawMoves' = {}
  <2>1. RawMoves = {}
    BY <1>1 DEF MoveInv
  <2> QED BY <1>1, <2>1 DEF RawMoves
<1>4. QueueMoves' = QueueMoves /\ \A i \in QueueMoves : queue'[i] = queue[i]
  <2>1. CASE queue' = queue
    BY <2>1 DEF QueueMoves
  <2>2. ASSUME NEW e \in Event, queue' = Append(queue, e), e.change # "moved"
        PROVE  QueueMoves' = QueueMoves /\ \A i \in QueueMoves : queue'[i] = queue[i]
    <3>1. DOMAIN queue' = DOMAIN queue \cup {Len(queue) + 1} /\ queue'[Len(queue) + 1] = e
          /\ \A i \in DOMAIN queue : queue'[i] = queue[i]
      BY <1>2, <2>2, LatestAppend
    <3> QED BY <2>2, <3>1 DEF QueueMoves
  <2> QED BY <1>1, <2>1, <2>2
<1>5. Noticing = {} /\ Noticing' = {} /\ Waiting' = Waiting /\ Handled' = Handled
  BY <1>1, <1>3, <1>4 DEF Noticing, Waiting, Handled
<1>6. UNCHANGED Renaming
  BY <1>5 DEF Renaming
<1>7. UNCHANGED Existing /\ Later \subseteq Later'
  BY NewsScan
<1> QED BY <1>1, <1>3, <1>4, <1>6, <1>7 DEF MoveInv

LEMMA MovesTake ==
  ASSUME TypeInv, NewsInv, MoveInv, Take
  PROVE  MoveInv' /\ UNCHANGED Renaming
<1>1. /\ queue # <<>> /\ ev' = Head(queue) /\ queue' = Tail(queue)
      /\ UNCHANGED <<fs, raw>> /\ pc = "idle"
      /\ pc' = "move" <=> ev'.change = "moved"
  BY DEF Take, At, Goto, outside
<1>2. queue \in Seq(Event)
  BY DEF TypeInv, TypeOK, WorldOK
<1>3. /\ 1 \in DOMAIN queue /\ ev' = queue[1]
      /\ \A i \in DOMAIN queue' : i \in Nat \ {0} /\ i + 1 \in DOMAIN queue /\ queue'[i] = queue[i + 1]
      /\ \A i \in DOMAIN queue : i = 1 \/ \E k \in DOMAIN queue' : queue'[k] = queue[i]
  <2>1. \A i \in DOMAIN queue' : i \in Nat \ {0}
    BY <1>1, <1>2
  <2> QED BY <1>1, <1>2, <2>1, LatestTail
<1>4. RawMoves = {} /\ RawMoves' = {}
  <2>1. RawMoves = {}
    BY <1>1 DEF MoveInv
  <2> QED BY <1>1, <2>1 DEF RawMoves
<1>5. QueueMoves' = {} /\ QueueMoves \subseteq {1} /\ (1 \in QueueMoves <=> ev'.change = "moved")
  <2>1. \A i \in QueueMoves : i = 1
    BY DEF MoveInv
  <2>2. \A i \in QueueMoves' : i + 1 \in QueueMoves /\ i + 1 # 1
    BY <1>3 DEF QueueMoves
  <2> QED BY <1>3, <2>1, <2>2 DEF QueueMoves
<1>6. Noticing = {} /\ Noticing' = {} /\ Waiting' = {} /\ Handled = {}
  BY <1>1, <1>4, <1>5 DEF Noticing, Waiting, Handled
<1>7. Handled' = Waiting
  <2>1. CASE ev'.change = "moved"
    <3>1. QueueMoves = {1}
      BY <1>5, <2>1
    <3> QED BY <1>1, <1>3, <2>1, <3>1 DEF Handled, Waiting
  <2>2. CASE ev'.change # "moved"
    <3>1. QueueMoves = {}
      BY <1>5, <2>2
    <3> QED BY <1>1, <2>2, <3>1 DEF Handled, Waiting
  <2> QED BY <2>1, <2>2
<1>8. UNCHANGED Renaming
  BY <1>6, <1>7 DEF Renaming
<1>9. \A m \in Renaming : m.from \in Existing' => m.from \in Later'
  <2> SUFFICES ASSUME NEW m \in Renaming, m.from \in Existing' PROVE m.from \in Later'
    OBVIOUS
  <2>1. m \in Handled' /\ Existing' = Existing
    BY <1>1, <1>6, <1>8 DEF Renaming, Existing, Exists
  <2>2. m = Shift(ev')
    BY <2>1 DEF Handled
  <2>3. m.to = ev'.path
    BY <2>2 DEF Shift
  <2>4. m.from \in Later /\ m.from # ev'.path
    BY <2>1, <2>3 DEF MoveInv
  <2>5. Queued = Queued' \cup {ev'.path} /\ Coming' = Coming
    BY <1>1, <1>3 DEF Queued, Coming
  <2> QED BY <2>4, <2>5 DEF Later
<1> QED BY <1>1, <1>4, <1>5, <1>8, <1>9 DEF MoveInv

LEMMA MovesWorker ==
  ASSUME TypeInv, MoveInv, Worker, ~Take, ~Debounce
  PROVE  /\ MoveInv' /\ Renaming' = {}
         /\ \A m \in Renaming : pc = "move" /\ m = Shift(ev) /\ Rename
<1>1. UNCHANGED <<fs, raw, queue>> /\ pc # "idle" /\ (Finish \/ (ev' = ev /\ pc' # "idle"))
  BY WorkerGoesOn
<1>2. RawMoves = {} /\ QueueMoves = {}
  BY <1>1 DEF MoveInv
<1>3. RawMoves' = {} /\ QueueMoves' = {}
  BY <1>1, <1>2 DEF RawMoves, QueueMoves
<1>4. pc' # "move"
  <2>1. CASE Drop
    BY <2>1 DEF Drop, Goto, Finish, TypeInv, TypeOK, LocalsOK
  <2>2. CASE Purge \/ Moved \/ Stat \/ TooLarge \/ UpsertEmpty
    BY <2>2 DEF Purge, Moved, Stat, TooLarge, UpsertEmpty, Goto, DropThen, Finish
  <2>3. CASE Hash("hash", "parse") \/ Hash("hashEmpty", "upsertEmpty") \/ Reuse \/ Clone
               \/ \E o \in {"ok", "stub", "failed"} : Parse(o)
    BY <2>3 DEF Hash, Reuse, Clone, Parse, Goto, DropThen, Finish
  <2>4. CASE Clear \/ ReplaceChunks \/ FtsUpsert \/ EnqueueJobs
    BY <2>4 DEF Clear, ReplaceChunks, FtsUpsert, EnqueueJobs, Goto, DropThen, Finish
  <2>5. CASE Rename
    BY <2>5, RenameIs
  <2> QED BY <2>1, <2>2, <2>3, <2>4, <2>5 DEF Worker
<1>5. Noticing' = {} /\ Waiting' = {} /\ Handled' = {} /\ Noticing = {} /\ Waiting = {}
  BY <1>2, <1>3, <1>4 DEF Noticing, Waiting, Handled
<1>6. Renaming' = {}
  BY <1>5 DEF Renaming
<1>7. \A m \in Renaming : pc = "move" /\ m = Shift(ev)
  BY <1>5 DEF Renaming, Handled
<1>8. pc = "move" => Rename
  BY DEF Worker, Take, Debounce, Purge, Drop, Moved, Stat, TooLarge, UpsertEmpty, Hash, Reuse, Clone,
         Parse, Clear, ReplaceChunks, FtsUpsert, EnqueueJobs, At
<1> QED BY <1>3, <1>4, <1>6, <1>7, <1>8 DEF MoveInv

(* A rename is never dropped once it is an event.                          *)
LEMMA MovesDebounce ==
  ASSUME TypeInv, MoveInv, Debounce
  PROVE  MoveInv' /\ Renaming = {} /\ Renaming' = {}
<1>1. /\ queue # <<>> /\ Head(queue).change = "modified" /\ queue' = Tail(queue)
      /\ UNCHANGED <<raw, pc>> /\ pc = "idle"
  BY DEF Debounce, At
<1>2. queue \in Seq(Event)
  BY DEF TypeInv, TypeOK, WorldOK
<1>3. /\ 1 \in DOMAIN queue /\ Head(queue) = queue[1]
      /\ \A i \in DOMAIN queue' : i + 1 \in DOMAIN queue /\ queue'[i] = queue[i + 1]
  BY <1>1, <1>2, LatestTail
<1>4. QueueMoves = {} /\ QueueMoves' = {}
  <2>1. QueueMoves = {}
    BY <1>1, <1>3 DEF MoveInv, QueueMoves
  <2>2. \A i \in QueueMoves' : i + 1 \in QueueMoves
    BY <1>3 DEF QueueMoves
  <2> QED BY <2>1, <2>2
<1>5. RawMoves = {} /\ RawMoves' = {}
  <2>1. RawMoves = {}
    BY <1>1 DEF MoveInv
  <2> QED BY <1>1, <2>1 DEF RawMoves
<1>6. Renaming = {} /\ Renaming' = {}
  BY <1>1, <1>4, <1>5 DEF Renaming, Noticing, Waiting, Handled
<1> QED BY <1>1, <1>4, <1>5, <1>6 DEF MoveInv

(* A stamp was given by a change that has been made, and to one file.      *)
StampInv ==
  /\ \A p \in Path : fs[p].stamp <= ops
  /\ \A i \in DOMAIN queue : queue[i].stamp <= ops
  /\ ev.stamp <= ops /\ seen <= ops
  /\ \A d \in DocId : meta[d].stamp <= ops
  /\ \A p, q \in Existing : fs[p].stamp = fs[q].stamp => p = q

(* No file but that at p has content c, and d is no duplicate but the name *)
(* of a content that p has had, or of the path itself.                     *)
Tied(c, p) == \A q \in Path : fs[q].text = c => q = p
Home(d, p) == /\ d.kind # "dup" /\ (d.kind = "skip" => d.path = p /\ Large # {})
              /\ d.kind = "sha" => p \in held[d.text]

(* The documents whose content no file has but that at the path of the row, *)
(* or the one it was renamed to where the row has still to follow.         *)
Settled == {d \in DocId : d.kind = "sha" =>
              /\ meta[d].path \notin From => Tied(d.text, meta[d].path)
              /\ \A m \in Renaming : m.from = meta[d].path => m.to \in held[d.text] /\ Tied(d.text, m.to)}

(* d has the path index_file is at, or none.                               *)
Own(d) == d \in DocId => meta[d].path \in {Nil, ev.path}

(* A content is at home at one path, and so is the document named after    *)
(* it: nothing is a duplicate.                                             *)
FilesOnly == \A p \in Path : Exists(p) => p \in held[fs[p].text] /\ Tied(fs[p].text, p)
RowsOnly  == \A d \in DocId : HasRow(d) => Home(d, meta[d].path) /\ d \in Settled
HandOnly  ==
  /\ Named => Home(id, ev.path) /\ (id.kind = "sha" => Tied(id.text, ev.path))
  /\ old.kind # "dup"
  /\ pc \notin {"hashEmpty", "upsertEmpty", "clone"} /\ then # "upsertEmpty"
  /\ Large = {} => pc # "tooLarge"
  /\ pc = "hash" => Own(old)
  /\ Writing => Own(id)
OnlyInv   == FilesOnly /\ RowsOnly /\ HandOnly

(* index_file has written the row, and the rest of it is under way.        *)
Working == \/ pc \in {"clear", "chunk", "fts", "enqueue"}
           \/ pc = "drop" /\ then = "idle" /\ ev.change # "deleted"

(* The documents whose row has the stamp of the file, and those that have  *)
(* all that belongs to the file at p, or at the path of their row.         *)
Fitting == {d \in DocId : meta[d].path \in Seen /\ meta[d].stamp = fs[meta[d].path].stamp}
WholeAt(d, p) == IF meta[d].ok
                 THEN /\ chunks[d] = Pieces(fs[p].text)
                      /\ chunks[d] \subseteq fts[d] /\ d \in jobs
                 ELSE chunks[d] = {}
Whole   == {d \in DocId : WholeAt(d, meta[d].path)}

(* A row with the stamp of its file is whole, or index_file is at it and   *)
(* has read the file since it got that stamp.                              *)
RowInv ==
  /\ \A d \in Fitting : (Working /\ d = id) \/ d \in Whole
  /\ Working => id \in DocId /\ meta[id].path = ev.path
  /\ Working /\ id \in Fitting =>
       /\ meta[id].ok <=> pc \in {"chunk", "fts", "enqueue"}
       /\ pc \in {"chunk", "fts"} => got = Pieces(fs[ev.path].text)
       /\ pc \in {"fts", "enqueue"} => chunks[id] = Pieces(fs[ev.path].text)
       /\ pc = "enqueue" => chunks[id] \subseteq fts[id]
       /\ pc = "drop" => chunks[id] = {}
  /\ pc = "drop" => \/ Working /\ victim = id
                    \/ victim \in DocId => meta[victim].path = Nil

(* The row a rename will take along is whole for the file at the new path, *)
(* and named after it, if that is still the file that was renamed; it is   *)
(* not the row of a file that has come to the former path since.           *)
Carried == \A m \in Renaming : m.from \in Path /\
  \E d \in DocId :
    /\ meta[d].path = m.from
    /\ m.from \in Existing => meta[d].stamp # fs[m.from].stamp
    /\ m.to \in Seen /\ fs[m.to].stamp = meta[d].stamp => WholeAt(d, m.to) /\ d = Sha(fs[m.to].text)

(* A row with the stamp of its file is named after it, but for a file that *)
(* is too large to be read, and index_file names the content it has read.  *)
NameInv ==
  /\ Large = {} => \A d \in Fitting : d.text = fs[meta[d].path].text
  /\ pc = "parse" \/ (pc = "drop" /\ then = "parse") =>
       (ev.path \in Seen /\ ev.stamp = fs[ev.path].stamp => id = Sha(fs[ev.path].text))

(* The paths that have a row with the stamp of their file.                 *)
Indexed == {p \in Path : \E d \in DocId : meta[d].path = p /\ meta[d].stamp = fs[p].stamp}

(* What bears the stamp of a file is about that file, or about the path it *)
(* was renamed from where the row has still to follow.                     *)
OriginInv == \A x \in Existing :
  /\ fs[x].stamp # 0
  /\ \A i \in DOMAIN queue : queue[i].stamp = fs[x].stamp => queue[i].path = x
  /\ pc # "idle" /\ ev.stamp = fs[x].stamp => ev.path = x
  /\ pc = "tooLarge" /\ seen = fs[x].stamp => ev.path = x
  /\ \A d \in DocId : HasRow(d) /\ meta[d].stamp = fs[x].stamp =>
       meta[d].path = x \/ [from |-> meta[d].path, to |-> x] \in Renaming

(* A file that nothing comes after has such a row, or is in hand and will, *)
(* or its last event was debounced.                                        *)
PlaceInv ==
  /\ Seen \subseteq Later \cup InHand \cup Indexed \cup missed
  /\ pc # "idle" /\ ev.path \in Seen \ Later =>
       /\ pc = "tooLarge" => seen = fs[ev.path].stamp
       /\ Working => meta[id].stamp = fs[ev.path].stamp

FilesInv  == StampInv /\ OnlyInv /\ RowInv /\ Carried /\ NameInv /\ OriginInv /\ PlaceInv
ServedInv == Undisturbed /\ ~outrun => NewsInv /\ MoveInv /\ FilesInv

LEMMA ServedInit == Init => ServedInv
<1> SUFFICES ASSUME Init PROVE ServedInv
  OBVIOUS
<1>1. \A d \in DocId : meta[d] = NoRow
  BY DEF Init
<1>2. \A p \in Path : fs[p] = Gone
  BY DEF Init
<1>3. Seen = {} /\ Existing = {}
  BY <1>2, Universe DEF Seen, Visible, Existing, Exists, Gone
<1>4. StampInv
  <2>1. DOMAIN queue = {} /\ ops = 0 /\ ev = NoEv /\ seen = 0
    BY DEF Init
  <2> QED BY <1>1, <1>2, <1>3, <2>1 DEF StampInv, Gone, NoRow, NoEv
<1>5. OnlyInv
  <2>1. pc = "idle" /\ then = "idle" /\ old.kind = "none"
    BY DEF Init, NoId
  <2>2. FilesOnly /\ RowsOnly
    BY <1>1, <1>2 DEF FilesOnly, RowsOnly, Exists, Gone, HasRow, NoRow
  <2>3. HandOnly
    BY <2>1 DEF HandOnly, Named, Writing
  <2> QED BY <2>2, <2>3 DEF OnlyInv
<1>6. ~Working /\ pc = "idle"
  BY DEF Init, Working
<1>7. Fitting = {}
  BY <1>3 DEF Fitting
<1>8. RowInv
  BY <1>6, <1>7 DEF RowInv
<1>9. PlaceInv
  BY <1>3, <1>6 DEF PlaceInv
<1>15. RawMoves = {} /\ QueueMoves = {}
  BY DEF Init, RawMoves, QueueMoves
<1>10. Carried
  BY <1>6, <1>15 DEF Carried, Renaming, Noticing, Waiting, Handled
<1>11. NameInv
  BY <1>6, <1>7 DEF NameInv
<1>12. OriginInv
  BY <1>3 DEF OriginInv
<1>13. NewsInv
  BY <1>6 DEF Init, NewsInv, RawNews, QueueNews, HandNews
<1>14. MoveInv
  BY <1>6, <1>15 DEF MoveInv, Renaming, Noticing, Waiting, Handled
<1> QED BY <1>4, <1>5, <1>8, <1>9, <1>10, <1>11, <1>12, <1>13, <1>14 DEF ServedInv, FilesInv

(* The user.                                                               *)
LEMMA OnlyChanged ==
  ASSUME Restrained, TypeInv, OnlyInv, UNCHANGED Renaming,
         NEW p \in Path, NEW r \in Raw, Changed(p, r)
  PROVE  OnlyInv'
<1>1. /\ held \in [Text -> SUBSET Path] /\ (Named => id \in DocId)
      /\ \A d \in DocId : d.kind = "sha" => d.text \in Text
      /\ \A x \in Path : Exists(x) => fs[x].text \in Text
      /\ \A d \in DocId : HasRow(d) => meta[d].path \in Path
  BY DocIds DEF TypeInv, TypeOK, WorldOK, StoresOK, Row, HasRow, File, Exists, Handling
<1>2. /\ UNCHANGED <<meta, pc, ev, id, old, then, Renaming, From>>
      /\ \A c \in Text : held[c] \subseteq held'[c]
      /\ \A x \in Path : x # p => fs'[x] = fs[x]
  BY DEF Changed, locals, stores, From
<1>3. fs'[p].text # Nil => p \in held'[fs'[p].text] /\ held[fs'[p].text] \subseteq {p}
  BY DEF Changed, Restrained
<1>4. \A c \in Text : \A x \in held[c] : Tied(c, x) => Tied(c, x)'
  <2> SUFFICES ASSUME NEW c \in Text, NEW x \in held[c], Tied(c, x), NEW y \in Path, fs'[y].text = c
               PROVE  y = x
    BY DEF Tied
  <2>1. CASE y = p
    <3>1. c # Nil
      BY Universe
    <3> QED BY <1>3, <2>1, <3>1
  <2>2. CASE y # p
    BY <1>2, <2>2 DEF Tied
  <2> QED BY <2>1, <2>2
<1>5. FilesOnly'
  <2> SUFFICES ASSUME NEW x \in Path, Exists(x)'
               PROVE  x \in held'[fs'[x].text] /\ Tied(fs[x].text, x)'
    BY DEF FilesOnly
  <2>1. CASE x = p
    <3>1. fs'[p].text # Nil
      BY <2>1 DEF Exists
    <3>2. ASSUME NEW y \in Path, fs'[y].text = fs'[p].text PROVE y = p
      <4>1. SUFFICES ASSUME y # p PROVE FALSE
        OBVIOUS
      <4>2. fs[y].text = fs'[p].text /\ Exists(y)
        BY <1>2, <3>1, <3>2, <4>1 DEF Exists
      <4> QED BY <1>3, <3>1, <4>1, <4>2 DEF OnlyInv, FilesOnly
    <3> QED BY <1>3, <2>1, <3>1, <3>2 DEF Tied
  <2>2. CASE x # p
    <3>1. fs'[x] = fs[x] /\ Exists(x)
      BY <1>2, <2>2 DEF Exists
    <3>2. fs[x].text \in Text /\ x \in held[fs[x].text] /\ Tied(fs[x].text, x)
      BY <1>1, <3>1 DEF OnlyInv, FilesOnly
    <3>3. \A c \in Text : x \in held[c] /\ Tied(c, x) => x \in held'[c] /\ \A y \in Path : fs'[y].text = c => y = x
      BY <1>2, <1>4 DEF Tied
    <3> QED BY <3>1, <3>2, <3>3 DEF Tied
  <2> QED BY <2>1, <2>2
<1>6. \A d \in DocId : \A x : Home(d, x) => Home(d, x)'
  BY <1>1, <1>2 DEF Home
<1>7. RowsOnly'
  <2> SUFFICES ASSUME NEW d \in DocId, HasRow(d)' PROVE Home(d, meta[d].path)' /\ d \in Settled'
    BY DEF RowsOnly
  <2>1. HasRow(d) /\ Home(d, meta[d].path) /\ d \in Settled
    BY <1>2 DEF HasRow, OnlyInv, RowsOnly
  <2>2. Home(d, meta[d].path)'
    BY <1>2, <1>6, <2>1
  <2>3. ASSUME d.kind = "sha"
        PROVE  /\ meta[d].path \notin From => Tied(d.text, meta[d].path)'
               /\ \A m \in Renaming : m.from = meta[d].path => m.to \in held'[d.text] /\ Tied(d.text, m.to)'
    <3>1. d.text \in Text /\ meta[d].path \in held[d.text]
      BY <1>1, <2>1, <2>3 DEF Home
    <3>2. meta[d].path \notin From => Tied(d.text, meta[d].path)
      BY <2>1, <2>3 DEF Settled
    <3>3. \A m \in Renaming : m.from = meta[d].path => m.to \in held[d.text] /\ Tied(d.text, m.to)
      BY <2>1, <2>3 DEF Settled
    <3> QED BY <1>2, <1>4, <3>1, <3>2, <3>3
  <2>4. d \in Settled'
    BY <1>2, <2>3 DEF Settled, Tied
  <2> QED BY <2>2, <2>4
<1>8. HandOnly'
  <2>1. Named' = Named /\ Writing' = Writing /\ \A d : Own(d)' <=> Own(d)
    BY <1>2 DEF Named, Writing, Own
  <2>2. ASSUME Named PROVE Home(id, ev.path)' /\ (id.kind = "sha" => Tied(id.text, ev.path))'
    <3>1. id \in DocId /\ Home(id, ev.path) /\ (id.kind = "sha" => Tied(id.text, ev.path))
      BY <1>1, <2>2 DEF OnlyInv, HandOnly
    <3>2. Home(id, ev.path)'
      BY <1>2, <1>6, <3>1 DEF Home
    <3>3. id.kind = "sha" => \A q \in Path : fs'[q].text = id.text => q = ev.path
      BY <1>1, <1>4, <3>1 DEF Home, Tied
    <3> QED BY <1>2, <3>2, <3>3 DEF Tied
  <2> QED BY <1>2, <2>1, <2>2 DEF OnlyInv, HandOnly
<1> QED BY <1>5, <1>7, <1>8 DEF OnlyInv

(* The types of the stamps.                                                *)
LEMMA StampTypes ==
  ASSUME TypeInv
  PROVE  /\ ops \in Nat /\ seen \in Nat /\ ev.stamp \in Nat
         /\ \A p \in Path : fs[p].stamp \in Nat
         /\ \A i \in DOMAIN queue : queue[i].stamp \in Nat /\ queue[i].path \in Path
         /\ \A d \in DocId : meta[d].stamp \in Nat /\ meta[d].path \in Path \cup {Nil}
<1>1. ops \in Nat /\ seen \in Nat /\ queue \in Seq(Event) /\ ev \in Event \cup {NoEv}
  BY DEF TypeInv, TypeOK, WorldOK, LocalsOK
<1>2. ev.stamp \in Nat
  BY <1>1 DEF Event, NoEv
<1>3. \A p \in Path : fs[p].stamp \in Nat
  BY DEF TypeInv, TypeOK, WorldOK, File
<1>4. \A i \in DOMAIN queue : queue[i].stamp \in Nat /\ queue[i].path \in Path
  <2>1. \A i \in DOMAIN queue : queue[i] \in Event
    BY <1>1
  <2> QED BY <2>1 DEF Event
<1>5. \A d \in DocId : meta[d].stamp \in Nat /\ meta[d].path \in Path \cup {Nil}
  BY DEF TypeInv, TypeOK, StoresOK, Row
<1> QED BY <1>1, <1>2, <1>3, <1>4, <1>5

LEMMA ServedChanged ==
  ASSUME Restrained, TypeInv, NewsInv, FilesInv, UNCHANGED Renaming,
         NEW p \in Path, NEW r \in Raw, Changed(p, r)
  PROVE  FilesInv'
<1>1. StampInv /\ OnlyInv /\ RowInv /\ Carried /\ NameInv /\ OriginInv /\ PlaceInv
  BY DEF FilesInv
<1>2. /\ UNCHANGED <<queue, pc, ev, id, seen, missed, got, victim, then, meta, chunks, fts, jobs>>
      /\ ops' = ops + 1 /\ fs'[p].stamp <= ops + 1
      /\ fs'[p].text # Nil => fs'[p].stamp = ops + 1
  BY DEF Changed, locals, stores
<1>3. /\ Later' = Later \cup {p} /\ InHand' = InHand
      /\ \A q \in Path \ {p} : /\ q \in Seen' <=> q \in Seen
                               /\ q \in Existing' <=> q \in Existing
                               /\ fs'[q] = fs[q]
  BY NewsUser DEF Later
<1>4. \A s \in Nat : s <= ops /\ fs'[p].text # Nil => fs'[p].stamp # s
  BY <1>2, StampTypes
<1>5. p \in Seen' \/ p \in Existing' => fs'[p].text # Nil
  BY Universe DEF Seen, Visible, Existing, Exists
<1>6. StampInv'
  <2>1. \A q \in Path : fs'[q].stamp <= ops + 1
    BY <1>1, <1>2, <1>3, StampTypes DEF StampInv
  <2>2. \A i \in DOMAIN queue : queue[i].stamp <= ops + 1
    BY <1>1, StampTypes DEF StampInv
  <2>3. ev.stamp <= ops + 1 /\ seen <= ops + 1 /\ \A d \in DocId : meta[d].stamp <= ops + 1
    BY <1>1, StampTypes DEF StampInv
  <2>4. ASSUME NEW x \in Existing', NEW y \in Existing', fs'[x].stamp = fs'[y].stamp PROVE x = y
    <3>1. x \in Path /\ y \in Path /\ fs[x].stamp \in Nat /\ fs[y].stamp \in Nat
      BY StampTypes DEF Existing
    <3>2. fs[x].stamp <= ops /\ fs[y].stamp <= ops
      BY <1>1, <3>1 DEF StampInv
    <3>3. CASE x = p \/ y = p
      BY <1>3, <1>4, <1>5, <2>4, <3>1, <3>2, <3>3
    <3>4. CASE x # p /\ y # p
      BY <1>1, <1>3, <2>4, <3>1, <3>4 DEF StampInv
    <3> QED BY <3>3, <3>4
  <2> QED BY <1>2, <2>1, <2>2, <2>3, <2>4 DEF StampInv
<1>7. \A d \in Fitting' : d \in Fitting /\ meta[d].path \in Path \ {p}
  <2> SUFFICES ASSUME NEW d \in Fitting' PROVE d \in Fitting /\ meta[d].path \in Path \ {p}
    OBVIOUS
  <2>1. d \in DocId /\ meta[d].path \in Seen' /\ meta[d].stamp = fs'[meta[d].path].stamp
    BY <1>2 DEF Fitting
  <2>2. meta[d].stamp <= ops /\ meta[d].stamp \in Nat
    BY <1>1, <2>1, StampTypes DEF StampInv
  <2>3. meta[d].path # p
    BY <1>4, <1>5, <2>1, <2>2
  <2>4. meta[d].path \in Path
    BY <2>1 DEF Seen
  <2> QED BY <1>3, <2>1, <2>3, <2>4 DEF Fitting
<1>8. \A d \in DocId : \A x \in Path \ {p} : WholeAt(d, x) => WholeAt(d, x)'
  BY <1>2, <1>3 DEF WholeAt
<1>9. \A d \in Fitting' : d \in Whole => d \in Whole'
  BY <1>2, <1>7, <1>8 DEF Whole, WholeAt
<1>10. Working' = Working
  BY <1>2 DEF Working
<1>11. RowInv'
  <2>1. \A d \in Fitting' : (Working' /\ d = id') \/ d \in Whole'
    BY <1>1, <1>2, <1>7, <1>9, <1>10 DEF RowInv
  <2>2. Working' => id' \in DocId /\ meta'[id'].path = ev'.path
    BY <1>1, <1>2, <1>10 DEF RowInv
  <2>3. ASSUME Working', id' \in Fitting'
        PROVE  /\ meta'[id'].ok <=> pc' \in {"chunk", "fts", "enqueue"}
               /\ pc' \in {"chunk", "fts"} => got' = Pieces(fs'[ev'.path].text)
               /\ pc' \in {"fts", "enqueue"} => chunks'[id'] = Pieces(fs'[ev'.path].text)
               /\ pc' = "enqueue" => chunks'[id'] \subseteq fts'[id']
               /\ pc' = "drop" => chunks'[id'] = {}
    <3>1. id \in Fitting /\ Working /\ ev.path \in Path \ {p}
      BY <1>1, <1>2, <1>7, <1>10, <2>3 DEF RowInv
    <3>2. fs'[ev.path] = fs[ev.path]
      BY <1>3, <3>1
    <3> QED BY <1>1, <1>2, <3>1, <3>2 DEF RowInv
  <2>4. pc' = "drop" => \/ Working' /\ victim' = id'
                        \/ victim' \in DocId => meta'[victim'].path = Nil
    BY <1>1, <1>2, <1>10 DEF RowInv
  <2> QED BY <2>1, <2>2, <2>3, <2>4 DEF RowInv
<1>12. Carried'
  <2> SUFFICES ASSUME NEW m \in Renaming
               PROVE  m.from \in Path /\
                      \E d \in DocId :
                        /\ meta'[d].path = m.from
                        /\ m.from \in Existing' => meta'[d].stamp # fs'[m.from].stamp
                        /\ m.to \in Seen' /\ fs'[m.to].stamp = meta'[d].stamp =>
                             WholeAt(d, m.to)' /\ d = Sha(fs'[m.to].text)
    BY DEF Carried
  <2>1. PICK d \in DocId :
          /\ meta[d].path = m.from
          /\ m.from \in Existing => meta[d].stamp # fs[m.from].stamp
          /\ m.to \in Seen /\ fs[m.to].stamp = meta[d].stamp => WholeAt(d, m.to) /\ d = Sha(fs[m.to].text)
    BY <1>1 DEF Carried
  <2>2. meta[d].stamp <= ops /\ meta[d].stamp \in Nat
    BY <1>1, <2>1, StampTypes DEF StampInv
  <2>3. ASSUME m.to \in Seen', fs'[m.to].stamp = meta[d].stamp
        PROVE  WholeAt(d, m.to)' /\ d = Sha(fs'[m.to].text)
    <3>1. m.to \in Path \ {p}
      BY <1>4, <1>5, <2>2, <2>3 DEF Seen
    <3> QED BY <1>3, <1>8, <2>1, <2>3, <3>1
  <2>4. m.from \in Path
    BY <1>1 DEF Carried
  <2>5. m.from \in Existing' => meta[d].stamp # fs'[m.from].stamp
    BY <1>3, <1>4, <1>5, <2>1, <2>2, <2>4
  <2> QED BY <1>2, <2>1, <2>3, <2>4, <2>5
<1>13. NameInv'
  <2>1. Large = {} => \A d \in Fitting' : d.text = fs'[meta'[d].path].text
    BY <1>1, <1>2, <1>3, <1>7 DEF NameInv
  <2>2. ev.path \in Seen' /\ ev.stamp = fs'[ev.path].stamp => ev.path \in Path \ {p}
    <3>1. ev.stamp \in Nat /\ ev.stamp <= ops
      BY <1>1, StampTypes DEF StampInv
    <3> QED BY <1>4, <1>5, <3>1 DEF Seen
  <2> QED BY <1>1, <1>2, <1>3, <2>1, <2>2 DEF NameInv
<1>14. PlaceInv'
  <2>1. \A q \in Path \ {p} : q \in Indexed => q \in Indexed'
    BY <1>2, <1>3 DEF Indexed
  <2>2. Seen' \subseteq Later' \cup InHand' \cup Indexed' \cup missed'
    BY <1>1, <1>2, <1>3, <2>1 DEF PlaceInv, Seen
  <2>3. ASSUME pc' # "idle", ev'.path \in Seen' \ Later'
        PROVE  /\ pc' = "tooLarge" => seen' = fs'[ev'.path].stamp
               /\ Working' => meta'[id'].stamp = fs'[ev'.path].stamp
    <3>1. ev.path \in Seen \ Later /\ fs'[ev.path] = fs[ev.path]
      BY <1>2, <1>3, <2>3 DEF Seen
    <3> QED BY <1>1, <1>2, <1>10, <2>3, <3>1 DEF PlaceInv
  <2> QED BY <2>2, <2>3 DEF PlaceInv
<1>15. OnlyInv'
  BY <1>1, OnlyChanged
<1>16. OriginInv'
  <2> SUFFICES ASSUME NEW x \in Existing'
               PROVE  /\ fs'[x].stamp # 0
                      /\ \A i \in DOMAIN queue : queue[i].stamp = fs'[x].stamp => queue[i].path = x
                      /\ pc # "idle" /\ ev.stamp = fs'[x].stamp => ev.path = x
                      /\ pc = "tooLarge" /\ seen = fs'[x].stamp => ev.path = x
                      /\ \A d \in DocId : HasRow(d) /\ meta[d].stamp = fs'[x].stamp =>
                           meta[d].path = x \/ [from |-> meta[d].path, to |-> x] \in Renaming
    BY <1>2 DEF OriginInv, HasRow
  <2>1. CASE x = p
    <3>1. ops \in Nat /\ fs'[p].stamp = ops + 1 /\ \A s \in Nat : s <= ops => s # fs'[p].stamp
      BY <1>2, <1>4, <1>5, <2>1, StampTypes
    <3>2. /\ \A i \in DOMAIN queue : queue[i].stamp # fs'[p].stamp
          /\ ev.stamp # fs'[p].stamp /\ seen # fs'[p].stamp
          /\ \A d \in DocId : meta[d].stamp # fs'[p].stamp
      BY <1>1, <3>1, StampTypes DEF StampInv
    <3> QED BY <2>1, <3>1, <3>2
  <2>2. CASE x # p
    <3>1. x \in Existing /\ fs'[x] = fs[x]
      BY <1>3, <2>2 DEF Existing
    <3> QED BY <1>1, <3>1 DEF OriginInv
  <2> QED BY <2>1, <2>2
<1> QED BY <1>6, <1>11, <1>12, <1>13, <1>14, <1>15, <1>16 DEF FilesInv

(* In a quiet index the row of a file is whole and named after its content, *)
(* and no other row has its stamp.                                         *)
LEMMA QuietRow ==
  ASSUME Restrained, MoveWhen = "quiet", UniqueInv, Renaming = {}, FilesInv, Quiet,
         NEW p \in Path \ missed, Exists(p)
  PROVE  /\ \E d \in DocId : /\ meta[d].path = p /\ meta[d].stamp = fs[p].stamp
                             /\ d = Sha(fs[p].text) /\ WholeAt(d, p)
                             /\ \A x \in DocId : meta[x].path = p => x = d
         /\ \A x \in DocId : meta[x].path \in Path \ {p} => meta[x].stamp # fs[p].stamp
<1>1. /\ Later = {} /\ InHand = {} /\ ~Working
      /\ OneOwner /\ TypeInv /\ Huge = {} /\ Large = {}
  BY DEF Quiet, Later, Coming, Queued, InHand, Working, UniqueInv, Restrained
<1>2. Existing = Seen
  <2>1. \A x \in Path : fs[x].text \in Text \cup {Nil}
    BY <1>1 DEF TypeInv, TypeOK, WorldOK, File
  <2> QED BY <1>1, <2>1, Universe DEF Existing, Seen, Exists, Visible
<1>3. \A x \in Seen \ missed : \E d \in DocId : meta[d].path = x /\ meta[d].stamp = fs[x].stamp
  BY <1>1 DEF FilesInv, PlaceInv, Indexed
<1>4. p \in Seen
  BY <1>2 DEF Existing
<1>5. PICK d \in DocId : meta[d].path = p /\ meta[d].stamp = fs[p].stamp
  BY <1>3, <1>4
<1>6. d \in Fitting
  BY <1>4, <1>5 DEF Fitting
<1>7. WholeAt(d, p)
  BY <1>1, <1>5, <1>6 DEF FilesInv, RowInv, Whole
<1>8. d = Sha(fs[p].text)
  <2>1. d.text = fs[p].text
    BY <1>1, <1>5, <1>6 DEF FilesInv, NameInv
  <2>2. HasRow(d)
    BY <1>5, Universe DEF HasRow
  <2>3. d.kind \notin {"dup", "skip"}
    BY <1>1, <2>2 DEF FilesInv, OnlyInv, RowsOnly, Home
  <2>4. \E c \in Text : d = Sha(c)
    BY <2>3 DEF DocId, Dup, Skip
  <2> QED BY <2>1, <2>4 DEF Sha
<1>9. \A x \in DocId : meta[x].path = p => x = d
  BY <1>1, <1>5 DEF OneOwner
<1>10. ASSUME NEW x \in DocId, meta[x].path \in Path \ {p} PROVE meta[x].stamp # fs[p].stamp
  <2>1. HasRow(x)
    BY <1>10, Universe DEF HasRow
  <2> QED BY <1>2, <1>4, <1>10, <2>1 DEF FilesInv, OriginInv
<1> QED BY <1>5, <1>7, <1>8, <1>9, <1>10

LEMMA ServedShifted ==
  ASSUME Restrained, UniqueInv, NewsInv, MoveInv, FilesInv, ~outrun',
         NEW p \in Path, NEW q \in Path, NEW r \in Raw, Shifted(p, q, r)
  PROVE  FilesInv'
<1>1. StampInv /\ OnlyInv /\ RowInv /\ NameInv /\ OriginInv /\ PlaceInv /\ TypeInv
  BY DEF FilesInv, UniqueInv
<1>2. /\ UNCHANGED <<queue, pc, ev, id, old, seen, got, victim, then, meta, chunks, fts, jobs, missed>>
      /\ ops' = ops + 1 /\ Quiet /\ pc = "idle" /\ MoveWhen = "quiet" /\ p # q /\ Exists(p)
      /\ queue = <<>> /\ p \notin missed
      /\ fs'[q] = fs[p] /\ fs'[p] = Gone /\ r.prev = p /\ r.path = q
      /\ q \in held'[fs[p].text] /\ \A c \in Text : held[c] \subseteq held'[c]
  BY DEF Shifted, Quiet, locals, stores
<1>3. /\ Later' = {q} /\ Later = {} /\ InHand = {} /\ InHand' = {} /\ p \notin Existing'
      /\ \A x \in Path \ {p, q} : /\ x \in Existing' <=> x \in Existing
                                  /\ x \in Seen' <=> x \in Seen
                                  /\ fs'[x] = fs[x]
  BY <1>1, NewsShift
<1>4. Renaming = {} /\ Renaming' = {[from |-> p, to |-> q]} /\ From' = {p} /\ From = {}
  BY <1>1, MovesShift DEF From
<1>5. /\ held \in [Text -> SUBSET Path] /\ fs[p].text \in Text /\ Gone.text = Nil /\ Gone.stamp = 0
      /\ \A d \in DocId : d.kind = "sha" => d.text \in Text
      /\ \A x \in Path : Exists(x) => fs[x].text \in Text
      /\ \A d \in DocId : HasRow(d) => meta[d].path \in Path
  BY <1>1, <1>2, DocIds DEF TypeInv, TypeOK, WorldOK, StoresOK, Row, HasRow, File, Exists, Gone
<1>6. PICK d \in DocId : /\ meta[d].path = p /\ meta[d].stamp = fs[p].stamp
                         /\ d = Sha(fs[p].text) /\ WholeAt(d, p)
                         /\ \A x \in DocId : meta[x].path = p => x = d
  BY <1>2, <1>4, QuietRow
<1>7. \A x \in DocId : meta[x].path = q => meta[x].stamp # fs[p].stamp
  BY <1>2, <1>4, QuietRow
<1>8. p \notin Seen'
  BY <1>3, Universe DEF Seen, Visible, Existing, Exists
<1>9. StampInv'
  <2>1. /\ ops \in Nat /\ seen <= ops /\ ev.stamp <= ops
        /\ \A x \in Path : fs[x].stamp <= ops /\ fs[x].stamp \in Nat
    BY <1>1, StampTypes DEF StampInv
  <2>2. \A x \in Path : fs'[x].stamp <= ops + 1
    BY <1>2, <1>3, <1>5, <2>1
  <2>3. \A i \in DOMAIN queue : queue[i].stamp <= ops + 1
    BY <1>1, StampTypes DEF StampInv
  <2>4. ev.stamp <= ops + 1 /\ seen <= ops + 1 /\ \A x \in DocId : meta[x].stamp <= ops + 1
    BY <1>1, StampTypes DEF StampInv
  <2>5. ASSUME NEW x \in Existing', NEW y \in Existing', fs'[x].stamp = fs'[y].stamp PROVE x = y
    <3>1. x \in Path \ {p} /\ y \in Path \ {p}
      BY <1>3 DEF Existing
    <3>2. \A z \in Path \ {p, q} : z \in Existing' /\ fs'[z].stamp = fs[p].stamp => FALSE
      <4>1. p \in Existing
        BY <1>2 DEF Existing
      <4> QED BY <1>1, <1>3, <4>1 DEF StampInv
    <3>3. CASE x # q /\ y # q
      BY <1>1, <1>3, <2>5, <3>1, <3>3 DEF StampInv
    <3>4. CASE x = q \/ y = q
      BY <1>2, <2>5, <3>1, <3>2, <3>4
    <3> QED BY <3>3, <3>4
  <2> QED BY <1>2, <2>2, <2>3, <2>4, <2>5 DEF StampInv
<1>10. \A c \in Text : \A x \in Path \ {p} : Tied(c, x) => Tied(c, x)'
  <2> SUFFICES ASSUME NEW c \in Text, NEW x \in Path \ {p}, Tied(c, x), NEW y \in Path, fs'[y].text = c
               PROVE  y = x
    BY DEF Tied
  <2>1. c # Nil
    BY Universe
  <2>2. CASE y = q
    BY <1>2, <2>2 DEF Tied
  <2>3. CASE y = p
    BY <1>2, <1>5, <2>1, <2>3
  <2>4. CASE y \notin {p, q}
    BY <1>3, <2>4 DEF Tied
  <2> QED BY <2>2, <2>3, <2>4
<1>11. \A c \in Text : c = fs[p].text => Tied(c, q)'
  <2> SUFFICES ASSUME NEW c \in Text, c = fs[p].text, NEW y \in Path, fs'[y].text = c PROVE y = q
    BY DEF Tied
  <2>1. c # Nil
    BY Universe
  <2>2. CASE y = p
    BY <1>2, <1>5, <2>1, <2>2
  <2>3. CASE y \notin {p, q}
    <3>1. fs[y].text = fs[p].text
      BY <1>3, <2>3
    <3> QED BY <1>1, <1>2, <2>3, <3>1 DEF OnlyInv, FilesOnly, Tied
  <2> QED BY <2>2, <2>3
<1>12. FilesOnly'
  <2> SUFFICES ASSUME NEW x \in Path, Exists(x)'
               PROVE  x \in held'[fs'[x].text] /\ Tied(fs[x].text, x)'
    BY DEF FilesOnly
  <2>1. CASE x = q
    <3>1. \A y \in Path : fs'[y].text = fs[p].text => y = q
      BY <1>5, <1>11 DEF Tied
    <3> QED BY <1>2, <2>1, <3>1 DEF Tied
  <2>2. CASE x # q
    <3>1. x \in Path \ {p, q}
      BY <1>3, <2>2 DEF Existing
    <3>2. fs'[x] = fs[x] /\ Exists(x)
      BY <1>3, <3>1 DEF Exists
    <3>3. fs[x].text \in Text /\ x \in held[fs[x].text] /\ Tied(fs[x].text, x)
      BY <1>1, <1>5, <3>2 DEF OnlyInv, FilesOnly
    <3>4. \A c \in Text : x \in held[c] /\ Tied(c, x) => x \in held'[c] /\ \A y \in Path : fs'[y].text = c => y = x
      BY <1>2, <1>10, <3>1 DEF Tied
    <3> QED BY <3>2, <3>3, <3>4 DEF Tied
  <2> QED BY <2>1, <2>2
<1>13. RowsOnly'
  <2> SUFFICES ASSUME NEW x \in DocId, HasRow(x)' PROVE Home(x, meta[x].path)' /\ x \in Settled'
    BY DEF RowsOnly
  <2>1. HasRow(x) /\ Home(x, meta[x].path) /\ x \in Settled
    BY <1>1, <1>2 DEF HasRow, OnlyInv, RowsOnly
  <2>2. \A y : Home(x, y) => Home(x, y)'
    BY <1>2, <1>5 DEF Home
  <2>3. Home(x, meta[x].path)'
    BY <1>2, <2>1, <2>2
  <2>4. ASSUME x.kind = "sha", meta[x].path # p PROVE Tied(x.text, meta[x].path)'
    <3>1. x.text \in Text /\ meta[x].path \in Path \ {p}
      BY <1>5, <2>1, <2>4
    <3>2. Tied(x.text, meta[x].path)
      BY <1>4, <2>1, <2>4 DEF Settled
    <3>3. \A y \in Path \ {p} : Tied(x.text, y) => Tied(x.text, y)'
      BY <1>10, <3>1
    <3> QED BY <1>2, <3>1, <3>2, <3>3
  <2>5. ASSUME x.kind = "sha", meta[x].path = p PROVE q \in held'[x.text] /\ Tied(x.text, q)'
    <3>1. x.text = fs[p].text
      BY <1>6, <2>5 DEF Sha
    <3> QED BY <1>2, <1>5, <1>11, <3>1
  <2>6. \A m \in Renaming' : m.from = p /\ m.to = q
    BY <1>4
  <2>7. x \in Settled'
    <3>1. x.kind = "sha" /\ meta[x].path \notin From' => \A y \in Path : fs'[y].text = x.text => y = meta[x].path
      BY <1>2, <1>4, <2>4 DEF Tied
    <3>2. \A m \in Renaming' : x.kind = "sha" /\ m.from = meta[x].path =>
            m.to \in held'[x.text] /\ \A y \in Path : fs'[y].text = x.text => y = m.to
      BY <2>5, <2>6 DEF Tied
    <3> QED BY <1>2, <3>1, <3>2 DEF Settled, Tied
  <2> QED BY <2>3, <2>7
<1>14. OnlyInv'
  <2>1. ~Named' /\ ~Writing'
    BY <1>2 DEF Named, Writing
  <2>2. HandOnly'
    BY <1>1, <1>2, <2>1 DEF OnlyInv, HandOnly
  <2> QED BY <1>12, <1>13, <2>2 DEF OnlyInv
<1>15. \A x \in Fitting' : x \in Fitting /\ meta[x].path \in Path \ {p, q}
  <2> SUFFICES ASSUME NEW x \in Fitting' PROVE x \in Fitting /\ meta[x].path \in Path \ {p, q}
    OBVIOUS
  <2>1. x \in DocId /\ meta[x].path \in Seen' /\ meta[x].stamp = fs'[meta[x].path].stamp
    BY <1>2 DEF Fitting
  <2>2. meta[x].path \in Path \ {p, q}
    BY <1>2, <1>7, <1>8, <2>1 DEF Seen
  <2> QED BY <1>3, <2>1, <2>2 DEF Fitting
<1>16. ~Working /\ ~Working' /\ pc' # "drop"
  BY <1>2 DEF Working
<1>17. RowInv'
  <2>1. \A x \in Fitting' : x \in Whole'
    <3> SUFFICES ASSUME NEW x \in Fitting' PROVE x \in Whole'
      OBVIOUS
    <3>1. x \in DocId /\ WholeAt(x, meta[x].path) /\ fs'[meta[x].path] = fs[meta[x].path]
      BY <1>1, <1>3, <1>15, <1>16 DEF RowInv, Whole
    <3> QED BY <1>2, <3>1 DEF Whole, WholeAt
  <2> QED BY <1>16, <2>1 DEF RowInv
<1>18. Carried'
  <2> SUFFICES ASSUME NEW m \in Renaming'
               PROVE  m.from \in Path /\
                      \E x \in DocId :
                        /\ meta'[x].path = m.from
                        /\ m.from \in Existing' => meta'[x].stamp # fs'[m.from].stamp
                        /\ m.to \in Seen' /\ fs'[m.to].stamp = meta'[x].stamp =>
                             WholeAt(x, m.to)' /\ x = Sha(fs'[m.to].text)
    BY DEF Carried
  <2>1. m.from = p /\ m.to = q
    BY <1>4
  <2>2. WholeAt(d, q)' /\ d = Sha(fs'[q].text)
    BY <1>2, <1>6 DEF WholeAt
  <2> QED BY <1>2, <1>3, <1>6, <2>1, <2>2
<1>19. NameInv'
  <2>1. Large = {} => \A x \in Fitting' : x.text = fs'[meta'[x].path].text
    BY <1>1, <1>2, <1>3, <1>15 DEF NameInv
  <2> QED BY <1>2, <2>1 DEF NameInv
<1>20. PlaceInv'
  <2>1. \A x \in Path \ {p, q} : x \in Indexed => x \in Indexed'
    BY <1>2, <1>3 DEF Indexed
  <2>2. Seen' \subseteq Later' \cup InHand' \cup Indexed' \cup missed'
    BY <1>1, <1>2, <1>3, <1>8, <2>1 DEF PlaceInv, Seen
  <2> QED BY <1>2, <2>2 DEF PlaceInv
<1>21. OriginInv'
  <2> SUFFICES ASSUME NEW x \in Existing'
               PROVE  /\ fs'[x].stamp # 0
                      /\ \A e \in DocId : HasRow(e) /\ meta[e].stamp = fs'[x].stamp =>
                           meta[e].path = x \/ [from |-> meta[e].path, to |-> x] \in Renaming'
    BY <1>2 DEF OriginInv, HasRow
  <2>1. p \in Existing /\ x \in Path /\ x # p
    BY <1>2, <1>3 DEF Existing
  <2>2. CASE x = q
    <3>1. /\ fs[p].stamp # 0
          /\ \A e \in DocId : HasRow(e) /\ meta[e].stamp = fs[p].stamp => meta[e].path = p
      BY <1>1, <1>4, <2>1 DEF OriginInv
    <3> QED BY <1>2, <1>4, <2>2, <3>1
  <2>3. CASE x # q
    <3>1. x \in Existing /\ fs'[x] = fs[x]
      BY <1>3, <2>1, <2>3
    <3>2. /\ fs[x].stamp # 0
          /\ \A e \in DocId : HasRow(e) /\ meta[e].stamp = fs[x].stamp => meta[e].path = x
      BY <1>1, <1>4, <3>1 DEF OriginInv
    <3> QED BY <3>1, <3>2
  <2> QED BY <2>2, <2>3
<1> QED BY <1>9, <1>14, <1>17, <1>18, <1>19, <1>20, <1>21 DEF FilesInv

(* What a step that writes no store and leaves index_file alone keeps,     *)
(* though it drop the notification of a rename whose file is gone.         *)
LEMMA ServedFrame ==
  ASSUME FilesInv, UNCHANGED <<fs, held, pc, locals, stores>>,
         UNCHANGED Renaming \/ (Renaming' = {} /\ \A m \in Renaming : m.to \notin Existing)
  PROVE  /\ UNCHANGED <<Seen, Existing, InHand, Indexed, Working>>
         /\ OnlyInv' /\ RowInv' /\ Carried' /\ NameInv'
         /\ (\A x \in Existing : \A i \in DOMAIN queue' :
               queue'[i].stamp = fs[x].stamp => queue'[i].path = x) => OriginInv'
         /\ UNCHANGED missed /\ (\A p \in Later : p \in Later' \/ p \notin Seen) => PlaceInv'
<1>1. UNCHANGED <<fs, held, pc, ev, id, old, seen, got, victim, then, meta, chunks, fts, jobs>>
  BY DEF locals, stores
<1>2. UNCHANGED <<Seen, Existing, Fitting, Working, Indexed, InHand, Named, Writing>>
  BY <1>1 DEF Seen, Visible, Existing, Exists, Fitting, Working, Indexed, InHand, Named, Writing
<1>3. \A d, p : WholeAt(d, p)' <=> WholeAt(d, p)
  BY <1>1 DEF WholeAt
<1>4. Whole' = Whole
  BY <1>1 DEF Whole, WholeAt
<1>5. \A d \in DocId : HasRow(d) /\ d \in Settled => d \in Settled'
  <2> SUFFICES ASSUME NEW d \in DocId, HasRow(d), d \in Settled PROVE d \in Settled'
    OBVIOUS
  <2>1. CASE UNCHANGED Renaming
    BY <1>1, <2>1 DEF Settled, From, Tied
  <2>2. CASE Renaming' = {} /\ \A m \in Renaming : m.to \notin Existing
    <3>1. From' = {}
      BY <2>2 DEF From
    <3>2. ASSUME d.kind = "sha" PROVE Tied(d.text, meta[d].path)
      <4>1. CASE meta[d].path \notin From
        BY <3>2, <4>1 DEF Settled
      <4>2. CASE meta[d].path \in From
        <5>1. PICK m \in Renaming : m.from = meta[d].path
          BY <4>2 DEF From
        <5>2. Tied(d.text, m.to) /\ m.to \notin Existing
          BY <2>2, <3>2, <5>1 DEF Settled
        <5>3. d.text # Nil
          BY <3>2, DocIds, Universe
        <5>4. \A y \in Path : fs[y].text # d.text
          BY <5>2, <5>3 DEF Tied, Existing, Exists
        <5> QED BY <5>4 DEF Tied
      <4> QED BY <4>1, <4>2
    <3> QED BY <1>1, <2>2, <3>1, <3>2 DEF Settled, Tied
  <2> QED BY <2>1, <2>2
<1>6. OnlyInv'
  <2>1. FilesOnly'
    BY <1>1, <1>2 DEF FilesInv, OnlyInv, FilesOnly, Exists, Tied
  <2>2. RowsOnly'
    BY <1>1, <1>5 DEF FilesInv, OnlyInv, RowsOnly, HasRow, Home
  <2>3. HandOnly'
    BY <1>1, <1>2 DEF FilesInv, OnlyInv, HandOnly, Home, Tied, Own
  <2> QED BY <2>1, <2>2, <2>3 DEF OnlyInv
<1>7. RowInv'
  BY <1>1, <1>2, <1>4 DEF FilesInv, RowInv
<1>8. Carried'
  <2>1. Renaming' \subseteq Renaming
    OBVIOUS
  <2> QED BY <1>1, <1>2, <1>3, <2>1 DEF FilesInv, Carried
<1>9. NameInv'
  BY <1>1, <1>2 DEF FilesInv, NameInv
<1>10. ASSUME \A x \in Existing : \A i \in DOMAIN queue' :
                queue'[i].stamp = fs[x].stamp => queue'[i].path = x
       PROVE  OriginInv'
  <2>1. \A x \in Existing : \A p : [from |-> p, to |-> x] \in Renaming => [from |-> p, to |-> x] \in Renaming'
    OBVIOUS
  <2>2. \A x \in Existing : \A d \in DocId : HasRow(d) /\ meta[d].stamp = fs[x].stamp =>
          meta[d].path = x \/ [from |-> meta[d].path, to |-> x] \in Renaming'
    BY <2>1 DEF FilesInv, OriginInv
  <2> QED BY <1>1, <1>2, <1>10, <2>2 DEF FilesInv, OriginInv, HasRow
<1>11. ASSUME UNCHANGED missed, \A p \in Later : p \in Later' \/ p \notin Seen PROVE PlaceInv'
  BY <1>1, <1>2, <1>11 DEF FilesInv, PlaceInv
<1> QED BY <1>2, <1>6, <1>7, <1>8, <1>9, <1>10, <1>11

(* An event with the stamp of its file is put into the queue.              *)
LEMMA ServedAppend ==
  ASSUME TypeInv, StampInv, OriginInv, UNCHANGED <<fs, ops, ev, seen, meta, Existing>>,
         \/ queue' = queue
         \/ \E e \in Event : /\ queue' = Append(queue, e)
                             /\ e.stamp = 0 \/ (e.path \in Seen /\ e.stamp = fs[e.path].stamp)
  PROVE  /\ StampInv'
         /\ \A x \in Existing : \A i \in DOMAIN queue' : queue'[i].stamp = fs[x].stamp => queue'[i].path = x
<1>1. CASE queue' = queue
  BY <1>1 DEF StampInv, OriginInv
<1>2. CASE \E e \in Event : /\ queue' = Append(queue, e)
                            /\ e.stamp = 0 \/ (e.path \in Seen /\ e.stamp = fs[e.path].stamp)
  <2>1. PICK e \in Event : /\ queue' = Append(queue, e)
                           /\ e.stamp = 0 \/ (e.path \in Seen /\ e.stamp = fs[e.path].stamp)
    BY <1>2
  <2>2. e.stamp <= ops
    BY <2>1, StampTypes DEF StampInv, Seen
  <2>3. queue \in Seq(Event)
    BY DEF TypeInv, TypeOK, WorldOK
  <2>4. /\ DOMAIN queue' = DOMAIN queue \cup {Len(queue) + 1} /\ queue'[Len(queue) + 1] = e
        /\ \A i \in DOMAIN queue : queue'[i] = queue[i]
    BY <2>1, <2>3, LatestAppend
  <2>5. StampInv'
    BY <2>2, <2>4 DEF StampInv
  <2>6. ASSUME NEW x \in Existing, e.stamp = fs[x].stamp PROVE e.path = x
    <3>1. e.path \in Seen
      BY <2>1, <2>6 DEF OriginInv
    <3>2. e.path \in Existing
      BY <3>1, Universe DEF Seen, Visible, Existing, Exists
    <3> QED BY <2>1, <2>6, <3>1, <3>2 DEF OriginInv, StampInv
  <2> QED BY <2>4, <2>5, <2>6 DEF OriginInv
<1> QED BY <1>1, <1>2

LEMMA ServedNotice ==
  ASSUME Restrained, TypeInv, NewsInv, MoveInv, FilesInv, Notice
  PROVE  FilesInv'
<1>1. PICK r \in Raw :
           /\ raw # <<>> /\ r = raw[1] /\ raw' = Tail(raw)
           /\ UNCHANGED <<fs, ops, held, toScan, up, pc, locals, stores, counts, lastSeen, missed, outrun>>
           /\ \/ queue' = queue /\ r.path \notin Seen /\ r.change # "deleted"
              \/ \E e \in Event :
                   /\ queue' = Append(queue, e) /\ e.path = r.path /\ e.change = r.change
                   /\ e.stamp = 0 \/ (e.path \in Seen /\ e.stamp = fs[e.path].stamp)
                   /\ r.change = "moved" => e.prev = r.prev
                   /\ (r.change = "deleted" <=> r.path \notin Existing) => e \in Current
  BY NoticeIs
<1>2. UNCHANGED <<fs, held, ops, pc, locals, stores, ev, seen, meta, missed, Existing>>
  BY <1>1, NewsNotice DEF locals, stores
<1>3. UNCHANGED Renaming \/ (Renaming' = {} /\ \A m \in Renaming : m.to \notin Existing)
  BY MovesNotice
<1>4. /\ StampInv'
      /\ \A x \in Existing : \A i \in DOMAIN queue' : queue'[i].stamp = fs[x].stamp => queue'[i].path = x
  BY <1>1, <1>2, ServedAppend DEF FilesInv
<1>5. \A p \in Later : p \in Later' \/ p \notin Seen
  BY NewsNotice
<1> QED BY <1>2, <1>3, <1>4, <1>5, ServedFrame DEF FilesInv

LEMMA ServedScan ==
  ASSUME TypeInv, NewsInv, MoveInv, FilesInv, NEW p \in Path, Scan(p)
  PROVE  FilesInv'
<1>1. /\ UNCHANGED <<fs, ops, held, raw, up, pc, locals, stores, counts, marks>>
      /\ \/ queue' = queue
         \/ \E e \in Event : /\ queue' = Append(queue, e)
                             /\ e.stamp = 0 \/ (e.path \in Seen /\ e.stamp = fs[e.path].stamp)
  <2>1. /\ UNCHANGED <<fs, ops, held, raw, up, pc, locals, stores, counts, marks>>
        /\ \/ queue' = queue
           \/ \E e \in Current : queue' = Append(queue, e) /\ e.path = p /\ e.stamp = fs[p].stamp
    BY ScanIs
  <2>2. p \notin Seen => queue' = queue
    BY DEF Scan, Seen
  <2> QED BY <2>1, <2>2 DEF Current
<1>2. UNCHANGED <<fs, held, ops, pc, locals, stores, ev, seen, meta, missed, Existing>>
  BY <1>1, NewsScan DEF locals, stores, marks
<1>3. UNCHANGED Renaming
  BY MovesScan
<1>4. /\ StampInv'
      /\ \A x \in Existing : \A i \in DOMAIN queue' : queue'[i].stamp = fs[x].stamp => queue'[i].path = x
  BY <1>1, <1>2, ServedAppend DEF FilesInv
<1>5. \A q \in Later : q \in Later'
  BY NewsScan
<1> QED BY <1>2, <1>3, <1>4, <1>5, ServedFrame DEF FilesInv

(* The worker takes an event out of the queue, whether it drops it or not. *)
LEMMA ServedTake ==
  ASSUME TypeInv, NewsInv, MoveInv, FilesInv, Take
  PROVE  FilesInv'
<1>1. /\ queue # <<>> /\ ev' = Head(queue) /\ queue' = Tail(queue) /\ pc = "idle"
      /\ pc' \in {"purge", "move", "stat"}
      /\ UNCHANGED <<fs, ops, held, raw, old, id, seen, got, victim, then, meta, chunks, fts, jobs>>
  BY DEF Take, At, Goto, stores
<1>2. ~Working /\ ~Working' /\ ~Named' /\ ~Writing'
  BY <1>1 DEF Working, Named, Writing
<1>3. UNCHANGED <<Renaming, From, Existing>>
  BY MovesTake, NewsTake DEF From
<1>4. /\ 1 \in DOMAIN queue /\ ev' = queue[1]
      /\ \A i \in DOMAIN queue' : i + 1 \in DOMAIN queue /\ queue'[i] = queue[i + 1]
  <2>1. queue \in Seq(Event)
    BY DEF TypeInv, TypeOK, WorldOK
  <2> QED BY <1>1, <2>1, LatestTail
<1>5. UNCHANGED <<Seen, Fitting, Whole, Indexed, Settled>>
  BY <1>1, <1>3 DEF Seen, Visible, Fitting, Whole, WholeAt, Indexed, Settled, Tied
<1>6. OnlyInv'
  <2>1. FilesOnly' /\ RowsOnly'
    BY <1>1, <1>5 DEF FilesInv, OnlyInv, FilesOnly, RowsOnly, Exists, Tied, HasRow, Home
  <2>2. HandOnly'
    BY <1>1, <1>2 DEF FilesInv, OnlyInv, HandOnly
  <2> QED BY <2>1, <2>2 DEF OnlyInv
<1>7. RowInv'
  BY <1>1, <1>2, <1>5 DEF FilesInv, RowInv
<1>8. Carried'
  <2>1. \A d, p : WholeAt(d, p)' <=> WholeAt(d, p)
    BY <1>1 DEF WholeAt
  <2> QED BY <1>1, <1>3, <1>5, <2>1 DEF FilesInv, Carried
<1>9. NameInv'
  BY <1>1, <1>5 DEF FilesInv, NameInv
<1>10. PlaceInv'
  <2>1. Seen' \subseteq Later' \cup InHand' \cup Indexed' \cup missed'
    BY <1>5, NewsTake DEF FilesInv, PlaceInv
  <2> QED BY <1>1, <1>2, <2>1 DEF PlaceInv
<1>11. StampInv'
  BY <1>1, <1>3, <1>4 DEF FilesInv, StampInv
<1>12. OriginInv'
  BY <1>1, <1>3, <1>4 DEF FilesInv, OriginInv, HasRow
<1> QED BY <1>6, <1>7, <1>8, <1>9, <1>10, <1>11, <1>12 DEF FilesInv

LEMMA ServedDebounce ==
  ASSUME TypeInv, NewsInv, MoveInv, FilesInv, Debounce
  PROVE  FilesInv'
<1>1. /\ queue # <<>> /\ queue' = Tail(queue) /\ pc = "idle"
      /\ UNCHANGED <<fs, ops, held, pc, locals, stores, ev, seen, meta>>
  BY DEF Debounce, At, locals, stores
<1>2. UNCHANGED <<Renaming, Existing>>
  BY MovesDebounce, NewsTake
<1>3. \A i \in DOMAIN queue' : i + 1 \in DOMAIN queue /\ queue'[i] = queue[i + 1]
  <2>1. queue \in Seq(Event)
    BY DEF TypeInv, TypeOK, WorldOK
  <2> QED BY <1>1, <2>1, LatestTail
<1>4. StampInv'
  BY <1>1, <1>2, <1>3 DEF FilesInv, StampInv
<1>5. \A x \in Existing : \A i \in DOMAIN queue' : queue'[i].stamp = fs[x].stamp => queue'[i].path = x
  BY <1>3 DEF FilesInv, OriginInv
<1>6. /\ UNCHANGED <<Seen, InHand, Indexed, Working>>
      /\ OnlyInv' /\ RowInv' /\ Carried' /\ NameInv' /\ OriginInv'
  BY <1>1, <1>2, <1>5, ServedFrame
<1>7. PlaceInv'
  <2>1. Seen' \subseteq Later' \cup InHand' \cup Indexed' \cup missed'
    BY <1>6, NewsTake DEF FilesInv, PlaceInv
  <2> QED BY <1>1, <2>1 DEF PlaceInv
<1> QED BY <1>4, <1>6, <1>7 DEF FilesInv

(* A step of index_file.  Of its steps these are left.                     *)
LEMMA FewSteps ==
  ASSUME OnlyInv, Worker, ~Take, ~Debounce
  PROVE  \/ Purge \/ Drop \/ Rename \/ Moved \/ Stat \/ TooLarge \/ Hash("hash", "parse")
         \/ (\E o \in {"ok", "stub", "failed"} : Parse(o))
         \/ Clear \/ ReplaceChunks \/ FtsUpsert \/ EnqueueJobs
<1>1. ~Hash("hashEmpty", "upsertEmpty") /\ ~UpsertEmpty /\ ~Clone
  BY DEF OnlyInv, HandOnly, Hash, UpsertEmpty, Clone, At
<1>2. ~Reuse
  BY DEF OnlyInv, HandOnly, Named, Home, Reuse, Reusable, At
<1> QED BY <1>1, <1>2 DEF Worker

(* A rename is under way only up to the step that gives the row away.      *)
LEMMA NoneRenaming ==
  ASSUME TypeInv, MoveInv, Worker, ~Take, ~Debounce
  PROVE  /\ Renaming' = {} /\ From' = {}
         /\ ~Rename => Renaming = {} /\ From = {}
BY MovesWorker DEF From

(* That step: the row of the former path becomes the row of the new one.   *)
LEMMA RenamedRow ==
  ASSUME Restrained, UniqueInv, MoveInv, FilesInv, Rename
  PROVE  \E d \in DocId :
           /\ Large = {} /\ ev.prev \in Path /\ ev.prev # ev.path
           /\ ev.prev \in Existing => ev.prev \in Later
           /\ From = {ev.prev}
           /\ meta[d].path = ev.prev /\ \A x \in DocId : meta[x].path = ev.prev => x = d
           /\ ev.prev \in Existing => meta[d].stamp # fs[ev.prev].stamp
           /\ d.kind = "sha" /\ ev.path \in held[d.text] /\ Tied(d.text, ev.path)
           /\ ev.path \in Seen /\ fs[ev.path].stamp = meta[d].stamp =>
                WholeAt(d, ev.path) /\ d = Sha(fs[ev.path].text)
           /\ meta'[d].path = ev.path /\ meta'[d].stamp = meta[d].stamp /\ meta'[d].ok = meta[d].ok
           /\ chunks'[d] = chunks[d] /\ UNCHANGED <<ev, old, fts, jobs>>
           /\ \A x \in DocId : x # d => \/ meta'[x] = meta[x] /\ chunks'[x] = chunks[x]
                                        \/ meta'[x] = NoRow /\ meta[x].path = ev.path
           /\ \/ pc' = "moved"
              \/ pc' = "drop" /\ then' = "moved" /\ victim' \in DocId /\ meta'[victim'] = NoRow
<1> DEFINE m == Shift(ev)
           d == DocAt(ev.prev)
<1>1. TypeInv /\ OneOwner /\ OnlyInv /\ Carried
  BY DEF UniqueInv, FilesInv
<1>2. m.from = ev.prev /\ m.to = ev.path
  BY DEF Shift
<1>3. pc = "move" /\ m \in Renaming
  BY DEF Rename, At, Renaming, Handled
<1>4. Renaming = {m}
  <2>1. Worker /\ ~Take /\ ~Debounce
    BY <1>3 DEF Worker, Take, Debounce, At
  <2>2. \A x \in Renaming : x = m
    BY <1>1, <2>1, MovesWorker
  <2> QED BY <1>3, <2>2
<1> HIDE DEF m
<1>5. From = {ev.prev}
  BY <1>2, <1>4 DEF From
<1>6. Large = {} /\ ev.prev # ev.path /\ (ev.prev \in Existing => ev.prev \in Later)
  BY <1>2, <1>3 DEF MoveInv, Restrained
<1>7. PICK e \in DocId :
        /\ meta[e].path = m.from
        /\ m.from \in Existing => meta[e].stamp # fs[m.from].stamp
        /\ m.to \in Seen /\ fs[m.to].stamp = meta[e].stamp => WholeAt(e, m.to) /\ e = Sha(fs[m.to].text)
  BY <1>1, <1>3 DEF Carried
<1>8. ev.prev \in Path
  BY <1>1, <1>2, <1>3 DEF Carried
<1>9. e = d /\ d # NoId /\ \A x \in DocId : meta[x].path = ev.prev => x = d
  BY <1>1, <1>2, <1>7, <1>8, DocAtOwner, DocIds
<1>10. HasRow(e)
  BY <1>2, <1>7, <1>8, Universe DEF HasRow
<1>11. Home(e, ev.prev) /\ e \in Settled
  BY <1>1, <1>2, <1>7, <1>10 DEF OnlyInv, RowsOnly
<1>12. e.kind = "sha"
  <2>1. e.kind \notin {"dup", "skip"}
    BY <1>6, <1>11 DEF Home
  <2> QED BY <2>1 DEF DocId, Sha, Dup, Skip
<1>13. ev.path \in held[e.text] /\ Tied(e.text, ev.path)
  BY <1>2, <1>3, <1>7, <1>11, <1>12 DEF Settled
<1>14. /\ meta'[d].path = ev.path /\ meta'[d].stamp = meta[d].stamp /\ meta'[d].ok = meta[d].ok
       /\ chunks'[d] = chunks[d] /\ UNCHANGED <<ev, old, fts, jobs>>
  BY <1>1, <1>9, RenameIs
<1>15. \A x \in DocId : x # d => \/ meta'[x] = meta[x] /\ chunks'[x] = chunks[x]
                                 \/ meta'[x] = NoRow /\ meta[x].path = ev.path
  BY <1>1, <1>9, RenameIs
<1>16. \/ pc' = "moved"
       \/ pc' = "drop" /\ then' = "moved" /\ victim' \in DocId /\ meta'[victim'] = NoRow
  BY <1>1, <1>9, RenameIs
<1> HIDE DEF d
<1> QED BY <1>2, <1>5, <1>6, <1>7, <1>8, <1>9, <1>12, <1>13, <1>14, <1>15, <1>16

(* Where no content comes twice, _doc_id_for answers with its hash.        *)
LEMMA NamedByContent ==
  ASSUME TypeInv, OnlyInv, From = {}, NEW p \in Path, Exists(p),
         NEW mine \in DocId \cup {NoId}, mine.kind # "dup"
  PROVE  LET c == fs[p].text IN
         /\ DocIdFor(p, c, mine) = Sha(c) /\ c \in Text /\ Sha(c) \in DocId
         /\ p \in held[c] /\ Tied(c, p) /\ meta[Sha(c)].path \in {Nil, p}
<1> DEFINE c == fs[p].text
<1>1. c \in Text /\ p \in held[c] /\ Tied(c, p) /\ Sha(c) \in DocId
  BY DocIds DEF Exists, TypeInv, TypeOK, WorldOK, File, OnlyInv, FilesOnly
<1>2. Sha(c).kind = "sha" /\ Sha(c).text = c
  BY DEF Sha
<1>3. meta[Sha(c)].path \in {Nil, p}
  <2>1. HasRow(Sha(c)) => Tied(c, meta[Sha(c)].path)
    BY <1>1, <1>2 DEF OnlyInv, RowsOnly, Settled
  <2> QED BY <2>1 DEF HasRow, Tied
<1>4. CASE Names(mine, c)
  <2>1. mine.kind = "sha" /\ mine.text = c
    BY <1>4 DEF Names
  <2>2. mine \in DocId
    BY <2>1 DEF NoId
  <2>3. \E b \in Text : mine = Sha(b)
    BY <2>1, <2>2 DEF DocId, Dup, Skip
  <2>4. mine = Sha(c)
    BY <2>1, <2>3 DEF Sha
  <2> QED BY <1>1, <1>3, <1>4, <2>4 DEF DocIdFor
<1>5. CASE ~Names(mine, c)
  BY <1>1, <1>3, <1>5 DEF DocIdFor
<1> QED BY <1>4, <1>5

(* What a step does to the documents table.                                *)
LEMMA RowWrites ==
  ASSUME Restrained, UniqueInv, MoveInv, FilesInv, Worker, ~Take, ~Debounce
  PROVE  \A d \in DocId : \/ meta'[d] \in {meta[d], NoRow}
                          \/ /\ d = id /\ Named /\ meta'[d].path = ev.path
                             /\ meta'[d].stamp = ev.stamp \/ (pc = "tooLarge" /\ meta'[d].stamp = seen)
                          \/ /\ Rename /\ meta[d].path = ev.prev
                             /\ meta'[d].path = ev.path /\ meta'[d].stamp = meta[d].stamp
<1>1. meta \in [DocId -> Row] /\ OnlyInv
  BY DEF UniqueInv, TypeInv, TypeOK, StoresOK, FilesInv
<1>2. \A s, ok : id \in DocId /\ Upsert(id, ev.path, s, ok) =>
        /\ \A d \in DocId : d # id => meta'[d] = meta[d]
        /\ meta'[id].path = ev.path /\ meta'[id].stamp = s
  BY <1>1 DEF Upsert
<1>3. \A d : DeleteRow(d) => \A e \in DocId : meta'[e] \in {meta[e], NoRow}
  BY <1>1 DEF DeleteRow
<1>4. CASE Purge \/ Hash("hash", "parse")
  BY <1>3, <1>4 DEF Purge, Hash, stores
<1>5. CASE TooLarge \/ \E o \in {"ok", "stub", "failed"} : Parse(o)
  <2>1. Named /\ id \in DocId
    BY <1>5 DEF TooLarge, Parse, At, Named, UniqueInv, TypeInv, Handling
  <2>2. \/ meta' = meta
        \/ \E ok : Upsert(id, ev.path, ev.stamp, ok)
        \/ pc = "tooLarge" /\ \E ok : Upsert(id, ev.path, seen, ok)
    BY <1>5 DEF TooLarge, Parse, At
  <2> QED BY <1>2, <2>1, <2>2
<1>6. CASE Drop \/ Moved \/ Stat \/ Clear \/ ReplaceChunks \/ FtsUpsert \/ EnqueueJobs
  BY <1>6 DEF Drop, Moved, Stat, Clear, ReplaceChunks, FtsUpsert, EnqueueJobs, stores
<1>7. CASE Rename
  BY <1>7, RenamedRow
<1> QED BY <1>1, <1>4, <1>5, <1>6, <1>7, FewSteps

LEMMA StampWorker ==
  ASSUME Restrained, UniqueInv, MoveInv, FilesInv, Worker, ~Take, ~Debounce
  PROVE  StampInv'
<1>1. UNCHANGED <<fs, ops, queue>> /\ pc # "idle" /\ (Finish \/ ev' = ev)
  BY WorkerGoesOn
<1>2. ops >= 0 /\ OnlyInv /\ StampInv
  BY StampTypes DEF UniqueInv, FilesInv
<1>3. ev'.stamp <= ops
  BY <1>1, <1>2 DEF StampInv, Finish, NoEv
<1>4. seen' <= ops
  <2>1. seen' = seen \/ seen' = 0 \/ seen' = fs[ev.path].stamp
    <3>1. CASE Purge \/ Drop \/ Rename \/ Moved \/ Stat \/ TooLarge \/ Hash("hash", "parse")
      BY <3>1 DEF Purge, Drop, Rename, Moved, Stat, TooLarge, Hash, Finish, locals
    <3>2. CASE (\E o \in {"ok", "stub", "failed"} : Parse(o)) \/ Clear \/ ReplaceChunks
                 \/ FtsUpsert \/ EnqueueJobs
      BY <3>2 DEF Parse, Clear, ReplaceChunks, FtsUpsert, EnqueueJobs, Finish, locals
    <3> QED BY <1>2, <3>1, <3>2, FewSteps
  <2>2. ev.path \in Path
    BY <1>1 DEF UniqueInv, TypeInv, Handling, Event
  <2> QED BY <1>2, <2>1, <2>2 DEF StampInv
<1>5. \A d \in DocId : meta'[d].stamp <= ops
  BY <1>2, RowWrites DEF StampInv, NoRow
<1>6. UNCHANGED Existing
  BY <1>1 DEF Existing, Exists
<1> QED BY <1>1, <1>2, <1>3, <1>4, <1>5, <1>6 DEF StampInv

LEMMA OriginWorker ==
  ASSUME Restrained, UniqueInv, MoveInv, FilesInv, Worker, ~Take, ~Debounce
  PROVE  OriginInv'
<1>1. /\ UNCHANGED <<fs, queue>> /\ pc # "idle" /\ ev.path \in Path
      /\ Finish \/ (ev' = ev /\ pc' # "idle")
      /\ TypeInv /\ OnlyInv /\ OriginInv /\ StampInv
  BY WorkerGoesOn DEF FilesInv, UniqueInv, TypeInv, Handling, Event
<1>2. UNCHANGED Existing
  BY <1>1 DEF Existing, Exists
<1>3. Renaming' = {} /\ \A m \in Renaming : m = Shift(ev) /\ Rename
  BY <1>1, MovesWorker
<1>4. ASSUME pc' = "tooLarge" PROVE ev' = ev /\ ev.path \in Existing /\ seen' = fs[ev.path].stamp
  <2>1. ~Finish
    BY <1>4 DEF Finish
  <2>2. ~Drop
    BY <1>4, <2>1 DEF Drop, Goto, UniqueInv, TypeInv, TypeOK, LocalsOK
  <2>3. ~Purge /\ ~Rename /\ ~Moved /\ ~TooLarge /\ ~Hash("hash", "parse")
    <3>1. ~Rename
      BY <1>1, <1>4, RenameIs
    <3> QED BY <1>4, <2>1, <3>1 DEF Purge, Moved, TooLarge, Hash, Goto, DropThen
  <2>4. (\A o \in {"ok", "stub", "failed"} : ~Parse(o)) /\ ~Clear /\ ~ReplaceChunks /\ ~FtsUpsert /\ ~EnqueueJobs
    BY <1>4, <2>1 DEF Parse, Clear, ReplaceChunks, FtsUpsert, EnqueueJobs, Goto, DropThen
  <2>5. Stat
    BY <1>1, <2>2, <2>3, <2>4, FewSteps
  <2>6. Exists(ev.path) /\ seen' = fs[ev.path].stamp
    BY <1>4, <2>1, <2>5 DEF Stat, Goto
  <2> QED BY <1>1, <2>1, <2>6 DEF Existing
<1>5. ASSUME NEW x \in Existing, NEW d \in DocId, meta'[d].path # Nil, meta'[d].stamp = fs[x].stamp
      PROVE  meta'[d].path = x
  <2>1. CASE meta'[d] \in {meta[d], NoRow}
    <3>1. meta'[d] = meta[d] /\ HasRow(d)
      BY <1>5, <2>1 DEF HasRow, NoRow
    <3>2. meta[d].path = x \/ [from |-> meta[d].path, to |-> x] \in Renaming
      BY <1>1, <1>5, <3>1 DEF OriginInv
    <3>3. ASSUME [from |-> meta[d].path, to |-> x] \in Renaming PROVE FALSE
      <4>1. Rename /\ meta[d].path = ev.prev
        BY <1>3, <3>3 DEF Shift
      <4>2. ev.prev # ev.path /\ meta'[d].path = ev.path
        BY <4>1, RenamedRow
      <4> QED BY <3>1, <4>1, <4>2
    <3> QED BY <3>1, <3>2, <3>3
  <2>2. CASE /\ meta'[d].path = ev.path
             /\ meta'[d].stamp = ev.stamp \/ (pc = "tooLarge" /\ meta'[d].stamp = seen)
    BY <1>1, <1>5, <2>2 DEF OriginInv
  <2>3. CASE /\ Rename /\ meta[d].path = ev.prev
             /\ meta'[d].path = ev.path /\ meta'[d].stamp = meta[d].stamp
    <3>1. ev.prev \in Path /\ (ev.prev \in Existing => meta[d].stamp # fs[ev.prev].stamp)
      BY <2>3, RenamedRow
    <3>2. HasRow(d)
      BY <2>3, <3>1, Universe DEF HasRow
    <3>3. meta[d].path = x \/ [from |-> meta[d].path, to |-> x] \in Renaming
      BY <1>1, <1>5, <2>3, <3>2 DEF OriginInv
    <3>4. meta[d].path # x
      BY <1>5, <2>3, <3>1
    <3>5. x = ev.path
      BY <1>3, <3>3, <3>4 DEF Shift
    <3> QED BY <2>3, <3>5
  <2> QED BY <1>5, <2>1, <2>2, <2>3, RowWrites
<1> SUFFICES ASSUME NEW x \in Existing
             PROVE  /\ fs[x].stamp # 0
                    /\ \A i \in DOMAIN queue : queue[i].stamp = fs[x].stamp => queue[i].path = x
                    /\ pc' # "idle" /\ ev'.stamp = fs[x].stamp => ev'.path = x
                    /\ pc' = "tooLarge" /\ seen' = fs[x].stamp => ev'.path = x
                    /\ \A d \in DocId : HasRow(d)' /\ meta'[d].stamp = fs[x].stamp =>
                         meta'[d].path = x \/ [from |-> meta'[d].path, to |-> x] \in Renaming'
  BY <1>1, <1>2 DEF OriginInv
<1>6. fs[x].stamp # 0 /\ \A i \in DOMAIN queue : queue[i].stamp = fs[x].stamp => queue[i].path = x
  BY <1>1 DEF OriginInv
<1>7. pc' # "idle" /\ ev'.stamp = fs[x].stamp => ev'.path = x
  BY <1>1 DEF OriginInv, Finish
<1>8. pc' = "tooLarge" /\ seen' = fs[x].stamp => ev'.path = x
  BY <1>1, <1>4 DEF StampInv
<1>9. \A d \in DocId : HasRow(d)' /\ meta'[d].stamp = fs[x].stamp => meta'[d].path = x
  BY <1>5 DEF HasRow
<1> QED BY <1>6, <1>7, <1>8, <1>9

LEMMA RowsWorker ==
  ASSUME Restrained, UniqueInv, MoveInv, FilesInv, Worker, ~Take, ~Debounce
  PROVE  FilesOnly' /\ RowsOnly'
<1>1. UNCHANGED <<fs, held>>
  BY WorkerGoesOn
<1>2. OnlyInv /\ TypeInv
  BY DEF FilesInv, UniqueInv
<1>3. FilesOnly'
  BY <1>1, <1>2 DEF OnlyInv, FilesOnly, Exists, Tied
<1>4. Renaming' = {} /\ From' = {} /\ (~Rename => Renaming = {} /\ From = {})
  BY <1>2, NoneRenaming
<1>5. RowsOnly'
  <2> SUFFICES ASSUME NEW d \in DocId, HasRow(d)'
               PROVE  Home(d, meta'[d].path) /\ (d.kind = "sha" => Tied(d.text, meta'[d].path))
    BY <1>1, <1>4 DEF RowsOnly, Settled, Home, Tied
  <2>1. meta'[d].path # Nil
    BY DEF HasRow
  <2>2. CASE meta'[d] \in {meta[d], NoRow}
    <3>1. meta'[d] = meta[d] /\ HasRow(d)
      BY <2>1, <2>2 DEF HasRow, NoRow
    <3>2. meta[d].path \notin From
      <4>1. CASE Rename
        <5>1. From = {ev.prev} /\ (meta[d].path = ev.prev => meta'[d].path # ev.prev)
          BY <4>1, RenamedRow
        <5> QED BY <3>1, <5>1
      <4> QED BY <1>4, <4>1
    <3> QED BY <1>2, <3>1, <3>2 DEF OnlyInv, RowsOnly, Settled
  <2>3. CASE d = id /\ Named /\ meta'[d].path = ev.path
    BY <1>2, <2>3 DEF OnlyInv, HandOnly
  <2>4. CASE Rename /\ meta[d].path = ev.prev /\ meta'[d].path = ev.path
    <3>1. d.kind = "sha" /\ ev.path \in held[d.text] /\ Tied(d.text, ev.path)
      BY <2>4, RenamedRow
    <3> QED BY <2>4, <3>1 DEF Home
  <2> QED BY <2>2, <2>3, <2>4, RowWrites
<1> QED BY <1>3, <1>5

LEMMA HandWorker ==
  ASSUME Restrained, UniqueInv, MoveInv, FilesInv, Worker, ~Take, ~Debounce
  PROVE  HandOnly'
<1> DEFINE Only(d) == Home(d, ev.path) /\ (d.kind = "sha" => Tied(d.text, ev.path))
<1>1. UNCHANGED <<fs, held>> /\ pc # "idle" /\ (Finish \/ ev' = ev) /\ ev.path \in Path
  BY WorkerGoesOn DEF UniqueInv, TypeInv, Handling, Event
<1>2. OnlyInv /\ HandOnly /\ TypeInv /\ meta \in [DocId -> Row]
  BY DEF FilesInv, OnlyInv, UniqueInv, TypeInv, TypeOK, StoresOK
<1>3. ~Rename => From = {}
  BY <1>2, NoneRenaming
<1>4. NoId.kind = "none" /\ Only(NoId) /\ NoId \notin DocId
  <2>1. NoId.kind = "none"
    BY DEF NoId
  <2> QED BY <2>1, DocIds DEF Home
<1>5. ~Rename => Only(DocAt(ev.path))
  <2>1. CASE DocAt(ev.path) = NoId
    BY <1>4, <2>1
  <2>2. CASE DocAt(ev.path) # NoId
    <3> DEFINE d == DocAt(ev.path)
    <3>1. d \in DocId /\ meta[d].path = ev.path /\ ev.path # Nil
      BY <1>1, <2>2, DocAtIs, Universe
    <3>2. ~Rename => Only(d)
      <4> HIDE DEF d
      <4> QED BY <1>2, <1>3, <3>1 DEF OnlyInv, RowsOnly, Settled, HasRow
    <3> QED BY <3>2
  <2> QED BY <2>1, <2>2
<1>6. Named => Only(id)
  BY <1>2 DEF HandOnly
<1>7. old.kind # "dup" /\ then # "upsertEmpty" /\ (Large = {} => pc # "tooLarge")
  BY <1>2 DEF HandOnly
<1> DEFINE Rest == /\ Named' => ev' = ev /\ Only(id')
                   /\ old'.kind # "dup"
                   /\ pc' \notin {"hashEmpty", "upsertEmpty", "clone"} /\ then' # "upsertEmpty"
                   /\ Large = {} => pc' # "tooLarge"
                   /\ pc' = "hash" => Own(old)'
                   /\ Writing' => Own(id)'
<1> SUFFICES Rest
  BY <1>1 DEF HandOnly, Home, Tied
<1> HIDE DEF Rest
<1>8. ASSUME pc' \notin {"hash", "hashEmpty", "upsertEmpty", "clone", "tooLarge", "parse"}, old'.kind # "dup",
             then' # "upsertEmpty", pc' = "drop" => then' # "parse",
             Named' => Named /\ UNCHANGED <<ev, id>>
      PROVE  Rest
  <2>1. ~Writing'
    BY <1>8 DEF Writing
  <2> HIDE DEF Only
  <2> QED BY <1>6, <1>8, <2>1 DEF Rest
<1>9. Finish => Rest
  BY <1>4, <1>8 DEF Finish, Named
<1>10. CASE Purge
  BY <1>7, <1>8, <1>9, <1>10 DEF Purge, DropThen, Named
<1>11. CASE Drop
  <2>1. CASE Finish
    BY <1>9, <2>1
  <2>2. CASE ~Finish
    <3>1. pc = "drop" /\ pc' = then /\ then' = "idle" /\ UNCHANGED <<ev, id, old, meta>>
          /\ then \in {"parse", "moved"}
      BY <1>2, <1>7, <1>11, <2>2 DEF Drop, At, Goto, TypeInv, TypeOK, LocalsOK
    <3>2. CASE then = "moved"
      BY <1>7, <1>8, <3>1, <3>2 DEF Named
    <3>3. CASE then = "parse"
      <4>1. Named /\ Writing
        BY <3>1, <3>3 DEF Named, Writing
      <4>2. Own(id)'
        BY <1>2, <3>1, <4>1 DEF HandOnly, Own
      <4> HIDE DEF Only
      <4> QED BY <1>6, <1>7, <3>1, <3>3, <4>1, <4>2 DEF Rest
    <3> QED BY <3>1, <3>2, <3>3
  <2> QED BY <2>1, <2>2
<1>12. CASE Rename
  <2>1. pc' \in {"stat", "moved", "drop"} /\ old' = old
    BY <1>2, <1>12, RenameIs
  <2>2. then' \in {then, "moved"} /\ (pc' = "drop" => then' = "moved")
    BY <1>12 DEF Rename, Goto, DropThen
  <2> QED BY <1>7, <1>8, <2>1, <2>2 DEF Named
<1>13. CASE Moved
  BY <1>7, <1>8, <1>9, <1>13 DEF Moved, Goto, Named
<1>14. CASE Stat
  <2> DEFINE d == DocAt(ev.path)
  <2>1. CASE Finish
    BY <1>9, <2>1
  <2>2. CASE ~Finish
    <3>1. fs[ev.path].text \notin Empty
      BY DEF Restrained
    <3>2. /\ UNCHANGED <<ev, then, meta>>
          /\ \/ pc' = "tooLarge" /\ id' \in {d, Skip(ev.path)} /\ old' = old /\ Large # {}
             \/ pc' = "hash" /\ old' = d
      BY <1>14, <2>2, <3>1 DEF Stat, Goto, stores
    <3>3. Large # {} => Only(Skip(ev.path))
      BY DEF Home, Skip
    <3>4. ~Rename /\ Only(d) /\ d.kind # "dup"
      <4>1. ~Rename
        BY <1>14 DEF Stat, Rename, At
      <4> QED BY <1>5, <4>1 DEF Home
    <3>5. d \in DocId => meta[d].path = ev.path
      <4>1. d \in DocId => d # NoId
        BY <1>4
      <4> QED BY <4>1, DocAtIs
    <3>6. Skip(ev.path) \in DocId => meta[Skip(ev.path)].path \in {Nil, ev.path}
      <4>1. Skip(ev.path).kind = "skip" /\ Skip(ev.path).path = ev.path
        BY DEF Skip
      <4> QED BY <1>2, <4>1 DEF OnlyInv, RowsOnly, Home, HasRow
    <3> HIDE DEF Only, d
    <3>7. Named' => ev' = ev /\ Only(id')
      BY <3>2, <3>3, <3>4 DEF Named
    <3>8. pc' = "hash" => Own(old)'
      BY <3>2, <3>5 DEF Own
    <3>9. Writing' => Own(id)'
      BY <3>2, <3>5, <3>6 DEF Own, Writing
    <3> QED BY <1>7, <3>2, <3>4, <3>7, <3>8, <3>9 DEF Rest
  <2> QED BY <2>1, <2>2
<1>15. CASE Hash("hash", "parse")
  <2> DEFINE c == fs[ev.path].text
             d == DocIdFor(ev.path, c, old)
  <2>1. CASE ~Exists(ev.path)
    BY <1>9, <1>15, <2>1 DEF Hash
  <2>2. CASE Exists(ev.path)
    <3>1. old \in DocId \cup {NoId} /\ From = {}
      <4>1. ~Rename
        BY <1>15 DEF Hash, Rename, At
      <4> QED BY <1>2, <1>3, <4>1 DEF TypeInv, TypeOK, LocalsOK
    <3>2. d = Sha(c) /\ Sha(c) \in DocId /\ ev.path \in held[c] /\ Tied(c, ev.path)
          /\ meta[Sha(c)].path \in {Nil, ev.path}
      BY <1>1, <1>2, <1>7, <2>2, <3>1, NamedByContent
    <3>3. Only(d)
      <4>1. Sha(c).kind = "sha" /\ Sha(c).text = c
        BY DEF Sha
      <4> HIDE DEF d
      <4> QED BY <3>2, <4>1 DEF Home
    <3>4. /\ id' = d /\ UNCHANGED <<ev, old>> /\ pc' \in {"parse", "drop"} /\ then' \in {then, "parse"}
          /\ meta' = meta \/ DeleteRow(old)
      BY <1>15, <2>2 DEF Hash, Goto, DropThen, stores
    <3>5. meta'[Sha(c)].path \in {Nil, ev.path}
      BY <1>2, <3>2, <3>4 DEF DeleteRow, NoRow
    <3> HIDE DEF Only, d
    <3>6. Own(id)'
      BY <3>2, <3>4, <3>5 DEF Own
    <3> QED BY <1>7, <3>3, <3>4, <3>6 DEF Rest
  <2> QED BY <2>1, <2>2
<1>16. CASE \/ TooLarge \/ (\E o \in {"ok", "stub", "failed"} : Parse(o))
            \/ Clear \/ ReplaceChunks \/ FtsUpsert \/ EnqueueJobs
  <2>1. CASE Finish
    BY <1>9, <2>1
  <2>2. CASE ~Finish
    <3>1. Named /\ UNCHANGED <<ev, id, old>>
      BY <1>16, <2>2 DEF TooLarge, Parse, Clear, ReplaceChunks, FtsUpsert, EnqueueJobs, At, Named, locals
    <3>2. pc' \in {"clear", "chunk", "drop", "fts", "enqueue"} /\ then' \in {then, "idle"}
      BY <1>16, <2>2 DEF TooLarge, Parse, Clear, ReplaceChunks, FtsUpsert, EnqueueJobs, Goto,
                         DropThen, locals
    <3>3. pc' = "drop" => then' = "idle"
      BY <1>16, <2>2 DEF TooLarge, Parse, Clear, ReplaceChunks, FtsUpsert, EnqueueJobs, Goto,
                         DropThen, locals
    <3> QED BY <1>7, <1>8, <3>1, <3>2, <3>3
  <2> QED BY <2>1, <2>2
<1> QED BY <1>2, <1>10, <1>11, <1>12, <1>13, <1>14, <1>15, <1>16, FewSteps

(* What becomes of the rows a step does not write.                         *)
Same(d) == /\ meta'[d] = meta[d] /\ chunks'[d] = chunks[d] /\ fts'[d] = fts[d]
           /\ d \in jobs => d \in jobs'

LEMMA RestWhole ==
  ASSUME RowInv, fs' = fs, NEW x, Working => id = x,
         \A d \in DocId : d = x \/ meta'[d].path = Nil \/ Same(d)
  PROVE  /\ Seen' = Seen
         /\ \A d \in Fitting' : d = x \/ (d \in Fitting /\ d \in Whole')
<1>1. Seen' = Seen
  BY DEF Seen, Visible
<1>2. ASSUME NEW d \in Fitting', d # x PROVE d \in Fitting /\ d \in Whole'
  <2>1. d \in DocId /\ meta'[d].path \in Seen /\ meta'[d].stamp = fs[meta'[d].path].stamp
    BY <1>1 DEF Fitting
  <2>2. meta'[d].path # Nil
    BY <2>1, Universe DEF Seen
  <2>3. Same(d)
    BY <1>2, <2>1, <2>2
  <2>4. d \in Fitting
    BY <2>1, <2>3 DEF Same, Fitting
  <2>5. d \in Whole
    BY <1>2, <2>4 DEF RowInv
  <2> QED BY <2>1, <2>3, <2>4, <2>5 DEF Same, Whole, WholeAt
<1> QED BY <1>1, <1>2

LEMMA RowIdle ==
  ASSUME RowInv, fs' = fs, ~Working, ~Working',
         \A d \in DocId : meta'[d].path = Nil \/ Same(d),
         pc' = "drop" => (victim' \in DocId => meta'[victim'].path = Nil)
  PROVE  RowInv'
<1>1. NoId \notin DocId
  BY DocIds
<1>2. \A d \in Fitting' : d = NoId \/ (d \in Fitting /\ d \in Whole')
  BY RestWhole
<1>3. \A d \in Fitting' : d \in Whole'
  BY <1>1, <1>2 DEF Fitting
<1> QED BY <1>3 DEF RowInv

LEMMA RowWorker ==
  ASSUME Restrained, UniqueInv, Deleting, MoveInv, FilesInv, Worker, ~Take, ~Debounce
  PROVE  RowInv'
<1>1. /\ UNCHANGED fs /\ pc # "idle" /\ ev.path \in Path /\ ev.path # Nil
      /\ meta \in [DocId -> Row] /\ chunks \in [DocId -> SUBSET Chunk]
      /\ fts \in [DocId -> SUBSET Chunk] /\ (Named => id \in DocId) /\ RowInv /\ OnlyInv
  BY WorkerGoesOn, Universe DEF FilesInv, UniqueInv, TypeInv, TypeOK, StoresOK, Handling, Event
<1>2. Finish => ~Working' /\ pc' # "drop"
  BY DEF Finish, Working
<1>3. UNCHANGED stores => \A d \in DocId : Same(d)
  BY DEF stores, Same
<1>4. \A e : DeleteRow(e) /\ UNCHANGED <<fts, jobs>> =>
        \A d \in DocId : meta'[d].path = Nil \/ Same(d)
  BY <1>1 DEF DeleteRow, NoRow, Same
<1>5. Working => /\ id \in DocId /\ meta[id].path = ev.path /\ HasRow(id)
  BY <1>1 DEF RowInv, HasRow
<1>6. pc \in {"tooLarge", "parse"} => ~Clash(id, ev.path)
  BY DEF UniqueInv, NoUniqueClash, Writing
<1>7. CASE Purge
  <2>1. ~Working /\ ev.change = "deleted"
    BY <1>7 DEF Purge, At, Working, Deleting
  <2>2. CASE DocAt(ev.path) = NoId
    BY <1>1, <1>2, <1>3, <1>7, <2>1, <2>2, RowIdle DEF Purge
  <2>3. CASE DocAt(ev.path) # NoId
    <3>1. DocAt(ev.path) \in DocId
      BY <2>3, DocAtIs
    <3>2. /\ DeleteRow(DocAt(ev.path)) /\ pc' = "drop" /\ victim' = DocAt(ev.path) /\ ev' = ev
          /\ UNCHANGED <<fts, jobs>>
      BY <1>7, <2>3 DEF Purge, DropThen
    <3>3. meta'[victim'].path = Nil
      BY <1>1, <3>1, <3>2 DEF DeleteRow, NoRow
    <3>4. ~Working'
      BY <2>1, <3>2 DEF Working
    <3> QED BY <1>1, <1>4, <2>1, <3>2, <3>3, <3>4, RowIdle
  <2> QED BY <2>2, <2>3
<1>8. CASE Drop
  <2>1. /\ pc = "drop" /\ fts' = [fts EXCEPT ![victim] = {}] /\ UNCHANGED <<meta, chunks, jobs>>
        /\ \/ Finish
           \/ then \in {"parse", "moved"} /\ pc' = then
    BY <1>1, <1>8 DEF Drop, At, Goto, OnlyInv, HandOnly, UniqueInv, TypeInv, TypeOK, LocalsOK
  <2>2. ~Working' /\ pc' # "drop"
    BY <1>2, <2>1 DEF Working
  <2>3. \A d \in DocId : d = victim \/ Same(d)
    BY <1>1, <2>1 DEF Same
  <2>4. CASE ~Working
    <3>1. victim \in DocId => meta[victim].path = Nil
      BY <1>1, <2>1, <2>4 DEF RowInv
    <3>2. \A d \in DocId : meta'[d].path = Nil \/ Same(d)
      BY <2>1, <2>3, <3>1
    <3> QED BY <1>1, <2>2, <2>4, <3>2, RowIdle
  <2>5. CASE Working
    <3>1. \A d \in DocId : d = id \/ meta'[d].path = Nil \/ Same(d)
      BY <1>1, <2>1, <2>3 DEF RowInv
    <3>2. Seen' = Seen /\ \A d \in Fitting' : d = id \/ d \in Whole'
      BY <1>1, <3>1, RestWhole
    <3>3. id \in Fitting' => id \in Whole'
      <4>1. id \in Fitting' => id \in Fitting
        BY <1>1, <2>1, <3>2 DEF Fitting
      <4>2. id \in Fitting => meta[id].ok = FALSE /\ chunks[id] = {}
        BY <1>1, <1>5, <2>1, <2>5 DEF RowInv, Row
      <4> QED BY <1>5, <2>1, <2>5, <4>1, <4>2 DEF Whole, WholeAt
    <3> QED BY <2>2, <3>2, <3>3 DEF RowInv
  <2> QED BY <2>4, <2>5
<1>9. CASE Stat
  <2>1. UNCHANGED stores /\ pc = "stat" /\ (Finish \/ pc' \in {"tooLarge", "hash", "hashEmpty"})
    BY <1>9 DEF Stat, At, Goto
  <2>2. ~Working /\ ~Working' /\ pc' # "drop"
    BY <1>2, <2>1 DEF Working
  <2> QED BY <1>1, <1>3, <2>1, <2>2, RowIdle
<1>10. CASE Hash("hash", "parse")
  <2>1. ~Working
    BY <1>10 DEF Hash, At, Working
  <2>2. CASE Finish /\ UNCHANGED stores
    BY <1>1, <1>2, <1>3, <2>1, <2>2, RowIdle
  <2>3. CASE pc' = "parse" /\ UNCHANGED stores
    <3>1. ~Working' /\ pc' # "drop"
      BY <2>3 DEF Working
    <3> QED BY <1>1, <1>3, <2>1, <2>3, <3>1, RowIdle
  <2>4. CASE DeleteRow(old) /\ pc' = "drop" /\ victim' = old /\ then' = "parse" /\ UNCHANGED <<fts, jobs>>
    <3>1. ~Working'
      BY <2>4 DEF Working
    <3>2. victim' \in DocId => meta'[victim'].path = Nil
      BY <1>1, <2>4 DEF DeleteRow, NoRow
    <3> QED BY <1>1, <1>4, <2>1, <2>4, <3>1, <3>2, RowIdle
  <2> QED BY <1>10, <2>2, <2>3, <2>4 DEF Hash, Goto, DropThen
<1>11. ASSUME NEW s, NEW ok \in BOOLEAN, Upsert(id, ev.path, s, ok), id \in DocId, ~Working, Working',
              UNCHANGED <<ev, id, chunks, fts, jobs>>, pc' \in {"clear", "chunk"},
              ok <=> pc' = "chunk",
              ev.path \in Seen /\ ok => got' = Pieces(fs[ev.path].text)
       PROVE  RowInv'
  <2>1. \A d \in DocId : d = id \/ meta'[d].path = Nil \/ Same(d)
    BY <1>1, <1>11 DEF Upsert, Same
  <2>2. meta'[id].path = ev.path /\ meta'[id].ok = ok
    BY <1>1, <1>11 DEF Upsert
  <2>3. Seen' = Seen /\ \A d \in Fitting' : d = id \/ d \in Whole'
    BY <1>1, <1>11, <2>1, RestWhole
  <2>4. id \in Fitting' => ev.path \in Seen
    BY <2>2, <2>3 DEF Fitting
  <2> QED BY <1>1, <1>11, <2>2, <2>3, <2>4 DEF RowInv
<1>12. CASE TooLarge
  <2>1. pc = "tooLarge" /\ id \in DocId
    BY <1>1, <1>12 DEF TooLarge, At, Named
  <2>2. /\ Upsert(id, ev.path, seen, FALSE) /\ pc' = "clear" /\ UNCHANGED <<ev, id, chunks, fts, jobs>>
    BY <1>6, <1>12, <2>1 DEF TooLarge, Goto, locals
  <2>3. ~Working /\ Working'
    BY <2>1, <2>2 DEF Working
  <2> QED BY <1>11, <2>1, <2>2, <2>3
<1>13. ASSUME NEW o \in {"ok", "stub", "failed"}, Parse(o) PROVE RowInv'
  <2>1. pc = "parse" /\ id \in DocId
    BY <1>1, <1>13 DEF Parse, At, Named
  <2>2. /\ Upsert(id, ev.path, ev.stamp, o # "failed") /\ UNCHANGED <<ev, id, chunks, fts, jobs>>
        /\ pc' = IF o = "failed" THEN "clear" ELSE "chunk"
        /\ got' = IF o = "ok" THEN Pieces(fs[ev.path].text) ELSE {}
        /\ o \in Parsed(ev.path)
    BY <1>6, <1>13, <2>1 DEF Parse, Goto
  <2>3. ~Working /\ Working'
    BY <2>1, <2>2 DEF Working
  <2>4. ev.path \in Seen => o \in {"ok", "failed"}
    <3>1. ev.path \in Seen => Exists(ev.path)
      BY Universe DEF Seen, Visible, Exists
    <3> QED BY <2>2, <3>1 DEF Parsed, Restrained
  <2> QED BY <1>11, <2>1, <2>2, <2>3, <2>4
<1>14. ASSUME Working, Working', UNCHANGED <<ev, id, meta>>,
              \A d \in DocId : d = id \/ Same(d)
       PROVE  /\ id \in Fitting' => id \in Fitting
              /\ (id \in Fitting' =>
                   /\ meta'[id].ok <=> pc' \in {"chunk", "fts", "enqueue"}
                   /\ pc' \in {"chunk", "fts"} => got' = Pieces(fs[ev.path].text)
                   /\ pc' \in {"fts", "enqueue"} => chunks'[id] = Pieces(fs[ev.path].text)
                   /\ pc' = "enqueue" => chunks'[id] \subseteq fts'[id]
                   /\ pc' = "drop" => chunks'[id] = {})
                 /\ (pc' = "drop" => victim' = id) => RowInv'
  <2>1. Seen' = Seen /\ \A d \in Fitting' : d = id \/ d \in Whole'
    BY <1>1, <1>14, RestWhole
  <2>2. id \in Fitting' => id \in Fitting
    BY <1>1, <1>14, <2>1 DEF Fitting
  <2> QED BY <1>1, <1>5, <1>14, <2>1, <2>2 DEF RowInv
<1>15. CASE Clear
  <2>1. /\ pc = "clear" /\ pc' = "drop" /\ victim' = id /\ then' = "idle"
        /\ chunks' = [chunks EXCEPT ![id] = {}] /\ UNCHANGED <<ev, id, meta, fts, jobs>>
    BY <1>15 DEF Clear, At, DropThen
  <2>2. Working /\ Working'
    BY <2>1 DEF Working, Deleting
  <2>3. \A d \in DocId : d = id \/ Same(d)
    BY <1>1, <2>1 DEF Same
  <2>4. chunks'[id] = {}
    BY <1>1, <1>5, <2>1, <2>2
  <2> QED BY <1>1, <1>14, <2>1, <2>2, <2>3, <2>4 DEF RowInv
<1>16. CASE ReplaceChunks
  <2>1. pc = "chunk" /\ Working
    BY <1>16 DEF ReplaceChunks, At, Working
  <2>2. /\ pc' = "fts" /\ chunks' = [chunks EXCEPT ![id] = got]
        /\ UNCHANGED <<ev, id, got, meta, fts, jobs>>
    BY <1>5, <1>16, <2>1 DEF ReplaceChunks, Goto, locals
  <2>3. Working'
    BY <2>2 DEF Working
  <2>4. \A d \in DocId : d = id \/ Same(d)
    BY <1>1, <2>2 DEF Same
  <2>5. chunks'[id] = got
    BY <1>1, <1>5, <2>1, <2>2
  <2> QED BY <1>1, <1>14, <2>1, <2>2, <2>3, <2>4, <2>5 DEF RowInv
<1>17. CASE FtsUpsert
  <2>1. /\ pc = "fts" /\ pc' = "enqueue" /\ UNCHANGED <<ev, id, got, meta, chunks, jobs>>
        /\ fts' = [fts EXCEPT ![id] = {r \in @ : \A g \in got : g.ord # r.ord} \cup got]
    BY <1>17 DEF FtsUpsert, At, Goto, locals
  <2>2. Working /\ Working'
    BY <2>1 DEF Working
  <2>3. \A d \in DocId : d = id \/ Same(d)
    BY <1>1, <2>1 DEF Same
  <2>4. got \subseteq fts'[id]
    BY <1>1, <1>5, <2>1, <2>2
  <2> QED BY <1>1, <1>14, <2>1, <2>2, <2>3, <2>4 DEF RowInv
<1>18. CASE EnqueueJobs
  <2>1. pc = "enqueue" /\ Finish /\ jobs' = jobs \cup {id} /\ UNCHANGED <<meta, chunks, fts>>
    BY <1>18 DEF EnqueueJobs, At
  <2>2. Working
    BY <2>1 DEF Working
  <2>3. \A d \in DocId : Same(d)
    BY <2>1 DEF Same
  <2>4. Seen' = Seen /\ \A d \in Fitting' : d = id \/ d \in Whole'
    BY <1>1, <2>3, RestWhole
  <2>5. id \in Fitting' => id \in Whole'
    <3>1. id \in Fitting' => id \in Fitting
      BY <1>1, <2>1, <2>4 DEF Fitting
    <3> QED BY <1>1, <1>5, <2>1, <2>2, <3>1 DEF Whole, WholeAt, RowInv
  <2> QED BY <1>2, <2>1, <2>4, <2>5 DEF RowInv
<1>19. CASE Rename
  <2>1. PICK d \in DocId :
          /\ ev.path \in Seen /\ fs[ev.path].stamp = meta[d].stamp => WholeAt(d, ev.path)
          /\ meta'[d].path = ev.path /\ meta'[d].stamp = meta[d].stamp /\ meta'[d].ok = meta[d].ok
          /\ chunks'[d] = chunks[d] /\ UNCHANGED <<fts, jobs>>
          /\ \A x \in DocId : x # d => \/ meta'[x] = meta[x] /\ chunks'[x] = chunks[x]
                                       \/ meta'[x] = NoRow
          /\ \/ pc' = "moved"
             \/ pc' = "drop" /\ then' = "moved" /\ victim' \in DocId /\ meta'[victim'] = NoRow
    BY <1>19, RenamedRow
  <2>2. ~Working /\ ~Working'
    BY <1>19, <2>1 DEF Rename, At, Working
  <2>3. NoRow.path = Nil
    BY DEF NoRow
  <2>4. \A x \in DocId : x = d \/ meta'[x].path = Nil \/ Same(x)
    BY <2>1, <2>3 DEF Same
  <2>5. Seen' = Seen /\ \A x \in Fitting' : x = d \/ x \in Whole'
    BY <1>1, <2>2, <2>4, RestWhole
  <2>6. d \in Fitting' => d \in Whole'
    <3>1. d \in Fitting' => ev.path \in Seen /\ fs[ev.path].stamp = meta[d].stamp
      BY <1>1, <2>1, <2>5 DEF Fitting
    <3> QED BY <1>1, <2>1, <3>1 DEF Whole, WholeAt
  <2>7. pc' = "drop" => meta'[victim'].path = Nil
    BY <2>1, <2>3
  <2> QED BY <2>2, <2>5, <2>6, <2>7 DEF RowInv
<1>20. CASE Moved
  <2>1. UNCHANGED stores /\ pc = "moved" /\ (Finish \/ pc' = "stat")
    BY <1>20 DEF Moved, At, Goto
  <2>2. ~Working /\ ~Working' /\ pc' # "drop"
    BY <1>2, <2>1 DEF Working
  <2> QED BY <1>1, <1>3, <2>1, <2>2, RowIdle
<1> QED BY <1>1, <1>7, <1>8, <1>9, <1>10, <1>12, <1>13, <1>15, <1>16, <1>17, <1>18, <1>19, <1>20, FewSteps

LEMMA NameWorker ==
  ASSUME Restrained, UniqueInv, MoveInv, FilesInv, Worker, ~Take, ~Debounce
  PROVE  NameInv'
<1>1. /\ UNCHANGED fs /\ pc # "idle" /\ ev.path \in Path /\ (Finish \/ ev' = ev)
      /\ meta \in [DocId -> Row] /\ (Named => id \in DocId) /\ OnlyInv /\ NameInv
  BY WorkerGoesOn DEF FilesInv, UniqueInv, TypeInv, TypeOK, StoresOK, Handling, Event
<1>2. Seen' = Seen /\ Nil \notin Seen
  BY <1>1, Universe DEF Seen, Visible
<1> DEFINE Knows == pc = "parse" \/ (pc = "drop" /\ then = "parse")
           Read  == ev.path \in Seen /\ ev.stamp = fs[ev.path].stamp => id = Sha(fs[ev.path].text)
<1>3. Knows => Read
  BY <1>1 DEF NameInv
<1>4. \A o : Parse(o) => Knows
  BY DEF Parse, At
<1> HIDE DEF Knows, Read
<1>5. ASSUME Large = {}, NEW d \in Fitting' PROVE d.text = fs'[meta'[d].path].text
  <2>1. d \in DocId /\ meta'[d].path \in Seen /\ meta'[d].stamp = fs[meta'[d].path].stamp
    BY <1>1, <1>2 DEF Fitting
  <2>2. meta'[d].path # Nil
    BY <1>2, <2>1
  <2>3. CASE meta'[d] \in {meta[d], NoRow}
    <3>1. meta'[d] = meta[d] /\ d \in Fitting
      BY <2>1, <2>2, <2>3 DEF NoRow, Fitting
    <3> QED BY <1>1, <1>5, <3>1 DEF NameInv
  <2>4. CASE Rename /\ meta[d].path = ev.prev /\ meta'[d].path = ev.path /\ meta'[d].stamp = meta[d].stamp
    <3>1. d = Sha(fs[ev.path].text)
      BY <2>1, <2>4, RenamedRow
    <3> QED BY <1>1, <2>4, <3>1 DEF Sha
  <2>5. CASE ~(meta'[d] \in {meta[d], NoRow}) /\ ~Rename
    <3>1. d = id /\ Named /\ meta'[d].path = ev.path /\ meta'[d] # meta[d] /\ meta'[d] # NoRow
      BY <2>1, <2>5, RowWrites
    <3>2. \E o \in {"ok", "stub", "failed"} : Parse(o)
      <4>1. ~TooLarge
        BY <1>1, <1>5 DEF TooLarge, At, OnlyInv, HandOnly
      <4>2. ASSUME Purge \/ Hash("hash", "parse") PROVE meta'[d] \in {meta[d], NoRow}
        <5>1. meta' = meta \/ \E e : DeleteRow(e)
          BY <4>2 DEF Purge, Hash, stores
        <5> QED BY <1>1, <2>1, <5>1 DEF DeleteRow
      <4>3. ASSUME Drop \/ Moved \/ Stat \/ Clear \/ ReplaceChunks \/ FtsUpsert \/ EnqueueJobs
            PROVE  meta' = meta
        BY <4>3 DEF Drop, Moved, Stat, Clear, ReplaceChunks, FtsUpsert, EnqueueJobs, stores
      <4> QED BY <1>1, <2>5, <3>1, <4>1, <4>2, <4>3, FewSteps
    <3>3. meta'[d].stamp = ev.stamp
      <4>1. meta' = meta \/ \E ok : Upsert(id, ev.path, ev.stamp, ok)
        BY <3>2 DEF Parse
      <4> QED BY <1>1, <2>1, <3>1, <4>1 DEF Upsert
    <3>4. id = Sha(fs[ev.path].text)
      BY <1>3, <1>4, <2>1, <3>1, <3>2, <3>3 DEF Read
    <3> QED BY <1>1, <3>1, <3>4 DEF Sha
  <2>6. Rename => ~Named
    BY DEF Rename, At, Named
  <2> QED BY <2>1, <2>3, <2>4, <2>5, <2>6, RowWrites
<1>6. ASSUME pc' = "parse" \/ (pc' = "drop" /\ then' = "parse"), ev'.path \in Seen', ev'.stamp = fs'[ev'.path].stamp
      PROVE  id' = Sha(fs'[ev'.path].text)
  <2>1. ~Finish /\ ev' = ev
    BY <1>1, <1>6 DEF Finish
  <2>2. CASE Hash("hash", "parse")
    <3>1. Exists(ev.path) /\ id' = DocIdFor(ev.path, fs[ev.path].text, old)
      BY <2>1, <2>2 DEF Hash
    <3>2. old \in DocId \cup {NoId} /\ old.kind # "dup" /\ TypeInv
      BY <1>1 DEF UniqueInv, TypeInv, TypeOK, LocalsOK, OnlyInv, HandOnly
    <3>3. From = {}
      <4>1. ~Rename
        BY <2>2 DEF Hash, Rename, At
      <4> QED BY <3>2, <4>1, NoneRenaming
    <3> QED BY <1>1, <2>1, <3>1, <3>2, <3>3, NamedByContent
  <2>3. CASE Drop
    <3>1. Knows /\ id' = id
      BY <1>1, <1>6, <2>1, <2>3 DEF Drop, At, Goto, Knows
    <3> QED BY <1>1, <1>2, <1>3, <1>6, <2>1, <3>1 DEF Read
  <2>4. ASSUME Purge \/ Rename \/ Moved \/ Stat \/ TooLarge PROVE FALSE
    <3>1. ASSUME Rename PROVE FALSE
      <4>1. pc' \in {"moved", "drop"} /\ (pc' = "drop" => then' = "moved")
        BY <3>1, RenamedRow
      <4> QED BY <1>6, <4>1
    <3> QED BY <1>6, <2>1, <2>4, <3>1 DEF Purge, Moved, Stat, TooLarge, Goto, DropThen
  <2>5. ASSUME (\E o \in {"ok", "stub", "failed"} : Parse(o)) \/ Clear \/ ReplaceChunks \/ FtsUpsert \/ EnqueueJobs
        PROVE  FALSE
    BY <1>6, <2>1, <2>5 DEF Parse, Clear, ReplaceChunks, FtsUpsert, EnqueueJobs, Goto, DropThen
  <2> QED BY <1>1, <2>2, <2>3, <2>4, <2>5, FewSteps
<1> QED BY <1>5, <1>6 DEF NameInv

LEMMA PlaceWorker ==
  ASSUME Restrained, UniqueInv, NewsInv, Deleting, MoveInv, FilesInv, Worker, ~Take, ~Debounce
  PROVE  PlaceInv'
<1>1. /\ UNCHANGED fs /\ pc # "idle" /\ ev.path \in Path /\ ev.path # Nil
      /\ Finish \/ (ev' = ev /\ pc' # "idle")
      /\ meta \in [DocId -> Row] /\ (Named => id \in DocId) /\ OnlyInv /\ PlaceInv /\ RowInv
  BY WorkerGoesOn, Universe DEF UniqueInv, TypeInv, TypeOK, StoresOK, Handling, Event, FilesInv
<1>2. UNCHANGED <<Seen, Later, missed>> /\ InHand = {ev.path}
  BY <1>1, NewsWorker, WorkerGoesOn DEF Seen, Visible, InHand, marks
<1>3. ev.path \in Seen \ Later => ev.change # "deleted" /\ ev.stamp = fs[ev.path].stamp
  BY <1>1 DEF NewsInv, HandNews, Current
<1>4. pc \in {"tooLarge", "parse"} => ~Clash(id, ev.path)
  BY DEF UniqueInv, NoUniqueClash, Writing
<1>5. Working => id \in DocId /\ meta[id].path = ev.path
  BY <1>1 DEF RowInv
<1>6. meta' = meta => Indexed' = Indexed
  BY <1>1 DEF Indexed
<1> DEFINE Others == \A d \in DocId : \/ meta[d].path \in Later \cup {Nil, ev.path}
                                      \/ meta'[d] = meta[d]
                                      \/ meta[d].path \notin Seen
           Done   == Finish => ev.path \in Indexed'
           News   == ~Finish => /\ pc' = "tooLarge" => seen' = fs[ev.path].stamp
                                /\ Working' => meta'[id'].stamp = fs[ev.path].stamp
<1>7. SUFFICES Others /\ (ev.path \in Seen \ Later => Done /\ News)
  <2>1. \A p \in Seen : p \in Later \/ p = ev.path \/ p \in Indexed' \/ p \in missed
    <3> SUFFICES ASSUME NEW p \in Seen, p \notin Later, p # ev.path, p \notin missed PROVE p \in Indexed'
      OBVIOUS
    <3>1. p \in Indexed /\ p \in Path /\ p # Nil
      BY <1>1, <1>2, Universe DEF PlaceInv, Seen
    <3> QED BY <1>1, <1>7, <3>1 DEF Indexed
  <2>2. ev.path \in Seen \ Later => ev.path \in InHand' \cup Indexed'
    BY <1>1, <1>7 DEF InHand
  <2>3. ASSUME pc' # "idle", ev'.path \in Seen' \ Later'
        PROVE  /\ pc' = "tooLarge" => seen' = fs'[ev'.path].stamp
               /\ Working' => meta'[id'].stamp = fs'[ev'.path].stamp
    <3>1. ~Finish /\ ev' = ev
      BY <1>1, <2>3 DEF Finish
    <3> QED BY <1>1, <1>2, <1>7, <2>3, <3>1
  <2>4. Seen' \subseteq Later' \cup InHand' \cup Indexed' \cup missed'
    BY <1>2, <2>1, <2>2
  <2> QED BY <2>3, <2>4 DEF PlaceInv
<1>8. meta' = meta => Others
  OBVIOUS
<1>9. \A d : meta[d].path \in {Nil, ev.path} /\ (DeleteRow(d) \/ \E s, ok : Upsert(d, ev.path, s, ok)) => Others
  BY <1>1 DEF DeleteRow, Upsert
<1>10. \A d : d \in DocId /\ Own(d) => meta[d].path \in {Nil, ev.path}
  BY DEF Own
<1> HIDE DEF Others, Done, News
<1>11. Working /\ meta' = meta => (ev.path \in Seen \ Later => Done)
  <2> SUFFICES ASSUME Working, meta' = meta, ev.path \in Seen \ Later PROVE ev.path \in Indexed
    BY <1>6 DEF Done
  <2> QED BY <1>1, <1>5 DEF PlaceInv, Indexed
<1>12. /\ Working /\ meta' = meta /\ pc' # "tooLarge" /\ id' = id => (ev.path \in Seen \ Later => News)
       /\ pc' # "tooLarge" /\ ~Working' => News
  BY <1>1 DEF PlaceInv, News
<1>13. CASE Purge
  <2>1. ev.change = "deleted"
    BY <1>13 DEF Purge, At, Deleting
  <2>2. DocAt(ev.path) \in DocId \cup {NoId} /\ (DocAt(ev.path) # NoId => meta[DocAt(ev.path)].path = ev.path)
    BY DocAtIs
  <2>3. Others
    BY <1>8, <1>9, <1>13, <2>2 DEF Purge, stores
  <2> QED BY <1>3, <2>1, <2>3
<1>14. CASE Drop
  <2>1. pc = "drop" /\ meta' = meta /\ (Finish \/ (then \in {"parse", "moved"} /\ pc' = then))
    BY <1>1, <1>14 DEF Drop, At, Goto, OnlyInv, HandOnly, UniqueInv, TypeInv, TypeOK, LocalsOK
  <2>2. Finish => then = "idle"
    BY <1>1, <1>14 DEF Drop, Goto, Finish, OnlyInv, HandOnly, UniqueInv, TypeInv, TypeOK, LocalsOK
  <2>3. CASE Finish
    <3>1. News
      BY <2>3 DEF News
    <3>2. ev.path \in Seen \ Later => Working
      BY <1>3, <2>1, <2>2, <2>3 DEF Working
    <3> QED BY <1>8, <1>11, <2>1, <3>1, <3>2
  <2>4. CASE ~Finish
    <3>1. Done
      BY <2>4 DEF Done
    <3>2. pc' # "tooLarge" /\ ~Working'
      BY <2>1, <2>4 DEF Working
    <3> QED BY <1>8, <1>12, <2>1, <3>1, <3>2
  <2> QED BY <2>3, <2>4
<1>15. CASE Stat
  <2> DEFINE d == DocAt(ev.path)
  <2>1. meta' = meta
    BY <1>15 DEF Stat, stores
  <2>2. CASE Finish
    <3>1. ev.path \in Seen \ Later => Exists(ev.path)
      BY Universe DEF Seen, Visible, Exists
    <3>2. ~Exists(ev.path) \/ (d # NoId /\ meta[d].stamp = fs[ev.path].stamp)
      BY <1>15, <2>2 DEF Stat, Goto, Finish
    <3>3. d \in DocId \cup {NoId} /\ (d # NoId => meta[d].path = ev.path)
      BY DocAtIs
    <3> HIDE DEF d
    <3>4. ev.path \in Seen \ Later => ev.path \in Indexed
      BY <1>1, <3>1, <3>2, <3>3 DEF Indexed
    <3>5. News
      BY <2>2 DEF News
    <3> QED BY <1>6, <1>8, <2>1, <3>4, <3>5 DEF Done
  <2>3. CASE ~Finish
    <3>1. pc' \in {"tooLarge", "hash", "hashEmpty"} /\ seen' = fs[ev.path].stamp
      BY <1>15, <2>3 DEF Stat, Goto
    <3>2. ~Working'
      BY <3>1 DEF Working
    <3> QED BY <1>8, <2>1, <2>3, <3>1, <3>2 DEF Done, News
  <2> QED BY <2>2, <2>3
<1>16. CASE Hash("hash", "parse")
  <2>1. pc = "hash" /\ Own(old) /\ old \in DocId \cup {NoId}
    BY <1>1, <1>16 DEF Hash, At, OnlyInv, HandOnly, UniqueInv, TypeInv, TypeOK, LocalsOK
  <2>2. Others
    <3>1. meta' = meta \/ (old # NoId /\ DeleteRow(old))
      BY <1>16 DEF Hash, stores
    <3> QED BY <1>8, <1>9, <1>10, <2>1, <3>1
  <2>3. Finish => ev.path \notin Seen
    <3>1. Finish => ~Exists(ev.path)
      BY <1>16 DEF Hash, Goto, DropThen, Finish
    <3> QED BY <3>1, Universe DEF Seen, Visible, Exists
  <2>4. ~Finish => pc' # "tooLarge" /\ ~Working'
    BY <1>16 DEF Hash, Goto, DropThen, Working
  <2> QED BY <2>2, <2>3, <2>4 DEF Done, News
<1>17. ASSUME NEW s, NEW ok, Upsert(id, ev.path, s, ok), id \in DocId, Own(id), id' = id,
              pc' \in {"clear", "chunk"}, ev.path \in Seen \ Later => s = fs[ev.path].stamp
       PROVE  Others /\ (ev.path \in Seen \ Later => Done /\ News)
  <2>1. Others
    BY <1>9, <1>10, <1>17
  <2>2. ~Finish
    BY <1>17 DEF Finish
  <2>3. meta'[id].stamp = s
    BY <1>1, <1>17 DEF Upsert
  <2> QED BY <1>17, <2>1, <2>2, <2>3 DEF Done, News
<1>18. CASE TooLarge
  <2>1. pc = "tooLarge" /\ id \in DocId /\ Own(id)
    BY <1>1, <1>18 DEF TooLarge, At, Named, OnlyInv, HandOnly, Writing
  <2>2. Upsert(id, ev.path, seen, FALSE) /\ pc' = "clear" /\ id' = id
    BY <1>4, <1>18, <2>1 DEF TooLarge, Goto, locals
  <2>3. ev.path \in Seen \ Later => seen = fs[ev.path].stamp
    BY <1>1, <2>1 DEF PlaceInv
  <2> QED BY <1>17, <2>1, <2>2, <2>3
<1>19. ASSUME NEW o \in {"ok", "stub", "failed"}, Parse(o)
       PROVE  Others /\ (ev.path \in Seen \ Later => Done /\ News)
  <2>1. pc = "parse" /\ id \in DocId /\ Own(id)
    BY <1>1, <1>19 DEF Parse, At, Named, OnlyInv, HandOnly, Writing
  <2>2. Upsert(id, ev.path, ev.stamp, o # "failed") /\ pc' \in {"clear", "chunk"} /\ id' = id
    BY <1>4, <1>19, <2>1 DEF Parse, Goto
  <2> QED BY <1>3, <1>17, <2>1, <2>2
<1>20. CASE Clear \/ ReplaceChunks \/ FtsUpsert \/ EnqueueJobs
  <2>1. meta' = meta /\ Working
    BY <1>20 DEF Clear, ReplaceChunks, FtsUpsert, EnqueueJobs, At, Working
  <2>2. Finish \/ (pc' # "tooLarge" /\ id' = id)
    BY <1>20 DEF Clear, ReplaceChunks, FtsUpsert, EnqueueJobs, Goto, DropThen, locals
  <2> QED BY <1>8, <1>11, <1>12, <2>1, <2>2 DEF News
<1>21. CASE Rename
  <2>1. PICK e \in DocId :
          /\ ev.prev \in Existing => ev.prev \in Later
          /\ meta[e].path = ev.prev
          /\ \A x \in DocId : x # e => meta'[x] = meta[x] \/ meta[x].path = ev.path
          /\ pc' \in {"moved", "drop"} /\ (pc' = "drop" => then' = "moved")
    BY <1>21, RenamedRow
  <2>2. Seen \subseteq Existing
    BY Universe DEF Seen, Visible, Existing, Exists
  <2>3. Others
    BY <2>1, <2>2 DEF Others
  <2>4. ~Finish /\ pc' # "tooLarge" /\ ~Working'
    BY <2>1 DEF Finish, Working
  <2> QED BY <2>3, <2>4 DEF Done, News
<1>22. CASE Moved
  <2> DEFINE d == DocAt(ev.path)
  <2>1. meta' = meta
    BY <1>22 DEF Moved, stores
  <2>2. CASE Finish
    <3>1. d # NoId /\ meta[d].stamp = ev.stamp
      BY <1>22, <2>2 DEF Moved, Goto, Finish
    <3>2. d \in DocId /\ meta[d].path = ev.path
      BY <3>1, DocAtIs
    <3> HIDE DEF d
    <3>3. ev.path \in Seen \ Later => ev.path \in Indexed
      BY <1>1, <1>3, <3>1, <3>2 DEF Indexed
    <3>4. News
      BY <2>2 DEF News
    <3> QED BY <1>6, <1>8, <2>1, <3>3, <3>4 DEF Done
  <2>3. CASE ~Finish
    <3>1. pc' = "stat"
      BY <1>22, <2>3 DEF Moved, Goto
    <3>2. ~Working'
      BY <3>1 DEF Working
    <3> QED BY <1>8, <2>1, <2>3, <3>1, <3>2 DEF Done, News
  <2> QED BY <2>2, <2>3
<1> QED BY <1>1, <1>13, <1>14, <1>15, <1>16, <1>18, <1>19, <1>20, <1>21, <1>22, FewSteps

LEMMA ServedStep ==
  ASSUME Restrained, UniqueInv, GhostInv, ServedInv, [Next]_vars
  PROVE  ServedInv'
<1> SUFFICES ASSUME Undisturbed', ~outrun' PROVE NewsInv' /\ MoveInv' /\ FilesInv'
  BY DEF ServedInv
<1>1. TypeInv
  BY DEF UniqueInv
<1>2. /\ up /\ forgetting = NoId /\ Deleting /\ Undisturbed
      /\ User \/ Notice \/ (\E p \in Path : Scan(p)) \/ Worker \/ UNCHANGED vars
  BY <1>1, StaysDisturbed DEF GhostInv
<1>3. ~outrun
  <2>1. CASE User
    BY <2>1 DEF User, Write, Remove, Move
  <2>2. CASE Notice \/ (\E p \in Path : Scan(p)) \/ UNCHANGED vars
    BY <2>2 DEF Notice, Scan, marks, vars
  <2>3. CASE Worker
    BY <2>3, WorkerFrame
  <2> QED BY <1>2, <2>1, <2>2, <2>3
<1>4. NewsInv /\ MoveInv /\ FilesInv
  BY <1>2, <1>3 DEF ServedInv
<1>5. CASE User
  <2>1. ASSUME NEW p \in Path, NEW r \in Raw, Changed(p, r) PROVE NewsInv' /\ MoveInv' /\ FilesInv'
    BY <1>1, <1>4, <2>1, NewsUser, MovesUser, ServedChanged
  <2>2. ASSUME NEW p \in Path, NEW q \in Path, NEW r \in Raw, Shifted(p, q, r)
        PROVE  NewsInv' /\ MoveInv' /\ FilesInv'
    BY <1>1, <1>4, <2>2, NewsShift, MovesShift, ServedShifted
  <2> QED BY <1>1, <1>2, <1>5, <2>1, <2>2, UserIs
<1>6. CASE Notice
  BY <1>1, <1>4, <1>6, NewsNotice, MovesNotice, ServedNotice
<1>7. CASE \E p \in Path : Scan(p)
  BY <1>1, <1>4, <1>7, NewsScan, MovesScan, ServedScan
<1>8. CASE Take
  BY <1>1, <1>4, <1>8, NewsTake, MovesTake, ServedTake
<1>9. CASE Debounce
  BY <1>1, <1>4, <1>9, NewsTake, MovesDebounce, ServedDebounce
<1>10. CASE Worker /\ ~Take /\ ~Debounce
  <2>1. NewsInv' /\ MoveInv' /\ Renaming' = {}
    BY <1>1, <1>4, <1>10, NewsWorker, MovesWorker
  <2>2. Carried'
    BY <2>1 DEF Carried
  <2>3. StampInv' /\ OriginInv' /\ OnlyInv'
    BY <1>4, <1>10, StampWorker, OriginWorker, RowsWorker, HandWorker DEF OnlyInv
  <2>4. RowInv' /\ NameInv' /\ PlaceInv'
    BY <1>2, <1>4, <1>10, RowWorker, NameWorker, PlaceWorker
  <2> QED BY <2>1, <2>2, <2>3, <2>4 DEF FilesInv
<1>11. CASE UNCHANGED vars
  <2>1. UNCHANGED <<fs, held, pc, locals, stores, ops, ev, seen, meta, raw, queue, toScan, missed>>
    BY <1>11 DEF vars, locals, stores, events, marks
  <2>2. UNCHANGED <<Coming, Queued, Later, Existing, Seen, Current, RawMoves, QueueMoves>>
    BY <2>1 DEF Later, Coming, Queued, Existing, Exists, Seen, Visible, Current, RawMoves, QueueMoves
  <2>3. UNCHANGED Renaming
    BY <2>1, <2>2 DEF Renaming, Noticing, Waiting, Handled
  <2>4. NewsInv'
    BY <1>4, <2>1, <2>2 DEF NewsInv, RawNews, QueueNews, HandNews, Latest
  <2>5. MoveInv'
    BY <1>4, <2>1, <2>2, <2>3 DEF MoveInv
  <2>6. StampInv'
    BY <1>4, <2>1, <2>2 DEF FilesInv, StampInv
  <2>7. \A x \in Existing : \A i \in DOMAIN queue' : queue'[i].stamp = fs[x].stamp => queue'[i].path = x
    BY <1>4, <2>1 DEF FilesInv, OriginInv
  <2>8. \A p \in Later : p \in Later' \/ p \notin Seen
    BY <2>2
  <2>9. OnlyInv' /\ RowInv' /\ Carried' /\ NameInv' /\ OriginInv' /\ PlaceInv'
    BY <1>4, <2>1, <2>3, <2>7, <2>8, ServedFrame
  <2> QED BY <2>4, <2>5, <2>6, <2>9 DEF FilesInv
<1> QED BY <1>2, <1>5, <1>6, <1>7, <1>8, <1>9, <1>10, <1>11

(* Where files are written and removed at any moment, even while           *)
(* index_file reads them, and renamed when the index is quiet, a quiet     *)
(* index has every file as it is: its chunks, in both stores, and its      *)
(* jobs; but not a file whose last event was debounced, nor anything after *)
(* such a file was renamed.  The hypotheses say that no content is at two  *)
(* paths, that no file is empty, that every parser works or fails, and     *)
(* that with renames no file is too large for the watcher or for           *)
(* index_file; what follows without them is different (the findings, and   *)
(* the observations in the README).                                        *)
THEOREM FilesAreServed ==
  ASSUME Restrained
  PROVE  Spec => []CaughtUp
<1> DEFINE I == UniqueInv /\ GhostInv /\ ServedInv
<1>1. I => CaughtUp
  <2> SUFFICES ASSUME I, Quiet, Undisturbed, ~outrun, NEW p \in Path, Visible(p), p \notin missed
               PROVE  Served(p)
    BY DEF CaughtUp
  <2>1. Later = {} /\ InHand = {} /\ ~Working
    BY DEF Quiet, Later, Coming, Queued, InHand, Working
  <2>2. p \in Seen /\ RowInv /\ PlaceInv
    BY DEF Seen, ServedInv, FilesInv
  <2>3. PICK d \in DocId : meta[d].path = p /\ meta[d].stamp = fs[p].stamp
    BY <2>1, <2>2 DEF PlaceInv, Indexed
  <2>4. d \in Whole
    BY <2>1, <2>2, <2>3 DEF RowInv, Fitting
  <2> QED BY <2>3, <2>4 DEF Whole, WholeAt, Served
<1>2. Init => I
  BY UniqueInit, GhostInit, ServedInit
<1>3. I /\ [Next]_vars => I'
  <2> SUFFICES ASSUME I, [Next]_vars PROVE I'
    OBVIOUS
  <2>1. TypeInv /\ OneOwner
    BY DEF UniqueInv
  <2> QED BY <2>1, UniqueStep, GhostStep, ServedStep
<1> QED BY <1>1, <1>2, <1>3, PTL DEF Spec

-----------------------------------------------------------------------------
(* Nothing stale.  Whoever writes, copies or renames waits until the index *)
(* is quiet, so index_file sees one file from beginning to end.            *)

Patient == WriteWhen # "any" /\ MoveWhen # "any" /\ "stub" \notin Outcomes

(* All the chunks a document can have: those of the content in its name.   *)
All(d) == IF d.kind \in {"sha", "dup"} THEN Pieces(d.text) ELSE {}

(* A document has all of its chunks or none, in both stores the same, but  *)
(* while index_file carries them from one to the other.                    *)
WholeOrNone == \A d \in DocId : chunks[d] \in {{}, All(d)} /\ fts[d] \in {{}, All(d)}
SameInBoth  == \A d \in DocId : fts[d] = chunks[d] \/ (pc = "drop" /\ victim = d) \/ (pc = "fts" /\ id = d)

(* A content that was parsed is there to be copied.                        *)
Copyable == \A c \in Text : meta[Sha(c)].ok => chunks[Sha(c)] = Pieces(c) \/ (pc = "chunk" /\ id = Sha(c))

(* What index_file knows from step to step.                                *)
Steady ==
  /\ pc = "parse" \/ (pc = "drop" /\ then = "parse") =>
       Exists(ev.path) /\ id.kind \in {"sha", "dup"} /\ id.text = fs[ev.path].text
  /\ pc = "clone" => chunks[Sha(id.text)] = Pieces(id.text)
  /\ pc \in {"chunk", "fts"} => got = All(id)
  /\ pc = "fts" => chunks[id] = got
  /\ pc = "clear" => ~meta[id].ok
  /\ pc = "drop" => (victim \in DocId => chunks[victim] = {})

CleanInv == Undisturbed => up /\ forgetting = NoId /\ WholeOrNone /\ SameInBoth /\ Copyable /\ Steady

LEMMA CleanInit == Init => CleanInv
<1> SUFFICES ASSUME Init PROVE CleanInv
  OBVIOUS
<1>1. \A d \in DocId : meta[d] = NoRow /\ chunks[d] = {} /\ fts[d] = {}
  BY DEF Init
<1>2. WholeOrNone /\ SameInBoth
  BY <1>1 DEF WholeOrNone, SameInBoth
<1>3. Copyable
  BY <1>1, DocIds DEF Copyable, NoRow
<1>4. Steady
  BY DEF Init, Steady
<1> QED BY <1>2, <1>3, <1>4 DEF Init, CleanInv

(* Steps that leave the stores as they are.                                *)
LEMMA CleanFrame ==
  ASSUME WholeOrNone, SameInBoth, Copyable, Steady', UNCHANGED <<meta, chunks, fts>>,
         pc \notin {"drop", "fts", "chunk"} \/ (pc' = pc /\ id' = id /\ victim' = victim)
  PROVE  WholeOrNone' /\ SameInBoth' /\ Copyable'
<1>1. WholeOrNone'
  BY DEF WholeOrNone
<1>2. SameInBoth'
  BY DEF SameInBoth
<1>3. Copyable'
  BY DEF Copyable
<1> QED BY <1>1, <1>2, <1>3

(* A row and its chunks go, and its chunks in Tantivy are to follow.       *)
LEMMA CleanDelete ==
  ASSUME TypeInv, WholeOrNone, SameInBoth, Copyable, NEW d \in DocId,
         pc \notin {"drop", "fts", "chunk"}, pc' = "drop", victim' = d, fts' = fts,
         chunks' = [chunks EXCEPT ![d] = {}],
         \A e \in DocId : meta'[e].ok => meta[e].ok /\ e # d
  PROVE  WholeOrNone' /\ SameInBoth' /\ Copyable' /\ chunks'[victim'] = {}
<1>1. chunks'[d] = {} /\ \A e \in DocId : e # d => chunks'[e] = chunks[e]
  BY DEF TypeInv, TypeOK, StoresOK
<1>2. WholeOrNone' /\ SameInBoth'
  BY <1>1 DEF WholeOrNone, SameInBoth
<1>3. Copyable'
  BY <1>1, DocIds DEF Copyable
<1> QED BY <1>1, <1>2, <1>3

(* index_file writes its row.                                              *)
LEMMA CleanUpsert ==
  ASSUME TypeInv, WholeOrNone, SameInBoth, Copyable, UNCHANGED <<chunks, fts, id>>, id \in DocId,
         NEW p, NEW s, NEW ok \in BOOLEAN, Upsert(id, p, s, ok),
         ok => id.kind = "dup" \/ pc' = "chunk",
         pc \notin {"drop", "fts", "chunk"}, pc' \notin {"drop", "fts"}
  PROVE  WholeOrNone' /\ SameInBoth' /\ Copyable' /\ meta'[id].ok = ok
<1>1. meta'[id].ok = ok /\ \A e \in DocId : e # id => meta'[e] = meta[e]
  BY DEF Upsert, TypeInv, TypeOK, StoresOK
<1>2. WholeOrNone' /\ SameInBoth'
  BY DEF WholeOrNone, SameInBoth
<1>3. \A c \in Text : Sha(c) \in DocId /\ Sha(c).kind = "sha"
  BY DocIds DEF Sha
<1>4. Copyable'
  BY <1>1, <1>3 DEF Copyable
<1> QED BY <1>1, <1>2, <1>4

LEMMA DupOrSha ==
  ASSUME NEW p \in Path, NEW c \in Text, NEW mine \in DocId \cup {NoId}
  PROVE  LET d == DocIdFor(p, c, mine) IN d \in DocId /\ d.kind \in {"sha", "dup"} /\ d.text = c
<1>1. Sha(c).kind = "sha" /\ Sha(c).text = c /\ Dup(c, p).kind = "dup" /\ Dup(c, p).text = c
  BY DEF Sha, Dup
<1>2. Names(mine, c) => mine.kind \in {"sha", "dup"} /\ mine.text = c
  BY DEF Names
<1> QED BY <1>1, <1>2, DocIdForType DEF DocIdFor

LEMMA CleanWorker ==
  ASSUME Patient, OrphanInv, Undisturbed, WholeOrNone, SameInBoth, Copyable, Steady, Worker
  PROVE  WholeOrNone' /\ SameInBoth' /\ Copyable' /\ Steady'
<1>1. /\ TypeInv /\ meta \in [DocId -> Row] /\ chunks \in [DocId -> SUBSET Chunk]
      /\ fts \in [DocId -> SUBSET Chunk] /\ (Named => id \in DocId) /\ RowFirst
      /\ (pc # "idle" => ev.path \in Path)
  BY DEF OrphanInv, TypeInv, TypeOK, StoresOK, Handling, Event
<1>2. Finish => Steady'
  BY DEF Finish, Steady
<1>3. ASSUME NEW d \in DocId, pc \notin {"drop", "fts", "chunk"}, DeleteRow(d),
             pc' = "drop", victim' = d, fts' = fts
      PROVE  WholeOrNone' /\ SameInBoth' /\ Copyable' /\ chunks'[victim'] = {}
  <2>1. \A e \in DocId : meta'[e].ok => meta[e].ok /\ e # d
    BY <1>1, <1>3 DEF DeleteRow, NoRow
  <2> QED BY <1>1, <1>3, <2>1, CleanDelete DEF DeleteRow
<1>4. CASE Take \/ Debounce \/ Moved \/ Stat
  <2>1. pc \in {"idle", "moved", "stat"} /\ UNCHANGED <<meta, chunks, fts>>
    BY <1>4 DEF Take, Debounce, Moved, Stat, At, stores
  <2>2. Finish \/ pc' \in {"idle", "purge", "move", "stat", "tooLarge", "hash", "hashEmpty"}
    BY <1>4 DEF At, Take, Debounce, Moved, Stat, Goto
  <2>3. Steady'
    BY <1>2, <2>2 DEF Steady
  <2> QED BY <2>1, <2>3, CleanFrame
<1>5. CASE Purge
  <2> DEFINE d == DocAt(ev.path)
  <2>1. pc = "purge"
    BY <1>5 DEF Purge, At
  <2>2. CASE d = NoId
    BY <1>2, <1>5, <2>1, <2>2, CleanFrame DEF Purge, stores
  <2>3. CASE d # NoId
    <3>1. d \in DocId
      BY <2>3, DocAtIs
    <3>2. DeleteRow(d) /\ pc' = "drop" /\ victim' = d /\ then' = "idle" /\ fts' = fts
      BY <1>5, <2>3 DEF Purge, DropThen
    <3> HIDE DEF d
    <3> QED BY <1>3, <2>1, <3>1, <3>2 DEF Steady
  <2> QED BY <2>2, <2>3
<1>6. CASE Drop
  <2>1. pc = "drop" /\ fts' = [fts EXCEPT ![victim] = {}] /\ UNCHANGED <<fs, meta, chunks>>
    BY <1>6 DEF Drop, At, outside
  <2>2. Finish \/ (pc' = then /\ UNCHANGED <<ev, id>> /\ then \in {"moved", "parse", "upsertEmpty"})
    BY <1>1, <1>6 DEF Drop, Goto, TypeInv, TypeOK, LocalsOK
  <2>3. \A d \in DocId : fts'[d] = IF d = victim THEN {} ELSE fts[d]
    BY <1>1, <2>1
  <2>4. pc' \notin {"drop", "fts", "chunk"}
    BY <2>2 DEF Finish
  <2>5. WholeOrNone'
    BY <2>1, <2>3 DEF WholeOrNone
  <2>6. SameInBoth'
    BY <2>1, <2>3, <2>4 DEF SameInBoth, Steady
  <2>7. Copyable'
    BY <2>1 DEF Copyable
  <2>8. Steady'
    BY <1>2, <2>1, <2>2 DEF Steady, Exists
  <2> QED BY <2>5, <2>6, <2>7, <2>8
<1>7. CASE Rename
  <2> DEFINE d == DocAt(ev.prev)
             e == DocAt(ev.path)
  <2>1. pc = "move"
    BY <1>7 DEF Rename, At
  <2>2. CASE d = NoId
    <3>1. pc' = "stat" /\ UNCHANGED <<meta, chunks, fts>>
      BY <1>7, <2>2 DEF Rename, Goto, stores
    <3>2. Steady'
      BY <3>1 DEF Steady
    <3> QED BY <2>1, <3>1, <3>2, CleanFrame
  <2>3. CASE d # NoId
    <3>1. /\ meta' = [x \in DocId |-> IF x = d THEN [meta[d] EXCEPT !.path = ev.path]
                                      ELSE IF x = e THEN NoRow ELSE meta[x]]
          /\ chunks' = IF e \in {NoId, d} THEN chunks ELSE [chunks EXCEPT ![e] = {}]
          /\ fts' = fts
          /\ e \in {NoId, d} => pc' = "moved"
          /\ e \notin {NoId, d} => pc' = "drop" /\ victim' = e /\ then' = "moved"
      BY <1>7, <2>3 DEF Rename, Goto, DropThen
    <3>2. d \in DocId /\ e \in DocId \cup {NoId}
      BY <2>3, DocAtIs
    <3> HIDE DEF d, e
    <3>3. meta[d] \in Row
      BY <1>1, <3>2
    <3>4. meta'[d].ok = meta[d].ok
      BY <3>1, <3>2, <3>3 DEF Row
    <3>5. \A x \in DocId : meta'[x].ok => meta[x].ok /\ (x # e \/ x = d)
      <4>1. \A x \in DocId : x # d => meta'[x] = IF x = e THEN NoRow ELSE meta[x]
        BY <3>1
      <4> QED BY <3>4, <4>1 DEF NoRow
    <3>6. CASE e \in {NoId, d}
      <4>1. Steady'
        BY <3>1, <3>6 DEF Steady
      <4>2. WholeOrNone' /\ SameInBoth'
        BY <2>1, <3>1, <3>6 DEF WholeOrNone, SameInBoth
      <4>3. Copyable'
        BY <2>1, <3>1, <3>5, <3>6, DocIds DEF Copyable
      <4> QED BY <4>1, <4>2, <4>3
    <3>7. CASE e \notin {NoId, d}
      <4>1. WholeOrNone' /\ SameInBoth' /\ Copyable' /\ chunks'[victim'] = {}
        BY <1>1, <2>1, <3>1, <3>2, <3>5, <3>7, CleanDelete
      <4> QED BY <3>1, <3>7, <4>1 DEF Steady
    <3> QED BY <3>6, <3>7
  <2> QED BY <2>2, <2>3
<1>8. CASE TooLarge \/ UpsertEmpty
  <2>1. pc \in {"tooLarge", "upsertEmpty"} /\ id \in DocId
    BY <1>1, <1>8 DEF TooLarge, UpsertEmpty, At, Named
  <2>2. CASE Finish /\ UNCHANGED <<meta, chunks, fts>>
    BY <1>2, <2>1, <2>2, CleanFrame
  <2>3. ASSUME NEW s, Upsert(id, ev.path, s, FALSE), UNCHANGED <<chunks, fts>>,
               Finish \/ (pc' = "clear" /\ id' = id)
        PROVE  WholeOrNone' /\ SameInBoth' /\ Copyable' /\ Steady'
    <3>1. meta'[id].ok = FALSE /\ \A x \in DocId : x # id => meta'[x] = meta[x]
      BY <1>1, <2>1, <2>3 DEF Upsert
    <3>2. pc' \notin {"drop", "fts", "chunk"}
      BY <2>3 DEF Finish
    <3>3. WholeOrNone' /\ SameInBoth'
      BY <2>1, <2>3, <3>2 DEF WholeOrNone, SameInBoth
    <3>4. Copyable'
      BY <2>1, <2>3, <3>1, DocIds DEF Copyable
    <3>5. Steady'
      BY <1>2, <2>3, <3>1 DEF Steady
    <3> QED BY <3>3, <3>4, <3>5
  <2>4. ASSUME TooLarge PROVE WholeOrNone' /\ SameInBoth' /\ Copyable' /\ Steady'
    <3>1. UNCHANGED <<chunks, fts>>
      BY <2>4 DEF TooLarge
    <3>2. CASE Clash(id, ev.path)
      BY <2>2, <2>4, <3>1, <3>2 DEF TooLarge
    <3>3. CASE ~Clash(id, ev.path)
      BY <2>3, <2>4, <3>1, <3>3 DEF TooLarge, Goto, locals
    <3> QED BY <3>2, <3>3
  <2>5. ASSUME UpsertEmpty PROVE WholeOrNone' /\ SameInBoth' /\ Copyable' /\ Steady'
    <3>1. Finish /\ UNCHANGED <<chunks, fts>>
      BY <2>5 DEF UpsertEmpty
    <3>2. CASE Clash(id, ev.path)
      BY <2>2, <2>5, <3>1, <3>2 DEF UpsertEmpty
    <3>3. CASE ~Clash(id, ev.path)
      BY <2>3, <2>5, <3>1, <3>3 DEF UpsertEmpty
    <3> QED BY <3>2, <3>3
  <2> QED BY <1>8, <2>4, <2>5
<1>9. ASSUME NEW label \in {"hash", "hashEmpty"}, NEW next \in {"parse", "upsertEmpty"},
             Hash(label, next)
      PROVE  WholeOrNone' /\ SameInBoth' /\ Copyable' /\ Steady'
  <2> DEFINE d == DocIdFor(ev.path, fs[ev.path].text, old)
  <2>1. pc \in {"hash", "hashEmpty"} /\ UNCHANGED fs
    BY <1>9 DEF Hash, At, outside
  <2>2. CASE ~Exists(ev.path)
    BY <1>2, <1>9, <2>1, <2>2, CleanFrame DEF Hash, stores
  <2>3. CASE Exists(ev.path)
    <3>1. d.kind \in {"sha", "dup"} /\ d.text = fs[ev.path].text
      <4>1. fs[ev.path].text \in Text /\ old \in DocId \cup {NoId}
        BY <1>1, <2>1, <2>3 DEF Exists, TypeInv, TypeOK, WorldOK, File, LocalsOK
      <4> QED BY <1>1, <2>1, <4>1, DupOrSha
    <3>2. id' = d /\ ev' = ev /\ Exists(ev.path)'
      BY <1>9, <2>1, <2>3 DEF Hash, Exists
    <3> HIDE DEF d
    <3>3. CASE pc' = next /\ UNCHANGED stores
      <4>1. Steady'
        BY <2>1, <3>1, <3>2, <3>3 DEF Steady, Exists
      <4> QED BY <2>1, <3>3, <4>1, CleanFrame DEF stores
    <3>4. CASE old # NoId /\ DeleteRow(old) /\ pc' = "drop" /\ victim' = old /\ then' = next /\ fts' = fts
      <4>1. old \in DocId
        BY <1>1, <3>4 DEF TypeInv, TypeOK, LocalsOK
      <4>2. WholeOrNone' /\ SameInBoth' /\ Copyable' /\ chunks'[victim'] = {}
        BY <1>3, <2>1, <3>4, <4>1
      <4>3. Steady'
        BY <2>1, <3>1, <3>2, <3>4, <4>2 DEF Steady, Exists
      <4> QED BY <4>2, <4>3
    <3> QED BY <1>9, <2>3, <3>3, <3>4 DEF Hash, Goto, DropThen, d
  <2> QED BY <2>2, <2>3
<1>10. CASE Reuse
  <2>1. pc = "parse" /\ id \in DocId /\ id.kind = "dup"
    BY <1>1, <1>10 DEF Reuse, Reusable, At, Named
  <2>2. CASE Finish /\ meta' = meta
    BY <1>2, <1>10, <2>1, <2>2, CleanFrame DEF Reuse
  <2>3. CASE Upsert(id, ev.path, seen, TRUE) /\ pc' = "clone" /\ id' = id
    <3>1. UNCHANGED <<chunks, fts>> /\ meta[Sha(id.text)].ok /\ id.text \in Text
      BY <1>10, <2>1, DocIds DEF Reuse, Reusable, Canonical
    <3>2. WholeOrNone' /\ SameInBoth' /\ Copyable'
      BY <1>1, <2>1, <2>3, <3>1, CleanUpsert
    <3>3. chunks[Sha(id.text)] = Pieces(id.text)
      BY <2>1, <3>1 DEF Copyable
    <3>4. Steady'
      BY <2>3, <3>1, <3>3 DEF Steady
    <3> QED BY <3>2, <3>4
  <2> QED BY <1>10, <2>2, <2>3 DEF Reuse, Goto, locals
<1>11. ASSUME NEW o \in {"ok", "stub", "failed"}, Parse(o)
       PROVE  WholeOrNone' /\ SameInBoth' /\ Copyable' /\ Steady'
  <2>1. pc = "parse" /\ id \in DocId /\ UNCHANGED <<chunks, fts>>
    BY <1>1, <1>11 DEF Parse, At, Named
  <2>2. o \in {"ok", "failed"} /\ id.kind \in {"sha", "dup"} /\ id.text = fs[ev.path].text
    BY <1>11, <2>1 DEF Parse, Parsed, Steady, Patient
  <2>3. CASE Finish /\ meta' = meta
    BY <1>2, <2>1, <2>3, CleanFrame
  <2>4. CASE /\ Upsert(id, ev.path, ev.stamp, o # "failed")
             /\ got' = IF o = "ok" THEN Pieces(fs[ev.path].text) ELSE {}
             /\ pc' = (IF o = "failed" THEN "clear" ELSE "chunk")
             /\ UNCHANGED <<ev, id>>
    <3>1. (o # "failed") \in BOOLEAN /\ (o # "failed" => pc' = "chunk") /\ pc' \notin {"drop", "fts"}
      BY <2>4
    <3>2. WholeOrNone' /\ SameInBoth' /\ Copyable' /\ meta'[id].ok = (o # "failed")
      BY <1>1, <2>1, <2>4, <3>1, CleanUpsert
    <3>3. o = "ok" => got' = All(id)
      BY <2>2, <2>4 DEF All
    <3>4. Steady'
      BY <2>2, <2>4, <3>2, <3>3 DEF Steady
    <3> QED BY <3>2, <3>4
  <2> QED BY <1>11, <2>3, <2>4 DEF Parse, Goto
<1>12. CASE Clone
  <2>1. pc = "clone" /\ pc' = "chunk" /\ UNCHANGED <<id, meta, chunks, fts>> /\ got' = chunks[Sha(id.text)]
    BY <1>12 DEF Clone, At, Goto, Canonical, stores
  <2>2. Steady'
    BY <1>1, <2>1 DEF Steady, All, TypeInv, Handling
  <2> QED BY <2>1, <2>2, CleanFrame
<1>13. CASE Clear
  <2>1. /\ pc = "clear" /\ id \in DocId /\ pc' = "drop" /\ victim' = id /\ then' = "idle"
        /\ chunks' = [chunks EXCEPT ![id] = {}] /\ UNCHANGED <<meta, fts>>
    BY <1>1, <1>13 DEF Clear, At, DropThen, Named
  <2>2. \A e \in DocId : meta'[e].ok => meta[e].ok /\ e # id
    BY <2>1 DEF Steady
  <2>3. WholeOrNone' /\ SameInBoth' /\ Copyable' /\ chunks'[victim'] = {}
    BY <1>1, <2>1, <2>2, CleanDelete
  <2> QED BY <2>1, <2>3 DEF Steady
<1>14. CASE ReplaceChunks
  <2>1. pc = "chunk" /\ id \in DocId /\ HasRow(id) /\ got = All(id)
    BY <1>1, <1>14 DEF ReplaceChunks, At, Named, RowFirst, Steady
  <2>2. /\ chunks' = [chunks EXCEPT ![id] = got] /\ pc' = "fts"
        /\ UNCHANGED <<id, got, meta, fts>>
    BY <1>14, <2>1 DEF ReplaceChunks, Goto, locals
  <2>3. chunks'[id] = All(id) /\ \A d \in DocId : d # id => chunks'[d] = chunks[d]
    BY <1>1, <2>1, <2>2
  <2>4. WholeOrNone' /\ SameInBoth'
    BY <2>1, <2>2, <2>3 DEF WholeOrNone, SameInBoth
  <2>5. \A c \in Text : Sha(c) \in DocId /\ All(Sha(c)) = Pieces(c)
    BY DocIds DEF All, Sha
  <2>6. Copyable'
    BY <2>1, <2>2, <2>3, <2>5 DEF Copyable
  <2>7. Steady'
    BY <2>1, <2>2, <2>3 DEF Steady
  <2> QED BY <2>4, <2>6, <2>7
<1>15. CASE FtsUpsert
  <2>1. /\ pc = "fts" /\ id \in DocId /\ pc' = "enqueue" /\ UNCHANGED <<id, meta, chunks>>
        /\ fts' = [fts EXCEPT ![id] = {r \in @ : \A g \in got : g.ord # r.ord} \cup got]
        /\ got = All(id) /\ chunks[id] = got
    BY <1>1, <1>15 DEF FtsUpsert, At, Goto, locals, Named, Steady
  <2>2. fts'[id] = got /\ \A d \in DocId : d # id => fts'[d] = fts[d]
    <3>1. fts'[id] = {r \in fts[id] : \A g \in got : g.ord # r.ord} \cup got
      BY <1>1, <2>1
    <3>2. fts[id] \subseteq got
      BY <2>1 DEF WholeOrNone
    <3> QED BY <1>1, <2>1, <3>1, <3>2
  <2>3. WholeOrNone' /\ SameInBoth'
    BY <2>1, <2>2 DEF WholeOrNone, SameInBoth
  <2>4. Copyable' /\ Steady'
    BY <2>1 DEF Copyable, Steady
  <2> QED BY <2>3, <2>4
<1>16. CASE EnqueueJobs
  <2>1. pc = "enqueue" /\ Finish /\ UNCHANGED <<meta, chunks, fts>>
    BY <1>16 DEF EnqueueJobs, At
  <2> QED BY <1>2, <2>1, CleanFrame
<1> QED BY <1>4, <1>5, <1>6, <1>7, <1>8, <1>9, <1>10, <1>11, <1>12, <1>13, <1>14, <1>15, <1>16 DEF Worker

LEMMA CleanStep ==
  ASSUME Patient, OrphanInv, CleanInv, [Next]_vars
  PROVE  CleanInv'
<1> SUFFICES ASSUME Undisturbed'
             PROVE  (up /\ forgetting = NoId /\ WholeOrNone /\ SameInBoth /\ Copyable /\ Steady)'
  BY DEF CleanInv
<1>1. /\ Undisturbed /\ up /\ forgetting = NoId /\ WholeOrNone /\ SameInBoth /\ Copyable /\ Steady
      /\ User \/ Notice \/ (\E p \in Path : Scan(p)) \/ Worker \/ UNCHANGED vars
  BY StaysDisturbed DEF CleanInv, OrphanInv
<1>2. CASE User
  <2>1. UNCHANGED <<up, forgetting, pc, id, victim, meta, chunks, fts>> /\ pc = "idle"
    BY <1>2 DEF User, Write, Remove, Move, Change, Allowed, Quiet, Patient, locals, stores, counts
  <2>2. Steady'
    BY <2>1 DEF Steady
  <2> QED BY <1>1, <2>1, <2>2, CleanFrame
<1>3. CASE Notice \/ (\E p \in Path : Scan(p)) \/ UNCHANGED vars
  <2>1. UNCHANGED <<up, forgetting, fs, pc, ev, id, got, victim, then, meta, chunks, fts>>
    BY <1>3 DEF Notice, Scan, vars, locals, stores, counts
  <2>2. Steady'
    BY <1>1, <2>1 DEF Steady, Exists
  <2> QED BY <1>1, <2>1, <2>2, CleanFrame
<1>4. CASE Worker
  <2>1. UNCHANGED <<up, forgetting>>
    BY <1>4, WorkerFrame DEF counts
  <2> QED BY <1>1, <1>4, <2>1, CleanWorker
<1> QED BY <1>1, <1>2, <1>3, <1>4

(* Where the user waits for a quiet index before writing, copying or       *)
(* renaming, the two stores agree when it is quiet again: no search shows  *)
(* a chunk SQLite does not have, whatever content, duplicate or failed     *)
(* parse was there before.                                                 *)
THEOREM NothingStale ==
  ASSUME Patient
  PROVE  Spec => []NoStaleRows
<1> DEFINE I == OrphanInv /\ CleanInv
<1>1. I => NoStaleRows
  BY DEF CleanInv, SameInBoth, NoStaleRows, Quiet
<1>2. Init => I
  BY OrphanInit, CleanInit
<1>3. I /\ [Next]_vars => I'
  BY OrphanStep, CleanStep
<1> QED BY <1>1, <1>2, <1>3, PTL DEF Spec
=============================================================================
