--------------------------- MODULE IndexPipeline ---------------------------
(***************************************************************************)
(* The content index of eoditdeora: files under one watched root, the      *)
(* watcher and the catch-up scan that turn changes into events, the worker *)
(* that runs index_file on one event at a time, and the stores it writes:  *)
(* the SQLite documents, chunks and jobs tables and the Tantivy index.     *)
(* index_file commits store by store, so each of its commits, and each of  *)
(* its reads of the file, is a step of its own: the user, the RPC thread   *)
(* that forgets a document, an exception or a crash may come in between.   *)
(*                                                                         *)
(* Abstractions.  A text stands for the bytes of a file; a stamp stands    *)
(* for (mtime_ns, size), and no two writes get the same stamp.  A chunk is *)
(* its ordinal and the text it was cut from.  One embed and one understand *)
(* job of a document are one member of jobs.  No embedding worker exists   *)
(* in the source, so the vector table stays empty and is left out.         *)
(***************************************************************************)
EXTENDS Naturals, Sequences, FiniteSets

CONSTANTS
  Path,        \* the paths under the root that pass every filter
  Text,        \* the contents a file can have
  Empty,       \* the contents of size 0
  Huge,        \* the contents above the max_bytes the watcher was started with
  Large,       \* the contents above index.max_file_bytes as index_file reads it
  Parts,       \* Parts[c] is the number of chunks of content c
  Nil,         \* no path, no text
  Outcomes,    \* how a parse can end: a subset of {"ok", "stub", "failed"}
  WriteWhen,   \* when files are written or removed ("any", "quiet", "never")
  DupWhen,     \* when a path may get a content that another path has had
  MoveWhen,    \* when files are renamed
  MaxOps,      \* bound on the changes the user makes
  MaxRaw,      \* bound on the notifications the watcher has not looked at
  Troubles,    \* what can get in the way: a subset of {"fail", "crash", "forget"}
  MaxTrouble   \* bound on the number of times it does

ASSUME Universe ==
  /\ Nil \notin Path /\ Nil \notin Text
  /\ Empty \subseteq Text /\ Huge \subseteq Text /\ Large \subseteq Text
  /\ Empty \cap (Huge \cup Large) = {}
  /\ Parts \in [Text -> Nat]
  /\ \A c \in Empty : Parts[c] = 0
  /\ Outcomes \subseteq {"ok", "stub", "failed"}
  /\ Troubles \subseteq {"fail", "crash", "forget"}

ASSUME Bounds ==
  MaxOps \in Nat /\ MaxRaw \in Nat /\ MaxTrouble \in Nat

VARIABLES
  fs,          \* the files: text and stamp of every path
  ops,         \* changes the user has made; the stamp of the latest
  held,        \* history: the paths that have ever had a content
  raw,         \* notifications of the OS the watcher has not handled
  queue,       \* IndexerDaemon._queue
  toScan,      \* paths the catch-up scan has still to visit
  lastSeen,    \* paths of the MODIFIED events the worker has not debounced
  up,          \* the process runs
  pc, ev,      \* where index_file is, and the event it handles
  old, id,     \* existing["doc_id"] and doc_id of index_file
  seen,        \* current_stat of index_file
  got,         \* chunk_rows of index_file
  victim, then,  \* the argument of a pending fts.delete_doc, and what follows it
  meta,        \* the documents table, by doc_id
  chunks,      \* the chunks table, by doc_id
  fts,         \* the Tantivy documents, by doc_id
  jobs,        \* documents with queued embed and understand jobs
  forgetting,  \* the document index.forget has to drop from Tantivy
  faults, forgets,
  missed,      \* history: paths whose latest event was debounced
  outrun,      \* history: a file was renamed at such a path
  stranded     \* history: paths renamed from, where the watcher dropped the rename

events  == <<raw, queue, toScan>>
locals  == <<ev, old, id, seen, got, victim, then>>
stores  == <<meta, chunks, fts, jobs>>
counts  == <<forgetting, faults, forgets>>
marks   == <<lastSeen, missed, outrun, stranded>>
vars    == <<fs, ops, held, raw, queue, toScan, up, pc, locals, stores, counts, marks>>

-----------------------------------------------------------------------------
(* Documents and their names.  An operator whose name ends in Bug is its   *)
(* neighbour with a plausible mistake, to show that a property can fail.   *)

Sha(c)    == [kind |-> "sha",  text |-> c,   path |-> Nil]
Dup(c, p) == [kind |-> "dup",  text |-> c,   path |-> p]
Skip(p)   == [kind |-> "skip", text |-> Nil, path |-> p]
NoId      == [kind |-> "none", text |-> Nil, path |-> Nil]

DocId == {Sha(c) : c \in Text} \cup {Dup(c, p) : c \in Text, p \in Path}
           \cup {Skip(p) : p \in Path}

Gone  == [text |-> Nil, stamp |-> 0]
NoRow == [path |-> Nil, stamp |-> 0, ok |-> FALSE]
NoEv  == [change |-> "none", path |-> Nil, prev |-> Nil, stamp |-> 0]

File  == [text : Text \cup {Nil}, stamp : Nat]
Row   == [path : Path \cup {Nil}, stamp : Nat, ok : BOOLEAN]
Chunk == [ord : Nat, text : Text]
Raw   == {r \in [change : {"created", "modified", "deleted", "moved"},
                path : Path, prev : Path \cup {Nil}] : r.change = "moved" => r.prev \in Path}
Event == [change : {"created", "modified", "deleted", "moved"},
          path : Path, prev : Path \cup {Nil}, stamp : Nat]

Exists(p)  == fs[p].text # Nil
Visible(p) == fs[p].text \in Text \ Huge
HasRow(d)  == meta[d].path # Nil
Pieces(c)  == {[ord |-> i, text |-> c] : i \in 1..Parts[c]}

(* get_document_by_path; source_path is UNIQUE.                            *)
DocAt(p) == IF \E d \in DocId : meta[d].path = p
            THEN CHOOSE d \in DocId : meta[d].path = p
            ELSE NoId

(* existing_doc_id names content c, as the canonical or as a duplicate.    *)
Names(d, c) == d.kind \in {"sha", "dup"} /\ d.text = c

DocIdForBug(p, c, mine) == IF Names(mine, c) THEN mine ELSE Sha(c)

(* The name index_file gives content c found at p, whose row is mine.      *)
DocIdFor(p, c, mine) ==
  IF Names(mine, c) THEN mine
  ELSE IF meta[Sha(c)].path \in {Nil, p} THEN Sha(c)
  ELSE Dup(c, p)

-----------------------------------------------------------------------------
(* The user and the file system.                                           *)

(* Nothing is under way: no notification, no event, no scan, no call.      *)
Quiet == /\ up /\ pc = "idle" /\ forgetting = NoId
         /\ raw = <<>> /\ queue = <<>> /\ toScan = {}

Allowed(when) == when = "any" \/ (when = "quiet" /\ Quiet)

(* The OS tells the watcher, if there is one.                              *)
Notify(change, p, q) ==
  raw' = IF up THEN Append(raw, [change |-> change, path |-> p, prev |-> q])
               ELSE raw

Change == /\ ops < MaxOps /\ Len(raw) < MaxRaw
          /\ ops' = ops + 1
          /\ UNCHANGED <<queue, toScan, up, pc, locals, stores, counts, lastSeen, missed>>

(* A file at p: there is no telling any more what was dropped of its path. *)
Appears(p) == stranded' = stranded \ {p}

Write(p, c) ==
  /\ Allowed(WriteWhen)
  /\ held[c] \subseteq {p} \/ Allowed(DupWhen)
  /\ Change
  /\ fs' = [fs EXCEPT ![p] = [text |-> c, stamp |-> ops + 1]]
  /\ held' = [held EXCEPT ![c] = @ \cup {p}]
  /\ Notify(IF Exists(p) THEN "modified" ELSE "created", p, Nil)
  /\ Appears(p) /\ UNCHANGED outrun

Remove(p) ==
  /\ Allowed(WriteWhen) /\ Exists(p)
  /\ Change
  /\ fs' = [fs EXCEPT ![p] = Gone] /\ UNCHANGED <<held, stranded, outrun>>
  /\ Notify("deleted", p, Nil)

Move(p, q) ==
  /\ Allowed(MoveWhen) /\ Exists(p) /\ p # q
  /\ Change
  /\ fs' = [fs EXCEPT ![q] = fs[p], ![p] = Gone]
  /\ held' = [held EXCEPT ![fs[p].text] = @ \cup {q}]
  /\ Notify("moved", q, p)
  /\ Appears(q) /\ outrun' = (outrun \/ p \in missed)

-----------------------------------------------------------------------------
(* The collector.                                                          *)

Event4(change, p, q, s) ==
  [change |-> change, path |-> p, prev |-> q, stamp |-> s]

NoticeBug ==
  LET r == Head(raw) IN
  /\ up /\ raw # <<>>
  /\ raw' = Tail(raw)
  /\ queue' = IF Visible(r.path)
              THEN Append(queue, Event4(r.change, r.path, r.prev, fs[r.path].stamp))
              ELSE queue
  /\ UNCHANGED <<fs, ops, held, toScan, up, pc, locals, stores, counts, marks>>

NoticeNoneBug ==
  LET r == Head(raw) IN
  /\ up /\ raw # <<>>
  /\ raw' = Tail(raw)
  /\ queue' = IF r.change = "deleted" \/ Visible(r.path)
              THEN Append(queue, Event4(r.change, r.path, r.prev,
                                        IF Visible(r.path) THEN fs[r.path].stamp ELSE Nil))
              ELSE queue
  /\ UNCHANGED <<fs, ops, held, toScan, up, pc, locals, stores, counts, marks>>

(* One notification: stat the file, and emit the event unless the file is  *)
(* missing or too large.  A deletion needs no file.  A rename is dropped   *)
(* with both of its ends when its file is gone again, or too large.        *)
Notice ==
  LET r == Head(raw) IN
  /\ up /\ raw # <<>>
  /\ raw' = Tail(raw)
  /\ queue' = IF r.change = "deleted"
                THEN Append(queue, Event4("deleted", r.path, Nil, 0))
              ELSE IF Visible(r.path)
                THEN Append(queue, Event4(r.change, r.path, r.prev, fs[r.path].stamp))
              ELSE queue
  /\ stranded' = IF r.change = "moved" /\ ~Visible(r.path) /\ ~Exists(r.prev)
                 THEN stranded \cup {r.prev} ELSE stranded
  /\ UNCHANGED <<fs, ops, held, toScan, up, pc, locals, stores, counts, lastSeen, missed, outrun>>

(* The catch-up scan visits one path.                                      *)
Scan(p) ==
  /\ up /\ p \in toScan
  /\ toScan' = toScan \ {p}
  /\ queue' = IF Visible(p)
              THEN Append(queue, Event4("created", p, Nil, fs[p].stamp))
              ELSE queue
  /\ UNCHANGED <<fs, ops, held, raw, up, pc, locals, stores, counts, marks>>

-----------------------------------------------------------------------------
(* index_file.                                                             *)

outside == <<fs, ops, held, raw, toScan, up, counts, marks>>

At(label) == up /\ pc = label

Goto(label) == pc' = label

(* index_file returns, or raises and the worker logs it.                   *)
Finish == /\ pc' = "idle" /\ ev' = NoEv /\ old' = NoId /\ id' = NoId
          /\ seen' = 0 /\ got' = {} /\ victim' = NoId /\ then' = "idle"

(* fts.delete_doc(d), and go on at label.                                  *)
DropThen(d, label) == pc' = "drop" /\ victim' = d /\ then' = label

(* delete_document: the chunks go with the row (ON DELETE CASCADE).        *)
DeleteRow(d) == /\ meta' = [meta EXCEPT ![d] = NoRow]
                /\ chunks' = [chunks EXCEPT ![d] = {}]

(* upsert_document raises when another document has the path.              *)
Clash(d, p) == \E e \in DocId : e # d /\ meta[e].path = p

Upsert(d, p, s, ok) ==
  meta' = [meta EXCEPT ![d] = [path |-> p, stamp |-> s, ok |-> ok]]

(* The worker takes an event ...                                           *)
Take ==
  /\ At("idle") /\ queue # <<>>
  /\ ev' = Head(queue) /\ queue' = Tail(queue)
  /\ Goto(CASE ev'.change = "deleted" -> "purge"
            [] ev'.change = "moved"   -> "move"
            [] OTHER                  -> "stat")
  /\ lastSeen' = IF ev'.change = "modified" THEN lastSeen \cup {ev'.path} ELSE lastSeen
  /\ missed' = missed \ {ev'.path}
  /\ UNCHANGED <<fs, ops, held, raw, toScan, up, counts, outrun, stranded,
                 old, id, seen, got, victim, then, stores>>

(* ... or drops it: a MODIFIED that is taken within 0.4 s of the last one  *)
(* of its path.  How much time has passed is not told.                     *)
Debounce ==
  /\ At("idle") /\ queue # <<>>
  /\ Head(queue).change = "modified" /\ Head(queue).path \in lastSeen
  /\ queue' = Tail(queue)
  /\ missed' = missed \cup {Head(queue).path}
  /\ UNCHANGED <<fs, ops, held, raw, toScan, up, counts, pc, locals, stores,
                 lastSeen, outrun, stranded>>

(* DELETED.                                                                *)
Purge ==
  LET d == DocAt(ev.path) IN
  /\ At("purge")
  /\ IF d = NoId
       THEN Finish /\ UNCHANGED stores
       ELSE /\ DeleteRow(d) /\ DropThen(d, "idle")
            /\ UNCHANGED <<ev, old, id, seen, got, fts, jobs>>
  /\ UNCHANGED <<outside, queue>>

DropBug ==
  /\ At("drop")
  /\ IF then = "idle" THEN Finish
     ELSE /\ Goto(then) /\ victim' = NoId /\ then' = "idle"
          /\ UNCHANGED <<ev, old, id, seen, got>>
  /\ UNCHANGED <<outside, queue, stores>>

(* fts.delete_doc commits.                                                 *)
Drop ==
  /\ At("drop")
  /\ fts' = [fts EXCEPT ![victim] = {}]
  /\ IF then = "idle" THEN Finish
     ELSE /\ Goto(then) /\ victim' = NoId /\ then' = "idle"
          /\ UNCHANGED <<ev, old, id, seen, got>>
  /\ UNCHANGED <<outside, queue, meta, chunks, jobs>>

(* MOVED: replace_path.                                                    *)
Rename ==
  LET d == DocAt(ev.prev)
      e == DocAt(ev.path) IN
  /\ At("move")
  /\ IF d = NoId
       THEN Goto("stat") /\ UNCHANGED <<ev, old, id, seen, got, victim, then, stores>>
       ELSE /\ meta' = [x \in DocId |->
                          IF x = d THEN [meta[d] EXCEPT !.path = ev.path]
                          ELSE IF x = e THEN NoRow ELSE meta[x]]
            /\ chunks' = IF e \in {NoId, d} THEN chunks ELSE [chunks EXCEPT ![e] = {}]
            /\ id' = d
            /\ IF e \in {NoId, d} THEN Goto("moved") /\ UNCHANGED <<victim, then>>
                                  ELSE DropThen(e, "moved")
            /\ UNCHANGED <<ev, old, seen, got, fts, jobs>>
  /\ UNCHANGED <<outside, queue>>

(* MOVED: the content is the same and so is the stamp, so the row is good. *)
Moved ==
  LET p == ev.path IN
  /\ At("moved")
  /\ IF /\ Exists(p) /\ DocIdFor(p, fs[p].text, id) = id
        /\ DocAt(p) # NoId /\ meta[DocAt(p)].stamp = ev.stamp
       THEN Finish
       ELSE Goto("stat") /\ id' = NoId /\ UNCHANGED <<ev, old, seen, got, victim, then>>
  /\ UNCHANGED <<outside, queue, stores>>

StatBug ==
  LET p == ev.path
      d == DocAt(p) IN
  /\ At("stat")
  /\ IF ~Exists(p) \/ d # NoId
       THEN Finish
     ELSE /\ Goto("hash") /\ old' = d /\ seen' = fs[p].stamp
          /\ UNCHANGED <<ev, id, got, victim, then>>
  /\ UNCHANGED <<outside, queue, stores>>

(* existing, current_stat and the preflight tests.                         *)
Stat ==
  LET p == ev.path
      d == DocAt(p) IN
  /\ At("stat")
  /\ IF \/ ~Exists(p)
        \/ /\ d # NoId /\ meta[d].stamp = fs[p].stamp
           /\ fs[p].text \notin Large \cup Empty
       THEN Finish
     ELSE IF fs[p].text \in Large
       THEN /\ Goto("tooLarge") /\ seen' = fs[p].stamp
            /\ id' = IF d # NoId THEN d ELSE Skip(p)
            /\ UNCHANGED <<ev, old, got, victim, then>>
     ELSE /\ Goto(IF fs[p].text \in Empty THEN "hashEmpty" ELSE "hash")
          /\ old' = d /\ seen' = fs[p].stamp
          /\ UNCHANGED <<ev, id, got, victim, then>>
  /\ UNCHANGED <<outside, queue, stores>>

TooLarge ==
  /\ At("tooLarge")
  /\ IF Clash(id, ev.path)
       THEN Finish /\ UNCHANGED meta
       ELSE /\ Upsert(id, ev.path, seen, FALSE) /\ Goto("clear")
            /\ UNCHANGED locals
  /\ UNCHANGED <<outside, queue, chunks, fts, jobs>>

HashBug(label, next) ==
  LET p == ev.path
      d == DocIdFor(p, fs[p].text, old) IN
  /\ At(label)
  /\ IF ~Exists(p)
       THEN Finish /\ UNCHANGED stores
     ELSE /\ id' = d /\ Goto(next) /\ UNCHANGED <<ev, old, seen, got, victim, then, stores>>
  /\ UNCHANGED <<outside, queue>>

(* Hash the file as it is now, and delete the row of its former content.   *)
Hash(label, next) ==
  LET p == ev.path
      d == DocIdFor(p, fs[p].text, old) IN
  /\ At(label)
  /\ IF ~Exists(p)
       THEN Finish /\ UNCHANGED stores
     ELSE /\ id' = d
          /\ IF old \in {NoId, d}
               THEN Goto(next) /\ UNCHANGED <<victim, then, stores>>
               ELSE DeleteRow(old) /\ DropThen(old, next) /\ UNCHANGED <<fts, jobs>>
          /\ UNCHANGED <<ev, old, seen, got>>
  /\ UNCHANGED <<outside, queue>>

(* An empty file gets a row, and whatever its doc_id had stays.            *)
UpsertEmpty ==
  /\ At("upsertEmpty")
  /\ Finish
  /\ IF Clash(id, ev.path) THEN UNCHANGED meta
                           ELSE Upsert(id, ev.path, ev.stamp, FALSE)
  /\ UNCHANGED <<outside, queue, chunks, fts, jobs>>

Canonical == Sha(id.text)

Reusable == id.kind = "dup" /\ HasRow(Canonical) /\ meta[Canonical].ok

(* _reuse_duplicate_parse: the row first ...                               *)
Reuse ==
  /\ At("parse") /\ Reusable
  /\ IF Clash(id, ev.path)
       THEN Finish /\ UNCHANGED meta
       ELSE Upsert(id, ev.path, seen, TRUE) /\ Goto("clone") /\ UNCHANGED locals
  /\ UNCHANGED <<outside, queue, chunks, fts, jobs>>

CloneBug ==
  /\ At("clone")
  /\ got' = chunks[id]
  /\ Goto("chunk")
  /\ UNCHANGED <<outside, queue, ev, old, id, seen, victim, then, stores>>

(* ... then the chunks of the canonical document.                          *)
Clone ==
  /\ At("clone")
  /\ got' = chunks[Canonical]
  /\ Goto("chunk")
  /\ UNCHANGED <<outside, queue, ev, old, id, seen, victim, then, stores>>

(* Every parser fails on a missing file, and the stub stands in.           *)
Parsed(p) == IF Exists(p) THEN Outcomes ELSE {"stub"}

(* Parse the file as it is now and write the row under the event's stamp.  *)
Parse(outcome) ==
  /\ At("parse") /\ ~Reusable
  /\ outcome \in Parsed(ev.path)
  /\ IF Clash(id, ev.path)
       THEN Finish /\ UNCHANGED meta
       ELSE /\ Upsert(id, ev.path, ev.stamp, outcome # "failed")
            /\ got' = IF outcome = "ok" THEN Pieces(fs[ev.path].text) ELSE {}
            /\ Goto(IF outcome = "failed" THEN "clear" ELSE "chunk")
            /\ UNCHANGED <<ev, old, id, seen, victim, then>>
  /\ UNCHANGED <<outside, queue, chunks, fts, jobs>>

ClearBug ==
  /\ At("clear")
  /\ chunks' = [chunks EXCEPT ![id] = {}]
  /\ Finish
  /\ UNCHANGED <<outside, queue, meta, fts, jobs>>

(* _clear_indexed_payload, up to its call of fts.delete_doc.               *)
Clear ==
  /\ At("clear")
  /\ chunks' = [chunks EXCEPT ![id] = {}]
  /\ DropThen(id, "idle")
  /\ UNCHANGED <<outside, queue, ev, old, id, seen, got, meta, fts, jobs>>

(* replace_chunks: a chunk of no document is a FOREIGN KEY error.          *)
ReplaceChunks ==
  /\ At("chunk")
  /\ IF got # {} /\ ~HasRow(id)
       THEN Finish /\ UNCHANGED chunks
       ELSE chunks' = [chunks EXCEPT ![id] = got] /\ Goto("fts") /\ UNCHANGED locals
  /\ UNCHANGED <<outside, queue, meta, fts, jobs>>

FtsUpsertBug ==
  /\ At("fts")
  /\ fts' = [fts EXCEPT ![id] = {r \in @ : \A g \in got : g.ord # r.ord}]
  /\ Goto("enqueue")
  /\ UNCHANGED <<outside, queue, locals, meta, chunks, jobs>>

(* fts.upsert replaces by chunk_id: rows of other ordinals stay.           *)
FtsUpsert ==
  /\ At("fts")
  /\ fts' = [fts EXCEPT ![id] = {r \in @ : \A g \in got : g.ord # r.ord} \cup got]
  /\ Goto("enqueue")
  /\ UNCHANGED <<outside, queue, locals, meta, chunks, jobs>>

EnqueueJobs ==
  /\ At("enqueue")
  /\ jobs' = jobs \cup {id}
  /\ Finish
  /\ UNCHANGED <<outside, queue, meta, chunks, fts>>

Worker ==
  \/ Take \/ Debounce \/ Purge \/ Drop \/ Rename \/ Moved \/ Stat \/ TooLarge
  \/ Hash("hash", "parse") \/ Hash("hashEmpty", "upsertEmpty") \/ UpsertEmpty
  \/ Reuse \/ Clone \/ \E o \in {"ok", "stub", "failed"} : Parse(o)
  \/ Clear \/ ReplaceChunks \/ FtsUpsert \/ EnqueueJobs

-----------------------------------------------------------------------------
(* The RPC thread, exceptions and crashes.                                 *)

May(trouble) == up /\ trouble \in Troubles /\ faults + forgets < MaxTrouble

(* index.forget, and the purge of a removed root, delete the row ...       *)
Forget(d) ==
  /\ May("forget") /\ forgetting = NoId
  /\ HasRow(d)
  /\ DeleteRow(d)
  /\ forgetting' = d /\ forgets' = forgets + 1
  /\ UNCHANGED <<fs, ops, held, events, up, pc, locals, fts, jobs, faults, marks>>

(* ... and then the Tantivy documents.                                     *)
ForgetRows ==
  /\ up /\ forgetting # NoId
  /\ fts' = [fts EXCEPT ![forgetting] = {}]
  /\ forgetting' = NoId
  /\ UNCHANGED <<fs, ops, held, events, up, pc, locals, meta, chunks, jobs, faults, forgets, marks>>

(* A store raises (a busy Tantivy writer, a locked database): the worker   *)
(* logs it and takes the next event.                                       *)
Fail ==
  /\ May("fail") /\ pc # "idle"
  /\ faults' = faults + 1
  /\ Finish
  /\ UNCHANGED <<fs, ops, held, events, up, stores, forgetting, forgets, marks>>

(* The process ends: events are lost, the stores keep what was committed.  *)
Crash ==
  /\ May("crash")
  /\ up' = FALSE /\ faults' = faults + 1
  /\ raw' = <<>> /\ queue' = <<>> /\ toScan' = {} /\ forgetting' = NoId
  /\ Finish
  /\ lastSeen' = {}
  /\ UNCHANGED <<fs, ops, held, stores, forgets, missed, outrun, stranded>>

(* The daemon starts: the catch-up scan will visit every path.             *)
Restart ==
  /\ ~up
  /\ up' = TRUE /\ toScan' = Path
  /\ UNCHANGED <<fs, ops, held, raw, queue, pc, locals, stores, counts, marks>>

-----------------------------------------------------------------------------

Init ==
  /\ fs = [p \in Path |-> Gone] /\ ops = 0
  /\ held = [c \in Text |-> {}]
  /\ raw = <<>> /\ queue = <<>> /\ toScan = Path /\ up = TRUE
  /\ pc = "idle" /\ ev = NoEv /\ old = NoId /\ id = NoId
  /\ seen = 0 /\ got = {} /\ victim = NoId /\ then = "idle"
  /\ meta = [d \in DocId |-> NoRow]
  /\ chunks = [d \in DocId |-> {}] /\ fts = [d \in DocId |-> {}] /\ jobs = {}
  /\ forgetting = NoId /\ faults = 0 /\ forgets = 0
  /\ lastSeen = {} /\ missed = {} /\ outrun = FALSE /\ stranded = {}

User ==
  \/ \E p \in Path, c \in Text : Write(p, c)
  \/ \E p \in Path : Remove(p)
  \/ \E p, q \in Path : Move(p, q)

Next ==
  \/ User
  \/ Notice \/ \E p \in Path : Scan(p)
  \/ Worker
  \/ \E d \in DocId : Forget(d)
  \/ ForgetRows \/ Fail \/ Crash \/ Restart

(* The watcher, the scan, the worker and the RPC call are threads of the   *)
(* process, which the OS schedules; nobody promises a change or a crash.   *)
Fairness ==
  /\ WF_vars(Notice) /\ WF_vars(\E p \in Path : Scan(p)) /\ WF_vars(Worker)
  /\ WF_vars(ForgetRows) /\ WF_vars(Restart)

Spec == Init /\ [][Next]_vars

FairSpec == Spec /\ Fairness

-----------------------------------------------------------------------------
(* Properties.                                                             *)

Labels == {"idle", "purge", "drop", "move", "moved", "stat", "tooLarge", "hash",
           "hashEmpty", "upsertEmpty", "parse", "clone", "clear", "chunk", "fts",
           "enqueue"}

WorldOK ==
  /\ fs \in [Path -> File] /\ ops \in Nat /\ held \in [Text -> SUBSET Path]
  /\ raw \in Seq(Raw) /\ queue \in Seq(Event) /\ toScan \subseteq Path
  /\ up \in BOOLEAN

LocalsOK ==
  /\ pc \in Labels /\ ev \in Event \cup {NoEv}
  /\ old \in DocId \cup {NoId} /\ id \in DocId \cup {NoId} /\ seen \in Nat
  /\ got \subseteq Chunk
  /\ victim \in DocId \cup {NoId} /\ then \in {"idle", "moved", "parse", "upsertEmpty"}

StoresOK ==
  /\ meta \in [DocId -> Row]
  /\ chunks \in [DocId -> SUBSET Chunk] /\ fts \in [DocId -> SUBSET Chunk]
  /\ jobs \subseteq DocId

CountsOK == forgetting \in DocId \cup {NoId} /\ faults \in Nat /\ forgets \in Nat

MarksOK == /\ lastSeen \subseteq Path /\ missed \subseteq Path /\ stranded \subseteq Path
           /\ outrun \in BOOLEAN

(* Every variable holds a value the code can give it.                      *)
TypeOK == WorldOK /\ LocalsOK /\ StoresOK /\ CountsOK /\ MarksOK

(* index_file writes a row only when no other document has the path, so    *)
(* the UNIQUE constraint on documents.source_path never raises: what the   *)
(* worker learnt of the path steps ago still bounds who can own it.        *)
Writing == \/ pc \in {"tooLarge", "upsertEmpty", "parse"}
           \/ pc = "drop" /\ then \in {"upsertEmpty", "parse"}

NoUniqueClash == Writing => ~Clash(id, ev.path)

(* No exception, crash or forget has happened.                             *)
Undisturbed == faults = 0 /\ forgets = 0

(* Until an exception, a crash or a forget, a Tantivy document has its row *)
(* in SQLite, or index_file is about to delete it: no search hit without a *)
(* document behind it.                                                     *)
NoOrphanHits ==
  Undisturbed =>
    \A d \in DocId : fts[d] # {} => HasRow(d) \/ (pc = "drop" /\ victim = d)

(* A row passes from one path to another only when a MOVED event says so:  *)
(* indexing one file never takes the row of another.                       *)
RowsStayHome ==
  [][\A d \in DocId :
       HasRow(d) /\ meta'[d].path \notin {Nil, meta[d].path} => pc = "move"]_vars

(* The text, the chunks and the jobs of the file at p are in the index     *)
(* under one name; an unparsable file has a row and nothing else to find.  *)
Served(p) ==
  Visible(p) /\ \E d \in DocId :
    /\ meta[d].path = p
    /\ IF meta[d].ok
       THEN /\ chunks[d] = Pieces(fs[p].text)
            /\ chunks[d] \subseteq fts[d]
            /\ d \in jobs
       ELSE chunks[d] = {}

(* When nothing is left to do, every file is served with the text it has,  *)
(* though index_file read it several times while it was being written; but *)
(* not a file whose last event was debounced, which may keep an older one, *)
(* nor anything once such a file has been renamed: its row goes along with *)
(* the older text and a name made of it, which another file may then meet. *)
CaughtUp ==
  Quiet /\ Undisturbed /\ ~outrun => \A p \in Path : Visible(p) => Served(p) \/ p \in missed

(* When nothing is left to do, no row points at a file that is gone, but   *)
(* where the watcher dropped the rename by which it went.                  *)
NoGhosts ==
  Quiet /\ Undisturbed =>
    \A d \in DocId : HasRow(d) => Exists(meta[d].path) \/ meta[d].path \in stranded

(* When nothing is left to do, a search sees the chunks SQLite has and no  *)
(* other: nothing of a former content or of a failed parse is left behind. *)
NoStaleRows == Quiet /\ Undisturbed => \A d \in DocId : fts[d] = chunks[d]

(* "documents: one row per indexed file."  When nothing is left to do,     *)
(* every file the index takes has a row of its own.                        *)
OneRowPerFile == Quiet /\ Undisturbed => \A p \in Path : Visible(p) => DocAt(p) # NoId

(* "a crashed worker restarts with no data loss."  When the restarted      *)
(* daemon has nothing left to do, every file is served all the same, if no *)
(* event of it was debounced.                                              *)
CrashLosesNothing ==
  Quiet /\ ~outrun => \A p \in Path : Visible(p) => Served(p) \/ p \in missed

(* No file waits forever: as the user makes finitely many changes, every   *)
(* file is left alone in the end, and is then served as it is, unless its  *)
(* last event was debounced.                                               *)
EventuallyServed ==
  \A p \in Path : []<>(Visible(p) /\ Undisturbed /\ ~outrun => Served(p) \/ p \in missed)
=============================================================================
