------------------------------ MODULE FastScan ------------------------------
(***************************************************************************)
(* The file-name index ("fast index") of one root and everything that      *)
(* writes it: fast scans (scan_root with its walker threads, its bounded   *)
(* outbox and the collecting thread), the content walk that follows a      *)
(* catch-up scan and fills the daemon's queue, the daemon's worker that    *)
(* mirrors queued items, and the RPC thread that removes, adds and rescans *)
(* the root.  Each FastIndex call is one step: a process-wide lock orders  *)
(* them.                                                                   *)
(*                                                                         *)
(* Abstractions.  A row is its path: size and mtime are left out, and so   *)
(* are the ignore, extension and size tests, which every file passes.      *)
(* Sub-roots are flat.  A watcher's event is queued as the change is made, *)
(* and the queue has room (IndexerDaemon has the watcher's delay, the full *)
(* queue and the restarts of the worker).  A walker may start whenever it  *)
(* has been submitted: the size of the pool only delays it.                *)
(***************************************************************************)
EXTENDS Naturals, Sequences, FiniteSets

\* An operator whose name ends in Bug is its neighbour with a plausible
\* mistake, to show that a property can fail.

CONSTANTS
  Dir,          \* the directories in the root, one walker each
  File,         \* the files
  DirOf,        \* DirOf[f] is the directory f is in, Top for the root itself
  Top, Nil, Done,
  Batch,        \* _BATCH, the rows of one upsert_many
  OutMax,       \* the size of the outbox (_BATCH * 4)
  Calls,        \* the calls made: a subset of {"add", "remove", "rescan"}
  MaxChanges,   \* bound on the changes of files
  MaxCalls,     \* bound on the calls
  MaxScans      \* bound on the scans

ASSUME Universe ==
  /\ Top \notin Dir /\ Nil \notin File \cup Dir /\ Done \notin File
  /\ File \cap Dir = {} /\ DirOf \in [File -> Dir \cup {Top}] /\ IsFiniteSet(Dir)
  /\ Calls \subseteq {"add", "remove", "rescan"}

ASSUME Bounds ==
  /\ Batch \in Nat \ {0} /\ OutMax \in Nat \ {0}
  /\ MaxChanges \in Nat /\ MaxCalls \in Nat /\ MaxScans \in Nat \ {0}

ScanId == 1..MaxScans

VARIABLES
  files,        \* the files that exist
  active,       \* the root is in settings.index.roots
  watching,     \* the root has a watcher
  rpc,          \* where the RPC thread is
  queue,        \* IndexerDaemon._queue
  rows,         \* the paths in the fast index
  scan,         \* the scans: locals of _scan_root_impl and _catch_up_scan
  walker,       \* the walker of every directory of every scan
  clean,        \* history: scans nobody has interfered with
  astray,       \* history: files whose row came or went with the root's state unnoticed
  changes, calls

config  == <<active, watching, rpc>>
threads == <<scan, walker>>
bounds  == <<changes, calls>>
vars    == <<files, config, queue, rows, threads, clean, astray, bounds>>

InDir(d) == {f \in File : DirOf[f] = d}

NewScan(kind) ==
  [at |-> "begin", kind |-> kind, todo |-> {}, rec |-> Nil, subs |-> {}, keep |-> {},
   batch |-> {}, aborted |-> FALSE, completed |-> 0, outbox |-> <<>>]

NoScan == [NewScan("catchup") EXCEPT !.at = "none"]

Over == [NoScan EXCEPT !.at = "end"]

NoWalker == [at |-> "none", todo |-> {}, rec |-> Nil]

(* should_abort: the catch-up scans ask whether the root is still there,   *)
(* those of index.rescan never abort.                                      *)
ShouldAbort(s) == scan[s].kind = "catchup" /\ ~active

Goto(s, label) == scan' = [scan EXCEPT ![s].at = label]

-----------------------------------------------------------------------------
(* Files and the daemon's worker.                                          *)

Change(change, f) ==
  /\ changes < MaxChanges /\ changes' = changes + 1
  /\ queue' = IF watching THEN Append(queue, [change |-> change, path |-> f]) ELSE queue
  /\ clean' = {}
  /\ UNCHANGED <<config, rows, threads, astray, calls>>

Create(f) == f \notin files /\ files' = files \cup {f} /\ Change("created", f)

Remove(f) == f \in files /\ files' = files \ {f} /\ Change("deleted", f)

(* _mirror_fast_index: the worker does not ask whether the file or its     *)
(* root is still there.                                                    *)
Mirror ==
  LET f == Head(queue).path IN
  /\ queue # <<>> /\ queue' = Tail(queue)
  /\ IF Head(queue).change = "deleted"
       THEN rows' = rows \ {f} /\ astray' = astray \ {f}
       ELSE /\ rows' = rows \cup {f}
            /\ astray' = IF active THEN astray \ {f} ELSE astray \cup {f}
  /\ clean' = {}
  /\ UNCHANGED <<files, config, threads, bounds>>

-----------------------------------------------------------------------------
(* The RPC thread.                                                         *)

Free == {s \in ScanId : scan[s].at = "none"}

Call(name) == rpc = "idle" /\ name \in Calls /\ calls < MaxCalls /\ calls' = calls + 1

(* A scan begins; which of the free numbers it gets makes no difference.   *)
Spawn(kind) ==
  /\ LET s == CHOOSE n \in Free : \A m \in Free : n <= m IN
     scan' = [scan EXCEPT ![s] = NewScan(kind)] /\ clean' = clean \cup {s}
  /\ UNCHANGED walker

(* remove_root: save the settings ...                                      *)
RemoveRoot ==
  /\ active /\ Call("remove")
  /\ active' = FALSE /\ rpc' = "unwatch" /\ clean' = {}
  /\ UNCHANGED <<files, watching, queue, rows, threads, astray, changes>>

(* ... restart the daemon, now without a watcher of the root ...           *)
Unwatch ==
  /\ rpc = "unwatch" /\ watching' = FALSE /\ rpc' = "purge"
  /\ UNCHANGED <<files, active, queue, rows, threads, clean, astray, bounds>>

(* ... and drop the rows.                                                  *)
PurgeRoot ==
  /\ rpc = "purge" /\ rows' = {} /\ astray' = {} /\ clean' = {} /\ rpc' = "idle"
  /\ UNCHANGED <<files, active, watching, queue, threads, bounds>>

(* add_root saves the settings; the daemon restarts with a watcher of the  *)
(* root and a catch-up scan.                                               *)
AddRoot ==
  /\ ~active /\ Free # {} /\ Call("add")
  /\ active' = TRUE /\ rpc' = "watch"
  /\ UNCHANGED <<files, watching, queue, rows, threads, clean, astray, changes>>

Watch ==
  /\ rpc = "watch" /\ watching' = TRUE /\ rpc' = "idle"
  /\ Spawn("catchup")
  /\ UNCHANGED <<files, active, queue, rows, astray, bounds>>

(* index.rescan waits for a fast scan ...                                  *)
Rescan ==
  /\ active /\ Cardinality(Free) >= 2 /\ Call("rescan")
  /\ Spawn("rescan") /\ rpc' = "rescan"
  /\ UNCHANGED <<files, active, watching, queue, rows, astray, changes>>

RescannedBug ==
  /\ rpc = "rescan" /\ \A s \in ScanId : scan[s].kind # "rescan"
  /\ rpc' = "idle"
  /\ UNCHANGED <<files, active, watching, queue, rows, threads, clean, astray, bounds>>

(* ... and starts a catch-up scan.                                         *)
Rescanned ==
  /\ rpc = "rescan" /\ \A s \in ScanId : scan[s].kind # "rescan"
  /\ Spawn("catchup") /\ rpc' = "idle"
  /\ UNCHANGED <<files, active, watching, queue, rows, astray, bounds>>

-----------------------------------------------------------------------------
(* scan_root: the thread that collects.                                    *)

others == <<files, config, queue, bounds>>

(* A write to the fast index interferes with the other scans.              *)
Writes(s) == clean' = clean \cap {s}

Begin(s) ==
  /\ scan[s].at = "begin"
  /\ scan' = [scan EXCEPT ![s] = IF ShouldAbort(s) THEN Over
               ELSE [@ EXCEPT !.at = "top", !.todo = Dir \cup InDir(Top)]]
  /\ UNCHANGED <<others, rows, walker, clean, astray>>

(* One entry of the root.                                                  *)
Entry(s, e) ==
  LET c == scan[s] IN
  /\ c.at = "top" /\ e \in c.todo
  /\ scan' = [scan EXCEPT ![s] =
       IF ShouldAbort(s) THEN [c EXCEPT !.aborted = TRUE, !.at = "submit"]
       ELSE IF e \in Dir THEN [c EXCEPT !.todo = @ \ {e}, !.subs = @ \cup {e}]
       ELSE IF e \notin files THEN [c EXCEPT !.todo = @ \ {e}]
       ELSE [c EXCEPT !.todo = @ \ {e}, !.keep = @ \cup {e}, !.batch = @ \cup {e},
                      !.at = IF Cardinality(c.batch \cup {e}) >= Batch THEN "topflush" ELSE "top"]]
  /\ UNCHANGED <<others, rows, walker, clean, astray>>

(* A full batch: written, unless the scan is to abort.                     *)
Flush(s, label, next, abort) ==
  /\ scan[s].at = label
  /\ IF ShouldAbort(s)
       THEN /\ scan' = [scan EXCEPT ![s].aborted = TRUE, ![s].at = abort]
            /\ UNCHANGED <<rows, clean, astray>>
       ELSE /\ rows' = rows \cup scan[s].batch /\ astray' = astray \ scan[s].batch
            /\ scan' = [scan EXCEPT ![s].batch = {}, ![s].at = next]
            /\ Writes(s)
  /\ UNCHANGED <<others, walker>>

(* One walker for each directory that was seen, after an abort as well.    *)
Submit(s) ==
  /\ scan[s].at = "submit" \/ (scan[s].at = "top" /\ scan[s].todo = {})
  /\ walker' = [walker EXCEPT ![s] =
       [d \in Dir |-> IF d \in scan[s].subs THEN [NoWalker EXCEPT !.at = "wait"] ELSE NoWalker]]
  /\ Goto(s, "collect")
  /\ UNCHANGED <<others, rows, clean, astray>>

(* The collector takes an item of the outbox.                              *)
Collect(s) ==
  LET c == scan[s]
      f == Head(c.outbox) IN
  /\ c.at = "collect" /\ c.outbox # <<>>
  /\ scan' = [scan EXCEPT ![s] =
       IF f = Done
         THEN [c EXCEPT !.outbox = Tail(@), !.completed = @ + 1]
       ELSE IF ShouldAbort(s)
         THEN [c EXCEPT !.outbox = Tail(@), !.aborted = TRUE]
       ELSE [c EXCEPT !.outbox = Tail(@), !.keep = @ \cup {f}, !.batch = @ \cup {f},
                      !.at = IF Cardinality(c.batch \cup {f}) >= Batch THEN "flush" ELSE "collect"]]
  /\ UNCHANGED <<others, rows, walker, clean, astray>>

(* All walkers have said they are done, or the loop was left: wait for     *)
(* their threads to end.                                                   *)
Join(s) ==
  /\ \/ scan[s].at = "join"
     \/ scan[s].at = "collect" /\ scan[s].completed = Cardinality(scan[s].subs)
  /\ \A d \in scan[s].subs : walker[s][d].at = "end"
  /\ scan' = [scan EXCEPT ![s] = [@ EXCEPT !.at = "last", !.todo = {}, !.subs = {},
                                          !.completed = 0, !.outbox = <<>>]]
  /\ walker' = [walker EXCEPT ![s] = [d \in Dir |-> NoWalker]]
  /\ UNCHANGED <<others, rows, clean, astray>>

LastBug(s) ==
  /\ scan[s].at = "last"
  /\ scan' = [scan EXCEPT ![s] = [@ EXCEPT !.batch = {},
                !.at = IF scan[s].aborted THEN "active" ELSE "missing"]]
  /\ UNCHANGED <<others, rows, walker, clean, astray>>

(* The last batch.                                                         *)
Last(s) ==
  /\ scan[s].at = "last"
  /\ scan' = [scan EXCEPT ![s] = [@ EXCEPT !.batch = {},
                !.at = IF scan[s].aborted THEN "active" ELSE "missing"]]
  /\ IF scan[s].batch # {} /\ ~scan[s].aborted
       THEN /\ rows' = rows \cup scan[s].batch /\ astray' = astray \ scan[s].batch
            /\ Writes(s)
       ELSE UNCHANGED <<rows, clean, astray>>
  /\ UNCHANGED <<others, walker>>

(* delete_missing_under: rows of files the scan has not met.               *)
DeleteMissing(s) ==
  /\ scan[s].at = "missing"
  /\ rows' = rows \cap scan[s].keep
  /\ Writes(s)
  /\ scan' = [scan EXCEPT ![s] = [NewScan(@.kind) EXCEPT !.at = "active"]]
  /\ UNCHANGED <<others, walker, astray>>

-----------------------------------------------------------------------------
(* The walkers.                                                            *)

elsewhere == <<others, rows, clean, astray>>

SetWalker(s, d, w) == walker' = [walker EXCEPT ![s][d] = w]

(* os.walk lists the directory, and the walker asks whether to abort.      *)
List(s, d) ==
  /\ walker[s][d].at = "wait"
  /\ SetWalker(s, d, IF ShouldAbort(s) THEN [NoWalker EXCEPT !.at = "fin"]
                     ELSE [at |-> "walk", todo |-> InDir(d) \cap files, rec |-> Nil])
  /\ UNCHANGED <<elsewhere, scan>>

Look(s, d, f) ==
  LET w == walker[s][d] IN
  /\ w.at = "walk" /\ f \in w.todo
  /\ SetWalker(s, d, IF ShouldAbort(s) THEN [NoWalker EXCEPT !.at = "fin"]
                     ELSE IF f \notin files THEN [w EXCEPT !.todo = @ \ {f}]
                     ELSE [at |-> "put", todo |-> w.todo \ {f}, rec |-> f])
  /\ UNCHANGED <<elsewhere, scan>>

Put(s, item) == /\ Len(scan[s].outbox) < OutMax
                /\ scan' = [scan EXCEPT ![s].outbox = Append(@, item)]

HandBug(s, d) ==
  LET w == [walker[s][d] EXCEPT !.at = "walk", !.rec = Nil] IN
  /\ walker[s][d].at = "put" /\ Put(s, w.rec) /\ SetWalker(s, d, w)
  /\ UNCHANGED elsewhere

(* The walker puts the file's record; it waits for room.                   *)
Hand(s, d) ==
  /\ walker[s][d].at = "put"
  /\ Put(s, walker[s][d].rec)
  /\ SetWalker(s, d, [walker[s][d] EXCEPT !.at = "walk", !.rec = Nil])
  /\ UNCHANGED elsewhere

WalkedBug(s, d) ==
  /\ walker[s][d].at = "fin" \/ (walker[s][d].at = "walk" /\ walker[s][d].todo = {})
  /\ IF walker[s][d].at = "walk" THEN Put(s, Done) ELSE UNCHANGED scan
  /\ SetWalker(s, d, [NoWalker EXCEPT !.at = "end"])
  /\ UNCHANGED elsewhere

(* finally: the walker says it is done, whether it has aborted or not.     *)
Walked(s, d) ==
  /\ walker[s][d].at = "fin" \/ (walker[s][d].at = "walk" /\ walker[s][d].todo = {})
  /\ Put(s, Done)
  /\ SetWalker(s, d, [NoWalker EXCEPT !.at = "end"])
  /\ UNCHANGED elsewhere

-----------------------------------------------------------------------------
(* _catch_up_scan after its fast scan.                                     *)

ActiveBug(s) ==
  /\ scan[s].at = "active"
  /\ scan' = [scan EXCEPT ![s] =
       IF scan[s].kind = "rescan" THEN Over
       ELSE [NewScan("catchup") EXCEPT !.at = "content", !.todo = File]]
  /\ UNCHANGED <<elsewhere, walker>>

(* Is the root still there?  A scan of index.rescan just returns.          *)
Active(s) ==
  /\ scan[s].at = "active"
  /\ scan' = [scan EXCEPT ![s] =
       IF scan[s].kind = "rescan" THEN Over
       ELSE IF active THEN [NewScan("catchup") EXCEPT !.at = "content", !.todo = File]
       ELSE [NewScan("catchup") EXCEPT !.at = "sweep"]]
  /\ UNCHANGED <<elsewhere, walker>>

(* No: delete_under, by the answer just given.                             *)
Sweep(s) ==
  /\ scan[s].at = "sweep"
  /\ rows' = {} /\ astray' = IF active THEN files ELSE {}
  /\ Writes(s)
  /\ scan' = [scan EXCEPT ![s] = Over]
  /\ UNCHANGED <<others, walker>>

(* The content walk meets a file ...                                       *)
Visit(s, f) ==
  LET c == scan[s] IN
  /\ c.at = "content" /\ c.rec = Nil /\ f \in c.todo
  /\ scan' = [scan EXCEPT ![s] =
       IF f \notin files THEN [c EXCEPT !.todo = @ \ {f}]
       ELSE IF active THEN [c EXCEPT !.todo = @ \ {f}, !.rec = f]
       ELSE Over]
  /\ UNCHANGED <<elsewhere, walker>>

(* ... and queues it.                                                      *)
Offer(s) ==
  /\ scan[s].at = "content" /\ scan[s].rec # Nil
  /\ queue' = Append(queue, [change |-> "created", path |-> scan[s].rec])
  /\ scan' = [scan EXCEPT ![s].rec = Nil]
  /\ UNCHANGED <<files, config, bounds, rows, walker, clean, astray>>

Finished(s) ==
  /\ scan[s].at = "content" /\ scan[s].rec = Nil /\ scan[s].todo = {}
  /\ scan' = [scan EXCEPT ![s] = Over]
  /\ UNCHANGED <<elsewhere, walker>>

-----------------------------------------------------------------------------

(* The daemon runs, over the rows of an earlier run: its first catch-up    *)
(* scan of the root is about to start, or was over long ago.               *)
Init ==
  /\ files \in SUBSET File /\ rows \in SUBSET File
  /\ active = TRUE /\ watching = TRUE /\ rpc = "idle" /\ queue = <<>>
  /\ \/ /\ scan = [s \in ScanId |-> IF s = 1 THEN NewScan("catchup") ELSE NoScan]
        /\ clean = {1}
     \/ /\ rows = files /\ scan = [s \in ScanId |-> NoScan] /\ clean = {}
  /\ walker = [s \in ScanId |-> [d \in Dir |-> NoWalker]]
  /\ astray = {}
  /\ changes = 0 /\ calls = 0

User == \E f \in File : Create(f) \/ Remove(f)

Rpc == RemoveRoot \/ AddRoot \/ Rescan

ScanStep(s) ==
  \/ Begin(s) \/ \E e \in Dir \cup InDir(Top) : Entry(s, e)
  \/ Flush(s, "topflush", "top", "submit") \/ Submit(s)
  \/ Collect(s) \/ Flush(s, "flush", "collect", "join") \/ Join(s)
  \/ Last(s) \/ DeleteMissing(s) \/ Active(s) \/ Sweep(s)
  \/ \E f \in File : Visit(s, f)
  \/ Offer(s) \/ Finished(s)

WalkerStep(s, d) ==
  \/ List(s, d) \/ \E f \in File : Look(s, d, f)
  \/ Hand(s, d) \/ Walked(s, d)

System ==
  \/ Mirror \/ Unwatch \/ PurgeRoot \/ Watch \/ Rescanned
  \/ \E s \in ScanId : ScanStep(s) \/ \E d \in Dir : WalkerStep(s, d)

Next == User \/ Rpc \/ System

Spec == Init /\ [][Next]_vars

-----------------------------------------------------------------------------
(* Properties.                                                             *)

Item == [change : {"created", "deleted"}, path : File]

TypeOK ==
  /\ files \subseteq File /\ rows \subseteq File /\ astray \subseteq File
  /\ active \in BOOLEAN /\ watching \in BOOLEAN
  /\ rpc \in {"idle", "unwatch", "purge", "watch", "rescan"}
  /\ queue \in Seq(Item)
  /\ scan \in [ScanId ->
       [at : {"none", "begin", "top", "topflush", "submit", "collect", "flush", "join",
              "last", "missing", "active", "sweep", "content", "end"},
        kind : {"catchup", "rescan"}, todo : SUBSET (Dir \cup File), rec : File \cup {Nil},
        subs : SUBSET Dir, keep : SUBSET File, batch : SUBSET File, aborted : BOOLEAN,
        completed : Nat, outbox : Seq(File \cup {Done})]]
  /\ walker \in [ScanId -> [Dir -> [at : {"none", "wait", "walk", "put", "fin", "end"},
                                    todo : SUBSET File, rec : File \cup {Nil}]]]
  /\ clean \subseteq ScanId
  /\ changes \in Nat /\ calls \in Nat

(* A walker waits for room in the outbox, for a record or for its Done.    *)
WaitsForRoom(s, d) ==
  /\ Len(scan[s].outbox) >= OutMax
  /\ \/ walker[s][d].at \in {"put", "fin"}
     \/ walker[s][d].at = "walk" /\ walker[s][d].todo = {}

(* The collector has left its loop to abort and waits for walkers that     *)
(* wait for room in the outbox nobody empties any more.                    *)
Wedged(s) == /\ scan[s].at = "join" /\ scan[s].aborted
             /\ \E d \in scan[s].subs : walker[s][d].at # "end"
             /\ \A d \in scan[s].subs : walker[s][d].at = "end" \/ WaitsForRoom(s, d)

(* No call, no scan and no item is under way, but for wedged scans.        *)
Quiet == rpc = "idle" /\ queue = <<>> /\ \A s \in ScanId : scan[s].at \in {"none", "end"} \/ Wedged(s)

(* Who waits: the RPC thread for a call or for the fast scan of a rescan,  *)
(* the collector for an item or for the end of its walkers, and they for   *)
(* room.                                                                   *)
RpcWaits == \/ rpc = "idle"
            \/ rpc = "rescan" /\ \E s \in ScanId : scan[s].kind = "rescan"

AllDone(s) == scan[s].completed = Cardinality(scan[s].subs)

CollectorWaits(s) ==
  \/ scan[s].at \in {"none", "end"}
  \/ scan[s].at = "collect" /\ scan[s].outbox = <<>> /\ ~AllDone(s)
  \/ /\ scan[s].at = "join" \/ (scan[s].at = "collect" /\ AllDone(s))
     /\ \E d \in scan[s].subs : walker[s][d].at # "end"

WalkerWaits(s, d) == walker[s][d].at \in {"none", "end"} \/ WaitsForRoom(s, d)

(* Walkers, collectors, worker and RPC thread all wait for one another     *)
(* only in the one way above, and only in a scan that aborts.              *)
NeverStuck ==
  /\ RpcWaits /\ queue = <<>>
  /\ \A s \in ScanId : CollectorWaits(s) /\ \A d \in Dir : WalkerWaits(s, d)
  => Quiet

(* A fast scan nobody interferes with leaves exactly the files: no walker, *)
(* outbox or batch loses one, and no row of a former run survives.         *)
ExactScan ==
  \A s \in clean : scan[s].at = "active" => rows = files

(* Scans delete rows of files the worker has just mirrored, and yet no     *)
(* name is lost: when nothing is left to do, every file of the root is in  *)
(* the index, because a scan queues every file after it has deleted.  The  *)
(* exception is the scan that clears a root that was added again.          *)
NamesCaughtUp == Quiet /\ active => files \ astray \subseteq rows

(* When nothing is left to do, a removed root has no row, though scans may *)
(* have written some after the rows were dropped: they sweep up.  The      *)
(* exception is an item the worker took from the queue afterwards.         *)
RemovedRootClean == Quiet /\ ~active => rows \subseteq astray

(* "The fast scan mirrors the current filesystem", "safe to call while the *)
(* daemon is running": when nothing is left to do, no row is of a file     *)
(* that is gone.                                                           *)
NoGhostNames == Quiet => rows \subseteq files
=============================================================================
