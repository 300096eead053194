--------------------------- MODULE IndexerDaemon ---------------------------
(***************************************************************************)
(* The life of the indexer daemon: the RPC thread that adds, removes,      *)
(* rescans and resets, IndexerDaemon.start and stop, the watchers, the     *)
(* catch-up scan threads, the bounded queue and the worker threads.        *)
(*                                                                         *)
(* The RPC loop awaits one call at a time, so calls never overlap.  _lock  *)
(* is held across steps by stop() and start() only; the worker's and the   *)
(* producers' uses of it are one step each.  index_file is one step here   *)
(* (IndexPipeline has its steps): it makes the document of a path agree    *)
(* with the version the file has.  Handled files have the right extension. *)
(***************************************************************************)
EXTENDS Naturals, Sequences, FiniteSets

\* An operator whose name ends in Bug is its neighbour with a plausible
\* mistake, to show that a property can fail.

CONSTANTS
  Root,          \* directories that can be registered
  Path,          \* files
  RootOf,        \* RootOf[p] is the directory p is under
  Nil,           \* no path, no root
  QMax,          \* _Q_MAX, the size of the queue
  Calls,         \* the calls made: a subset of {"add", "remove", "rescan", "reset"}
  Bursts,        \* whether modifications can follow each other within 400 ms
  MaxChanges,    \* bound on the changes of files
  MaxRaw,        \* bound on the notifications the watchers have not handled
  MaxCalls,      \* bound on the calls
  MaxScans,      \* bound on the catch-up scans
  MaxTimeouts    \* bound on the joins that time out

ASSUME Universe ==
  /\ Nil \notin Path \cup Root /\ RootOf \in [Path -> Root]
  /\ Calls \subseteq {"add", "remove", "rescan", "reset"} /\ Bursts \in BOOLEAN

ASSUME Bounds ==
  /\ QMax \in Nat \ {0} /\ MaxChanges \in Nat /\ MaxRaw \in Nat /\ MaxCalls \in Nat
  /\ MaxScans \in Nat /\ MaxTimeouts \in Nat

Worker == 1..(MaxCalls + 1)
ScanId == 1..MaxScans

VARIABLES
  ver,           \* the version of every file; 0 when it does not exist
  docs,          \* the version the index has of every file; 0 for no document
  changes,       \* the versions made so far
  roots,         \* settings.index.roots
  raw,           \* notifications the watchers have not handled
  watching,      \* the directories with a running watcher
  queue,         \* _queue
  scans,         \* for every scan thread: files to visit, file about to be queued
  started,       \* scan threads started so far
  running,       \* _running
  rpc,           \* where the RPC thread is, where stop() returns to, the root to purge
  booting,       \* the roots _boot_roots has still to boot
  spawned,       \* workers started so far: the latest is _worker_thread
  worker,        \* where every worker is, and the item it handles
  recent,        \* last_seen of every worker
  stale,         \* workers whose stores were deleted under them
  lost,          \* history: files whose latest event was dropped or handled in vain
  calls, timeouts

user    == <<ver, changes>>
feed    == <<raw, watching>>
control == <<roots, running, rpc, booting>>
threads == <<worker, recent, stale, spawned>>
scanner == <<scans, started>>
bounds  == <<calls, timeouts>>
vars    == <<user, docs, feed, queue, scanner, control, threads, lost, bounds>>

Stop == [change |-> "stop", path |-> Nil]
Item == [change : {"created", "modified", "deleted"}, path : Path]
None == [change |-> "none", path |-> Nil]

Under(r) == {p \in Path : RootOf[p] = r}

LockedBug == rpc.at \in {"put", "join", "boot", "scan"}

(* stop() holds the lock until its None is in the queue, start() until the *)
(* roots are booted.                                                       *)
Locked == rpc.at \in {"put", "boot", "scan"}

Full == Len(queue) >= QMax

Alive == {w \in Worker : worker[w].at \notin {"none", "done"}}

-----------------------------------------------------------------------------
(* Files and watchers.                                                     *)

(* The OS notifies the watcher of the directory, if it runs.               *)
Notify(change, p) ==
  raw' = IF RootOf[p] \in watching
         THEN Append(raw, [change |-> change, path |-> p]) ELSE raw

Change(p) == /\ changes < MaxChanges /\ Len(raw) < MaxRaw
             /\ changes' = changes + 1 /\ lost' = lost \ {p}
             /\ UNCHANGED <<docs, watching, queue, scanner, control, threads, bounds>>

Write(p) ==
  /\ Change(p)
  /\ ver' = [ver EXCEPT ![p] = changes + 1]
  /\ Notify(IF ver[p] = 0 THEN "created" ELSE "modified", p)

Remove(p) ==
  /\ ver[p] # 0 /\ Change(p)
  /\ ver' = [ver EXCEPT ![p] = 0]
  /\ Notify("deleted", p)

(* _enqueue: an item that finds the queue full for a second is dropped and *)
(* counted, which takes the lock.                                          *)
Enqueue(item) ==
  IF Full THEN ~Locked /\ lost' = lost \cup {item.path} /\ UNCHANGED queue
          ELSE queue' = Append(queue, item) /\ UNCHANGED lost

(* A watcher handles a notification.                                       *)
Emit ==
  /\ raw # <<>>
  /\ raw' = Tail(raw)
  /\ IF Head(raw).change = "deleted" \/ ver[Head(raw).path] # 0
     THEN Enqueue(Head(raw))
     ELSE UNCHANGED <<queue, lost>>
  /\ UNCHANGED <<user, docs, watching, scanner, control, threads, bounds>>

-----------------------------------------------------------------------------
(* The catch-up scans.                                                     *)

NewScan(S) == started < MaxScans /\ started' = started + 1
              /\ scans' = [scans EXCEPT ![started + 1] = [todo |-> S, rec |-> Nil]]

(* A scan stats the next file and asks whether the root is still there.    *)
Visit(s, p) ==
  /\ p \in scans[s].todo /\ scans[s].rec = Nil
  /\ scans' = [scans EXCEPT ![s] =
       IF ver[p] = 0 THEN [todo |-> @.todo \ {p}, rec |-> Nil]
       ELSE IF RootOf[p] \in roots THEN [todo |-> @.todo \ {p}, rec |-> p]
       ELSE [todo |-> {}, rec |-> Nil]]
  /\ UNCHANGED <<user, docs, feed, queue, started, control, threads, lost, bounds>>

(* ... and queues it.                                                      *)
Offer(s) ==
  /\ scans[s].rec # Nil
  /\ Enqueue([change |-> "created", path |-> scans[s].rec])
  /\ scans' = [scans EXCEPT ![s].rec = Nil]
  /\ UNCHANGED <<user, docs, feed, started, control, threads, bounds>>

-----------------------------------------------------------------------------
(* The RPC thread.                                                         *)

rest == <<user, docs, raw, queue, scanner, threads, lost>>

Call(name) == /\ rpc.at = "idle" /\ name \in Calls
              /\ calls < MaxCalls /\ calls' = calls + 1

(* add_root saves the settings and refreshes the daemon.                   *)
AddRoot(r) ==
  /\ Call("add") /\ r \notin roots
  /\ roots' = roots \cup {r}
  /\ rpc' = [at |-> "stop", back |-> "start", purge |-> Nil]
  /\ UNCHANGED <<rest, watching, running, booting, timeouts>>

(* remove_root does too, and purges the documents of the root afterwards.  *)
RemoveRoot(r) ==
  /\ Call("remove") /\ r \in roots
  /\ roots' = roots \ {r}
  /\ rpc' = [at |-> "stop", back |-> "start", purge |-> r]
  /\ UNCHANGED <<rest, watching, running, booting, timeouts>>

(* index.reset stops the daemon, deletes the index and starts it again.    *)
Reset ==
  /\ Call("reset")
  /\ rpc' = [at |-> "stop", back |-> "wipe", purge |-> Nil]
  /\ UNCHANGED <<rest, watching, roots, running, booting, timeouts>>

(* index.rescan leaves worker and watchers alone.                          *)
Rescan(r) ==
  /\ Call("rescan") /\ r \in roots
  /\ NewScan(Under(r))
  /\ UNCHANGED <<user, docs, feed, queue, control, threads, lost, timeouts>>

(* stop(): the observers end; a handler that runs is waited for, so what it *)
(* emits comes before, and the other notifications are gone.               *)
StopDaemon ==
  /\ rpc.at = "stop"
  /\ IF running
     THEN /\ running' = FALSE /\ watching' = {} /\ rpc' = [rpc EXCEPT !.at = "put"]
          /\ raw' = <<>>
     ELSE rpc' = [rpc EXCEPT !.at = rpc.back] /\ UNCHANGED <<running, feed>>
  /\ UNCHANGED <<user, docs, queue, scanner, roots, booting, threads, lost, bounds>>

PutNone ==
  /\ rpc.at = "put" /\ ~Full
  /\ queue' = Append(queue, Stop)
  /\ rpc' = [rpc EXCEPT !.at = "join"]
  /\ UNCHANGED <<user, docs, feed, scanner, roots, running, booting, threads, lost, bounds>>

JoinBug ==
  /\ rpc.at = "join"
  /\ rpc' = [rpc EXCEPT !.at = rpc.back]
  /\ UNCHANGED <<rest, feed, roots, running, booting, bounds>>

(* join(timeout=5): the worker has ended, or five seconds have passed.     *)
Join ==
  /\ rpc.at = "join"
  /\ IF spawned \in Alive THEN timeouts < MaxTimeouts /\ timeouts' = timeouts + 1
                          ELSE UNCHANGED timeouts
  /\ rpc' = [rpc EXCEPT !.at = rpc.back]
  /\ UNCHANGED <<rest, feed, roots, running, booting, calls>>

(* _reset_index_dir; a worker that still runs keeps its deleted files open. *)
Wipe ==
  /\ rpc.at = "wipe"
  /\ docs' = [p \in Path |-> 0]
  /\ stale' = stale \cup Alive
  /\ rpc' = [rpc EXCEPT !.at = "start"]
  /\ UNCHANGED <<user, feed, queue, scanner, roots, running, booting, worker, recent,
                 spawned, lost, bounds>>

(* start(): a worker, then _boot_roots.                                    *)
StartDaemon ==
  /\ rpc.at = "start" /\ ~running
  /\ running' = TRUE
  /\ spawned' = spawned + 1
  /\ worker' = [worker EXCEPT ![spawned + 1] = [at |-> "top", item |-> None]]
  /\ booting' = roots
  /\ rpc' = [rpc EXCEPT !.at = "boot"]
  /\ UNCHANGED <<user, docs, feed, queue, scanner, roots, recent, stale, lost, bounds>>

(* The watcher of a root starts before its catch-up scan ...               *)
BootWatch(r) ==
  /\ rpc.at = "boot" /\ r \in booting
  /\ watching' = watching \cup {r}
  /\ rpc' = [rpc EXCEPT !.at = "scan"]
  /\ UNCHANGED <<rest, roots, running, booting, bounds>>

BootScanBug(r) ==
  /\ rpc.at = "scan" /\ r \in booting \cap watching
  /\ booting' = booting \ {r}
  /\ rpc' = [rpc EXCEPT !.at = "boot"]
  /\ UNCHANGED <<rest, watching, roots, running, bounds>>

(* ... which covers what the watcher has missed.                           *)
BootScan(r) ==
  /\ rpc.at = "scan" /\ r \in booting \cap watching
  /\ NewScan(Under(r))
  /\ booting' = booting \ {r}
  /\ rpc' = [rpc EXCEPT !.at = "boot"]
  /\ UNCHANGED <<user, docs, feed, queue, threads, roots, running, lost, bounds>>

Booted ==
  /\ rpc.at = "boot" /\ booting = {}
  /\ rpc' = [rpc EXCEPT !.at = IF rpc.purge = Nil THEN "idle" ELSE "purge"]
  /\ UNCHANGED <<rest, watching, roots, running, booting, bounds>>

(* _purge_root_content.                                                    *)
Purge ==
  /\ rpc.at = "purge"
  /\ docs' = [p \in Path |-> IF RootOf[p] = rpc.purge THEN 0 ELSE docs[p]]
  /\ rpc' = [at |-> "idle", back |-> "start", purge |-> Nil]
  /\ UNCHANGED <<user, feed, queue, scanner, roots, running, booting, threads, lost, bounds>>

Rpc ==
  \/ \E r \in Root : AddRoot(r) \/ RemoveRoot(r) \/ Rescan(r)
  \/ Reset

(* A call that has begun goes on.                                          *)
RpcStep ==
  \/ StopDaemon \/ PutNone \/ Join \/ Wipe \/ StartDaemon
  \/ \E r \in Root : BootWatch(r) \/ BootScan(r)
  \/ Booted \/ Purge

-----------------------------------------------------------------------------
(* The workers.                                                            *)

world == <<user, docs, feed, queue, scanner, control>>

Go(w, label) == worker' = [worker EXCEPT ![w].at = label]

(* The thread ends, and what was its own goes with it.                     *)
Exit(w) == /\ Go(w, "done")
           /\ recent' = [recent EXCEPT ![w] = {}] /\ stale' = stale \ {w}

(* while self._running                                                     *)
Check(w) ==
  /\ worker[w].at = "top"
  /\ IF running THEN Go(w, "get") /\ UNCHANGED <<recent, stale>> ELSE Exit(w)
  /\ UNCHANGED <<world, spawned, lost, bounds>>

(* The half second of _queue.get is over; it matters when _running is off. *)
Empty(w) ==
  /\ worker[w].at = "get" /\ queue = <<>> /\ ~running
  /\ Go(w, "top")
  /\ UNCHANGED <<world, recent, stale, spawned, lost, bounds>>

(* None ends the worker, whichever stop() has put it there.                *)
End(w) ==
  /\ worker[w].at = "get" /\ queue # <<>> /\ Head(queue) = Stop
  /\ queue' = Tail(queue)
  /\ Exit(w)
  /\ UNCHANGED <<user, docs, feed, scanner, control, spawned, lost, bounds>>

(* A modification within 400 ms of the last one that was handled.          *)
Debounce(w) ==
  /\ worker[w].at = "get" /\ queue # <<>> /\ Bursts
  /\ Head(queue).change = "modified" /\ Head(queue).path \in recent[w]
  /\ queue' = Tail(queue)
  /\ lost' = lost \cup {Head(queue).path}
  /\ Go(w, "top")
  /\ UNCHANGED <<user, docs, feed, scanner, control, recent, stale, spawned, bounds>>

GetBug(w) ==
  /\ worker[w].at = "get" /\ queue # <<>>
  /\ queue' = Tail(queue)
  /\ worker' = [worker EXCEPT ![w] = [at |-> "index", item |-> Head(queue)]]
  /\ UNCHANGED <<user, docs, feed, scanner, control, recent, stale, spawned, lost, bounds>>

Get(w) ==
  /\ worker[w].at = "get" /\ queue # <<>> /\ Head(queue) # Stop
  /\ queue' = Tail(queue)
  /\ worker' = [worker EXCEPT ![w] = [at |-> "index", item |-> Head(queue)]]
  /\ recent' = IF Head(queue).change = "modified"
               THEN [recent EXCEPT ![w] = @ \cup {Head(queue).path}] ELSE recent
  /\ UNCHANGED <<user, docs, feed, scanner, control, stale, spawned, lost, bounds>>

(* What index_file does for an item, in the index the worker has open.     *)
Indexed(w, item) ==
  /\ w \notin stale
  /\ docs' = IF item.change = "deleted" THEN [docs EXCEPT ![item.path] = 0]
             ELSE IF ver[item.path] = 0 THEN docs
             ELSE [docs EXCEPT ![item.path] = ver[item.path]]
  /\ UNCHANGED lost

(* It raises, or the files it writes to are deleted ones.                  *)
InVain(item) == lost' = lost \cup {item.path} /\ UNCHANGED docs

Index(w) ==
  /\ worker[w].at = "index"
  /\ Indexed(w, worker[w].item) \/ InVain(worker[w].item)
  /\ worker' = [worker EXCEPT ![w] = [at |-> "stats", item |-> None]]
  /\ UNCHANGED <<user, feed, queue, scanner, control, recent, stale, spawned, bounds>>

(* The statistics take the lock.                                           *)
Stats(w) ==
  /\ worker[w].at = "stats" /\ ~Locked
  /\ Go(w, "top")
  /\ UNCHANGED <<world, recent, stale, spawned, lost, bounds>>

WorkerStep(w) == \/ Check(w) \/ Empty(w) \/ End(w) \/ Debounce(w) \/ Get(w)
                 \/ Index(w) \/ Stats(w)

ScanStep(s) == Offer(s) \/ \E p \in Path : Visit(s, p)

-----------------------------------------------------------------------------

(* run_stdio starts the daemon of a fresh index.                           *)
Init ==
  /\ ver \in [Path -> {0, 1}] /\ changes = 1
  /\ docs = [p \in Path |-> 0] /\ lost = {}
  /\ roots \in SUBSET Root
  /\ raw = <<>> /\ watching = {} /\ queue = <<>>
  /\ scans = [s \in ScanId |-> [todo |-> {}, rec |-> Nil]] /\ started = 0
  /\ running = FALSE /\ booting = {}
  /\ rpc = [at |-> "start", back |-> "start", purge |-> Nil]
  /\ spawned = 0 /\ worker = [w \in Worker |-> [at |-> "none", item |-> None]]
  /\ recent = [w \in Worker |-> {}] /\ stale = {}
  /\ calls = 0 /\ timeouts = 0

(* What the threads of the process do by themselves.                       *)
System == \/ Emit \/ \E s \in ScanId : ScanStep(s)
          \/ RpcStep \/ \E w \in Worker : WorkerStep(w)

Next ==
  \/ \E p \in Path : Write(p) \/ Remove(p)
  \/ Rpc \/ System

(* Every thread that can run does; nobody promises a change or a call.     *)
Fairness ==
  /\ WF_vars(Emit) /\ \A s \in ScanId : WF_vars(ScanStep(s))
  /\ WF_vars(RpcStep) /\ \A w \in Worker : WF_vars(WorkerStep(w))

Spec == Init /\ [][Next]_vars

FairSpec == Spec /\ Fairness

-----------------------------------------------------------------------------
(* Properties.                                                             *)

TypeOK ==
  /\ ver \in [Path -> Nat] /\ docs \in [Path -> Nat] /\ changes \in Nat
  /\ roots \subseteq Root /\ watching \subseteq Root /\ booting \subseteq Root
  /\ raw \in Seq(Item) /\ queue \in Seq(Item \cup {Stop})
  /\ scans \in [ScanId -> [todo : SUBSET Path, rec : Path \cup {Nil}]]
  /\ started \in 0..MaxScans /\ running \in BOOLEAN
  /\ rpc \in [at : {"idle", "stop", "put", "join", "wipe", "start", "boot", "scan", "purge"},
              back : {"start", "wipe"}, purge : Root \cup {Nil}]
  /\ spawned \in 0..(MaxCalls + 1)
  /\ worker \in [Worker -> [at : {"none", "top", "get", "index", "stats", "done"},
                            item : Item \cup {None}]]
  /\ recent \in [Worker -> SUBSET Path] /\ stale \subseteq Worker /\ lost \subseteq Path
  /\ calls \in Nat /\ timeouts \in Nat

(* Something will still look at the file at p.                             *)
Pending(p) ==
  \/ \E i \in DOMAIN raw : raw[i].path = p
  \/ \E i \in DOMAIN queue : queue[i].path = p
  \/ \E s \in ScanId : p \in scans[s].todo \/ scans[s].rec = p
  \/ \E w \in Worker : worker[w].at = "index" /\ worker[w].item.path = p

(* No call of the RPC thread, however it interleaves with the threads of   *)
(* the daemon, makes the daemon forget a file of a registered root: the    *)
(* index has the version the file has, or something will look at it, or    *)
(* its latest event was dropped (full queue, debounce, error, reset).      *)
NothingForgotten ==
  running /\ rpc.at \in {"idle", "purge"} =>
    \A p \in Path : ver[p] # 0 /\ RootOf[p] \in roots =>
      docs[p] = ver[p] \/ p \in lost \/ Pending(p)

(* "A single background worker thread": there is never a worker too many,  *)
(* but for the joins that timed out.                                       *)
OneWorker ==
  Cardinality(Alive) <= timeouts + IF rpc.at \in {"wipe", "start"} THEN 0 ELSE 1

(* "A single background worker thread drains the queue": a daemon that is  *)
(* running has a worker.                                                   *)
RunningHasWorker == running => Alive # {}

(* "so it starts watching this root right away": a root that is added gets *)
(* its watcher, unless it is removed again.                                *)
AddedRootIsWatched ==
  \A r \in Root : r \in roots ~> r \in watching \/ r \notin roots

(* Nothing is under way that a thread could still do (a daemon whose       *)
(* workers have all ended leaves its queue as it is).                      *)
Settled == /\ raw = <<>> /\ rpc.at = "idle" /\ \A s \in ScanId : scans[s].rec = Nil
           /\ \A s \in ScanId : scans[s].todo = {}
           /\ queue = <<>> \/ Alive = {}

(* stop() waits under the lock for room in the queue, and every worker     *)
(* that could make room waits for the lock.                                *)
Wedged == rpc.at = "put" /\ Full /\ \A w \in Alive : worker[w].at = "stats"

(* Who waits: for a call, or for what a step of another thread would give  *)
(* it.  Blocked is the drop of an item, which takes the lock, and a worker *)
(* that polls an empty queue of a running daemon only polls again.         *)
Blocked == Full /\ Locked

RpcWaits == \/ rpc.at = "idle"
            \/ rpc.at = "put" /\ Full
            \/ rpc.at = "join" /\ spawned \in Alive

WatchersWait == raw # <<>> => Blocked

ScanWaits(s) == IF scans[s].rec = Nil THEN scans[s].todo = {} ELSE Blocked

WorkerWaits(w) == \/ worker[w].at \in {"none", "done"}
                  \/ worker[w].at = "stats" /\ Locked
                  \/ worker[w].at = "get" /\ queue = <<>> /\ running

(* The threads of the daemon never all wait for one another, but for the   *)
(* one way above: some thread goes on until there is nothing left to do.   *)
NeverStuck ==
  /\ RpcWaits /\ WatchersWait
  /\ \A s \in ScanId : ScanWaits(s)
  /\ \A w \in Worker : WorkerWaits(w)
  => Settled \/ Wedged
=============================================================================
