------------------------- MODULE IndexerDaemonProofs -------------------------
(***************************************************************************)
(* Theorems about the indexer daemon, for every set of files and           *)
(* directories, every size of the queue and every number of calls, scans   *)
(* and joins that time out.                                                *)
(***************************************************************************)
EXTENDS IndexerDaemon, Counting

(***************************************************************************)
(* The invariants                                                          *)
(***************************************************************************)
(* Every start() answers a call, but for the one of the launch: there are  *)
(* workers enough in Worker.                                               *)
StartsCounted ==
  /\ calls <= MaxCalls
  /\ rpc.at \in {"stop", "put", "join", "wipe", "start"} => spawned <= calls
  /\ spawned <= calls + 1

(* A worker holds an item while index_file handles it.                     *)
Handling == \A w \in Worker : worker[w].at = "index" <=> worker[w].item # None

TypeInv == TypeOK /\ StartsCounted /\ Handling

(* _running is off from the moment stop() ends the observers until start() *)
(* has made its worker, and no worker is newer than _worker_thread.        *)
RunsOrStops == running = (rpc.at \notin {"put", "join", "wipe", "start"})
LatestLast == \A w \in Worker : w > spawned => worker[w].at = "none"

(* A worker that is not the latest was given up by a join that timed out,  *)
(* and so was the latest one once its stop() has returned.                 *)
GivenUp ==
  /\ Cardinality(Alive \ {spawned}) <= timeouts
  /\ rpc.at \in {"wipe", "start"} => Cardinality(Alive) <= timeouts

WorkersInv == TypeInv /\ RunsOrStops /\ LatestLast /\ GivenUp

(* For every worker too many a None is still in the queue: whoever takes   *)
(* an item behind the last None is the only worker there is.               *)
EndsWait ==
  /\ Cardinality(Alive) <= Count(queue, Stop) + 1
  /\ rpc.at \in {"join", "wipe", "start"} => Cardinality(Alive) <= Count(queue, Stop)

EndsInv == WorkersInv /\ EndsWait

(* Notifications come from directories that are watched, and the latest of *)
(* a file that exists is not its deletion.                                 *)
Deletion(p) == [change |-> "deleted", path |-> p]
RawWatched == \A i \in 1..Len(raw) : RootOf[raw[i].path] \in watching
RawLast ==
  \A i \in 1..Len(raw) : raw[i].change = "deleted" /\ ver[raw[i].path] # 0 =>
    \E j \in 1..Len(raw) : j > i /\ raw[j].path = raw[i].path /\ raw[j].change # "deleted"
RawInv == TypeInv /\ RawWatched /\ RawLast

(* A scan walks one root, and those to come have nothing.                  *)
OneRoot ==
  \A s \in ScanId :
    /\ \A p, q \in scans[s].todo : RootOf[p] = RootOf[q]
    /\ s > started => scans[s] = [todo |-> {}, rec |-> Nil]

(* The file at p is about to be queued, or it is queued behind the last    *)
(* None and behind every deletion of it.                                   *)
ComingFrom(p, i) ==
  /\ queue[i].path = p /\ queue[i].change # "deleted"
  /\ \A j \in 1..Len(queue) : j > i => queue[j] # Stop /\ queue[j] # Deletion(p)
Coming(p) ==
  \/ \E i \in 1..Len(raw) : raw[i].path = p
  \/ \E s \in ScanId : p \in scans[s].todo \/ scans[s].rec = p
  \/ \E i \in 1..Len(queue) : ComingFrom(p, i)

(* Nothing in the queue or in the hands of a worker will delete its        *)
(* document, and it is right or about to be.                               *)
NoDeletion(p) ==
  /\ \A i \in 1..Len(queue) : queue[i] # Deletion(p)
  /\ \A w \in Worker : worker[w].item # Deletion(p)
Held(p) == \E w \in Worker : worker[w].at = "index" /\ worker[w].item.path = p
Kept(p) == NoDeletion(p) /\ (docs[p] = ver[p] \/ Held(p))

Safe(p) == p \in lost \/ Coming(p) \/ Kept(p)

(* The registered roots that start() has booted: all of them, when the RPC *)
(* thread is idle.                                                         *)
Up(r) == rpc.at \in {"idle", "purge", "boot", "scan"} /\ r \in roots \ booting

Remembered ==
  /\ rpc.at \in {"idle", "purge"} => booting = {}
  /\ rpc.purge # Nil => rpc.purge \notin roots
  /\ \A p \in Path : Up(RootOf[p]) => RootOf[p] \in watching /\ (ver[p] # 0 => Safe(p))

ForgetInv == EndsInv /\ RawInv /\ OneRoot /\ Remembered
-----------------------------------------------------------------------------
(* Type correctness.                                                       *)

LEMMA Kinds ==
  /\ None \notin Item /\ Stop \notin Item
  /\ \A i \in Item : i.path \in Path /\ i.path # Nil
  /\ Stop.path = Nil
BY Universe DEF None, Stop, Item

LEMMA TypeInit == Init => TypeInv
<1> SUFFICES ASSUME Init PROVE TypeInv
  OBVIOUS
<1> USE Universe, Bounds DEF Init
<1>1. TypeOK
  <2>1. ver \in [Path -> Nat] /\ docs \in [Path -> Nat] /\ changes \in Nat
    OBVIOUS
  <2>2. raw \in Seq(Item) /\ queue \in Seq(Item \cup {Stop})
    OBVIOUS
  <2>3. scans \in [ScanId -> [todo : SUBSET Path, rec : Path \cup {Nil}]] /\ started \in 0..MaxScans
    OBVIOUS
  <2>4. rpc \in [at : {"idle", "stop", "put", "join", "wipe", "start", "boot", "scan", "purge"},
                 back : {"start", "wipe"}, purge : Root \cup {Nil}]
    OBVIOUS
  <2>5. worker \in [Worker -> [at : {"none", "top", "get", "index", "stats", "done"},
                               item : Item \cup {None}]]
    OBVIOUS
  <2>6. spawned \in 0..(MaxCalls + 1) /\ recent \in [Worker -> SUBSET Path] /\ stale \subseteq Worker
    OBVIOUS
  <2> QED BY <2>1, <2>2, <2>3, <2>4, <2>5, <2>6 DEF TypeOK
<1>2. StartsCounted
  BY DEF StartsCounted
<1>3. Handling
  BY DEF Handling
<1> QED BY <1>1, <1>2, <1>3 DEF TypeInv

LEMMA EnqueueType ==
  ASSUME TypeInv, NEW item \in Item, Enqueue(item)
  PROVE  queue' \in Seq(Item \cup {Stop}) /\ lost' \subseteq Path
<1>1. queue \in Seq(Item \cup {Stop}) /\ lost \subseteq Path /\ item.path \in Path
  BY Kinds DEF TypeInv, TypeOK
<1>2. CASE Full
  BY <1>1, <1>2 DEF Enqueue
<1>3. CASE ~Full
  BY <1>1, <1>3 DEF Enqueue
<1> QED BY <1>2, <1>3

LEMMA ChangeType ==
  ASSUME TypeInv, NEW p \in Path, Write(p) \/ Remove(p)
  PROVE  TypeInv'
<1> USE Universe, Bounds DEF TypeInv, TypeOK, user, feed, control, threads, scanner, bounds
<1>1. raw' \in Seq(Item)
  <2>1. raw' = raw \/ \E c \in {"created", "modified", "deleted"} :
          raw' = Append(raw, [change |-> c, path |-> p])
    BY DEF Write, Remove, Notify
  <2>2. ASSUME NEW c \in {"created", "modified", "deleted"},
               raw' = Append(raw, [change |-> c, path |-> p])
        PROVE  raw' \in Seq(Item)
    <3>1. [change |-> c, path |-> p] \in Item
      BY DEF Item
    <3> QED BY <2>2, <3>1
  <2> QED BY <2>1, <2>2
<1>2. ver' \in [Path -> Nat] /\ changes' \in Nat /\ lost' \subseteq Path
  <2>1. changes' = changes + 1 /\ lost' = lost \ {p}
    BY DEF Write, Remove, Change
  <2>2. \E v \in {0, changes + 1} : ver' = [ver EXCEPT ![p] = v]
    BY DEF Write, Remove
  <2> QED BY <2>1, <2>2
<1>3. UNCHANGED <<docs, watching, queue, scanner, control, threads, bounds>>
  BY DEF Write, Remove, Change
<1> QED BY <1>1, <1>2, <1>3 DEF StartsCounted, Handling

LEMMA EmitType == TypeInv /\ Emit => TypeInv'
<1> SUFFICES ASSUME TypeInv, Emit PROVE TypeInv'
  OBVIOUS
<1> USE Universe, Bounds DEF user, feed, control, threads, scanner, bounds
<1>1. raw' \in Seq(Item) /\ Head(raw) \in Item
  BY DEF Emit, TypeInv, TypeOK
<1>2. queue' \in Seq(Item \cup {Stop}) /\ lost' \subseteq Path
  BY <1>1, EnqueueType DEF Emit, TypeInv, TypeOK
<1>3. UNCHANGED <<user, docs, watching, scanner, control, threads, bounds>>
  BY DEF Emit
<1> QED BY <1>1, <1>2, <1>3 DEF TypeInv, TypeOK, StartsCounted, Handling

LEMMA NewScanType ==
  ASSUME TypeInv, NEW S \in SUBSET Path, NewScan(S)
  PROVE  /\ scans' \in [ScanId -> [todo : SUBSET Path, rec : Path \cup {Nil}]]
         /\ started' \in 0..MaxScans /\ started' = started + 1 /\ started' \in ScanId
BY Bounds DEF TypeInv, TypeOK, NewScan, ScanId

LEMMA ScanType ==
  ASSUME TypeInv, NEW s \in ScanId, ScanStep(s)
  PROVE  TypeInv'
<1> USE Universe, Bounds DEF user, feed, control, threads, scanner, bounds
<1>1. CASE Offer(s)
  <2>1. [change |-> "created", path |-> scans[s].rec] \in Item
    BY <1>1 DEF Offer, TypeInv, TypeOK, Item
  <2>2. queue' \in Seq(Item \cup {Stop}) /\ lost' \subseteq Path
    BY <1>1, <2>1, EnqueueType DEF Offer
  <2>3. scans' \in [ScanId -> [todo : SUBSET Path, rec : Path \cup {Nil}]]
    <3>1. scans \in [ScanId -> [todo : SUBSET Path, rec : Path \cup {Nil}]]
      BY DEF TypeInv, TypeOK
    <3>2. scans' = [scans EXCEPT ![s].rec = Nil]
      BY <1>1 DEF Offer
    <3> QED BY <3>1, <3>2
  <2> QED BY <1>1, <2>2, <2>3 DEF Offer, TypeInv, TypeOK, StartsCounted, Handling
<1>2. ASSUME NEW p \in Path, Visit(s, p) PROVE TypeInv'
  <2>1. scans' \in [ScanId -> [todo : SUBSET Path, rec : Path \cup {Nil}]]
    BY <1>2 DEF Visit, TypeInv, TypeOK
  <2> QED BY <1>2, <2>1 DEF Visit, TypeInv, TypeOK, StartsCounted, Handling
<1> QED BY <1>1, <1>2 DEF ScanStep

LEMMA RpcType == TypeInv /\ (Rpc \/ RpcStep) => TypeInv'
<1> SUFFICES ASSUME TypeInv, Rpc \/ RpcStep PROVE TypeInv'
  OBVIOUS
<1> USE Universe, Bounds DEF user, feed, control, threads, scanner, bounds, rest,
        TypeInv, TypeOK, StartsCounted, Handling
<1>1. ASSUME NEW r \in Root, AddRoot(r) \/ RemoveRoot(r) PROVE TypeInv'
  BY SMTT(30), <1>1 DEF AddRoot, RemoveRoot, Call
<1>2. ASSUME NEW r \in Root, Rescan(r) PROVE TypeInv'
  <2>1. NewScan(Under(r)) /\ Under(r) \in SUBSET Path
    BY <1>2 DEF Rescan, Under
  <2>2. /\ scans' \in [ScanId -> [todo : SUBSET Path, rec : Path \cup {Nil}]]
        /\ started' \in 0..MaxScans
    BY <2>1, NewScanType
  <2> QED BY <1>2, <2>2 DEF Rescan, Call
<1>3. CASE Reset
  BY <1>3 DEF Reset, Call
<1>4. CASE StopDaemon
  <2>1. raw' \in Seq(Item) /\ watching' \subseteq Root /\ running' \in BOOLEAN
    <3>1. CASE running
      <4>1. raw' = <<>> /\ watching' = {} /\ running' = FALSE
        BY <1>4, <3>1 DEF StopDaemon
      <4>2. raw' \in Seq(Item) /\ watching' \subseteq Root
        BY <4>1
      <4>3. running' \in BOOLEAN
        BY <4>1, Zenon
      <4> QED BY <4>2, <4>3
    <3>2. CASE ~running
      BY <1>4, <3>2 DEF StopDaemon
    <3> QED BY <3>1, <3>2
  <2>2. /\ rpc' \in [at : {"idle", "stop", "put", "join", "wipe", "start", "boot", "scan", "purge"},
                      back : {"start", "wipe"}, purge : Root \cup {Nil}]
        /\ rpc'.at \in {"put", "start", "wipe"} /\ rpc.at = "stop"
    BY ZenonT(60), <1>4 DEF StopDaemon
  <2> QED BY <1>4, <2>1, <2>2 DEF StopDaemon
<1>5. CASE PutNone
  <2>1. queue' \in Seq(Item \cup {Stop})
    BY <1>5 DEF PutNone
  <2>2. /\ rpc' \in [at : {"idle", "stop", "put", "join", "wipe", "start", "boot", "scan", "purge"},
                      back : {"start", "wipe"}, purge : Root \cup {Nil}]
        /\ rpc'.at = "join" /\ rpc.at = "put"
    BY <1>5 DEF PutNone
  <2> QED BY <1>5, <2>1, <2>2 DEF PutNone
<1>6. CASE Join
  <2>1. /\ rpc' \in [at : {"idle", "stop", "put", "join", "wipe", "start", "boot", "scan", "purge"},
                      back : {"start", "wipe"}, purge : Root \cup {Nil}]
        /\ rpc'.at \in {"start", "wipe"} /\ rpc.at = "join"
    BY <1>6 DEF Join
  <2>2. timeouts' \in Nat
    BY SMTT(30), <1>6 DEF Join
  <2> QED BY <1>6, <2>1, <2>2 DEF Join
<1>7. CASE Wipe
  <2>1. docs' \in [Path -> Nat] /\ stale' \subseteq Worker
    BY <1>7 DEF Wipe, Alive
  <2> QED BY <1>7, <2>1 DEF Wipe
<1>8. CASE StartDaemon
  <2>1. spawned + 1 \in Worker
    BY <1>8 DEF StartDaemon, Worker
  <2>2. worker' \in [Worker -> [at : {"none", "top", "get", "index", "stats", "done"},
                                item : Item \cup {None}]]
    BY <1>8, <2>1 DEF StartDaemon
  <2>3. /\ rpc' \in [at : {"idle", "stop", "put", "join", "wipe", "start", "boot", "scan", "purge"},
                      back : {"start", "wipe"}, purge : Root \cup {Nil}]
        /\ rpc'.at = "boot" /\ rpc.at = "start"
    BY <1>8 DEF StartDaemon
  <2>4. \A w \in Worker : worker'[w].at = "index" <=> worker'[w].item # None
    BY <1>8, <2>1 DEF StartDaemon
  <2> QED BY SMTT(30), <1>8, <2>1, <2>2, <2>3, <2>4 DEF StartDaemon, Worker
<1>9. ASSUME NEW r \in Root, BootWatch(r) PROVE TypeInv'
  BY <1>9 DEF BootWatch
<1>10. ASSUME NEW r \in Root, BootScan(r) PROVE TypeInv'
  <2>1. NewScan(Under(r)) /\ Under(r) \in SUBSET Path
    BY <1>10 DEF BootScan, Under
  <2>2. /\ scans' \in [ScanId -> [todo : SUBSET Path, rec : Path \cup {Nil}]]
        /\ started' \in 0..MaxScans
    BY <2>1, NewScanType
  <2> QED BY <1>10, <2>2 DEF BootScan
<1>11. CASE Booted
  BY <1>11 DEF Booted
<1>12. CASE Purge
  <2>1. docs' \in [Path -> Nat]
    BY <1>12 DEF Purge
  <2> QED BY <1>12, <2>1 DEF Purge
<1> QED BY <1>1, <1>2, <1>3, <1>4, <1>5, <1>6, <1>7, <1>8, <1>9, <1>10, <1>11, <1>12
        DEF Rpc, RpcStep

LEMMA WorkerType ==
  ASSUME TypeInv, NEW w \in Worker, WorkerStep(w)
  PROVE  TypeInv'
<1> USE Universe, Bounds DEF user, feed, control, threads, scanner, bounds, world
<1>1. /\ worker' \in [Worker -> [at : {"none", "top", "get", "index", "stats", "done"},
                                 item : Item \cup {None}]]
      /\ queue' \in Seq(Item \cup {Stop})
  <2> DEFINE W == [at : {"none", "top", "get", "index", "stats", "done"}, item : Item \cup {None}]
  <2>1. worker \in [Worker -> W] /\ queue \in Seq(Item \cup {Stop})
    BY DEF TypeInv, TypeOK
  <2>2. CASE Get(w)
    <3>1. Head(queue) \in Item
      BY <2>1, <2>2 DEF Get
    <3>2. [at |-> "index", item |-> Head(queue)] \in W
      BY <3>1
    <3> QED BY <2>1, <2>2, <3>2 DEF Get
  <2>3. CASE Index(w)
    <3>1. [at |-> "stats", item |-> None] \in W
      OBVIOUS
    <3> QED BY <2>1, <2>3, <3>1 DEF Index
  <2>4. CASE ~Get(w) /\ ~Index(w)
    <3>1. PICK label \in {"top", "get", "done"} : worker' = [worker EXCEPT ![w].at = label]
      BY <2>4 DEF WorkerStep, Check, Empty, End, Debounce, Stats, Exit, Go
    <3>2. worker' \in [Worker -> W]
      BY <2>1, <3>1
    <3>3. queue' = queue \/ (queue # <<>> /\ queue' = Tail(queue))
      BY <2>4 DEF WorkerStep, Check, Empty, End, Debounce, Stats
    <3>4. queue' \in Seq(Item \cup {Stop})
      BY SMTT(30), <2>1, <3>3
    <3> QED BY <3>2, <3>4
  <2> QED BY <2>2, <2>3, <2>4
<1>2. recent' \in [Worker -> SUBSET Path] /\ stale' \subseteq Worker
  <2>1. CASE Get(w)
    <3>1. Head(queue) \in Item
      BY <2>1 DEF Get, TypeInv, TypeOK
    <3>2. Head(queue).path \in Path
      BY <3>1, Kinds
    <3> QED BY <2>1, <3>2 DEF Get, TypeInv, TypeOK
  <2>2. CASE ~Get(w)
    BY <2>2 DEF WorkerStep, Check, Empty, End, Debounce, Index, Stats, Exit, TypeInv, TypeOK
  <2> QED BY <2>1, <2>2
<1>3. lost' \subseteq Path /\ docs' \in [Path -> Nat]
  <2>1. CASE Index(w)
    <3>1. worker[w].item \in Item \cup {None}
      BY DEF TypeInv, TypeOK
    <3>4. worker[w].item \in Item
      BY <2>1, <3>1 DEF Index, TypeInv, Handling
    <3>2. ASSUME Indexed(w, worker[w].item) PROVE lost' \subseteq Path /\ docs' \in [Path -> Nat]
      BY <3>2 DEF Indexed, TypeInv, TypeOK
    <3>3. ASSUME InVain(worker[w].item) PROVE lost' \subseteq Path /\ docs' \in [Path -> Nat]
      BY <3>3, <3>4, Kinds DEF InVain, TypeInv, TypeOK
    <3> QED BY <2>1, <3>2, <3>3 DEF Index
  <2>2. CASE Debounce(w)
    <3>1. Head(queue) \in Item
      BY <2>2, Kinds DEF Debounce, TypeInv, TypeOK, Stop
    <3> QED BY <2>2, <3>1, Kinds DEF Debounce, TypeInv, TypeOK
  <2>3. CASE ~Index(w) /\ ~Debounce(w)
    BY <2>3 DEF WorkerStep, Check, Empty, End, Get, Stats, TypeInv, TypeOK
  <2> QED BY <2>1, <2>2, <2>3
<1>4. /\ UNCHANGED <<user, feed, scanner, control, bounds, spawned>>
  BY DEF WorkerStep, Check, Empty, End, Debounce, Get, Index, Stats
<1>5. Handling'
  <2>1. CASE Get(w)
    <3>1. Head(queue) # None
      BY <2>1, Kinds DEF Get, TypeInv, TypeOK, None, Stop
    <3> QED BY <2>1, <3>1 DEF Get, TypeInv, TypeOK, Handling
  <2>2. CASE Index(w)
    BY <2>2 DEF Index, TypeInv, TypeOK, Handling
  <2>3. CASE ~Get(w) /\ ~Index(w)
    <3>1. PICK label \in {"top", "get", "done"} : worker' = [worker EXCEPT ![w].at = label]
      BY <2>3 DEF WorkerStep, Check, Empty, End, Debounce, Stats, Exit, Go
    <3>2. worker[w].at # "index"
      BY <2>3 DEF WorkerStep, Check, Empty, End, Debounce, Stats
    <3> QED BY SMTT(30), <3>1, <3>2 DEF TypeInv, TypeOK, Handling
  <2> QED BY <2>1, <2>2, <2>3
<1> QED BY <1>1, <1>2, <1>3, <1>4, <1>5 DEF TypeInv, TypeOK, StartsCounted

LEMMA TypeNext == TypeInv /\ [Next]_vars => TypeInv'
<1> SUFFICES ASSUME TypeInv, [Next]_vars PROVE TypeInv'
  OBVIOUS
<1>1. CASE UNCHANGED vars
  BY <1>1 DEF TypeInv, TypeOK, StartsCounted, Handling, vars, user, feed, control, threads, scanner, bounds
<1>2. CASE Next
  BY <1>2, ChangeType, EmitType, ScanType, RpcType, WorkerType DEF Next, System
<1> QED BY <1>1, <1>2

(* The variables stay what they are: a version, a queue of changes and     *)
(* Nones, and at most as many workers as calls that restart the daemon.    *)
THEOREM TypeCorrect == Spec => []TypeOK
<1>1. TypeInv => TypeOK
  BY DEF TypeInv
<1> QED BY <1>1, TypeInit, TypeNext, PTL DEF Spec

-----------------------------------------------------------------------------
(* One worker.                                                             *)

LEMMA WorkersFinite == IsFiniteSet(Worker) /\ IsFiniteSet(Alive) /\ Alive \subseteq Worker
<1>1. IsFiniteSet(Worker)
  BY Bounds, FS_Interval DEF Worker
<1>2. Alive \subseteq Worker
  BY DEF Alive
<1> QED BY <1>1, <1>2, FS_Subset

(* A worker that takes a step lives, takes an item or a None from the      *)
(* queue at most, and may end; it must when it takes a None.               *)
LEMMA WorkerLife ==
  ASSUME TypeInv, NEW w \in Worker, WorkerStep(w)
  PROVE  /\ w \in Alive
         /\ Alive' = Alive \/ Alive' = Alive \ {w}
         /\ worker' \in [Worker -> [at : {"none", "top", "get", "index", "stats", "done"},
                                    item : Item \cup {None}]]
         /\ worker'[w].at # "none" /\ \A u \in Worker : u # w => worker'[u] = worker[u]
         /\ \/ queue' = queue
            \/ queue # <<>> /\ queue' = Tail(queue) /\ Head(queue) # Stop /\ worker[w].at = "get"
            \/ queue # <<>> /\ queue' = Tail(queue) /\ Head(queue) = Stop /\ Alive' = Alive \ {w}
         /\ UNCHANGED <<spawned, rpc, running, timeouts, roots, booting, watching, raw, ver, scans, started>>
<1> DEFINE W == [at : {"none", "top", "get", "index", "stats", "done"}, item : Item \cup {None}]
<1>1. worker \in [Worker -> W] /\ worker' \in [Worker -> W]
  <2>1. TypeInv'
    BY WorkerType
  <2> QED BY <2>1 DEF TypeInv, TypeOK
<1>2. worker[w].at \in {"top", "get", "index", "stats"}
  BY DEF WorkerStep, Check, Empty, End, Debounce, Get, Index, Stats
<1>3. w \in Alive
  BY <1>2 DEF Alive
<1>4. UNCHANGED <<spawned, rpc, running, timeouts, roots, booting, watching, raw, ver, scans, started>>
  BY DEF WorkerStep, Check, Empty, End, Debounce, Get, Index, Stats, world, control, bounds, feed,
         user, scanner
<1>5. PICK x \in W : x.at # "none" /\ worker' = [worker EXCEPT ![w] = x]
  <2>1. CASE Get(w) \/ Index(w)
    <3>1. worker' = [worker EXCEPT ![w] = worker'[w]] /\ worker'[w].at # "none"
      BY <1>1, <2>1 DEF Get, Index
    <3> QED BY <1>1, <3>1
  <2>2. CASE ~Get(w) /\ ~Index(w)
    <3>1. PICK label \in {"top", "get", "done"} : worker' = [worker EXCEPT ![w].at = label]
      BY <2>2 DEF WorkerStep, Check, Empty, End, Debounce, Stats, Exit, Go
    <3>2. worker' = [worker EXCEPT ![w] = worker'[w]] /\ worker'[w].at # "none"
      BY <1>1, <3>1
    <3> QED BY <1>1, <3>2
  <2> QED BY <2>1, <2>2
<1>6. \A u \in Worker : u # w => worker'[u] = worker[u]
  BY <1>1, <1>5
<1>7. worker'[w].at # "none"
  BY <1>1, <1>5
<1>8. Alive' = IF worker'[w].at = "done" THEN Alive \ {w} ELSE Alive
  BY <1>3, <1>6, <1>7 DEF Alive
<1>9. CASE End(w)
  <2>1. worker'[w].at = "done"
    BY <1>1, <1>9 DEF End, Exit, Go
  <2> QED BY <1>1, <1>3, <1>4, <1>6, <1>7, <1>8, <1>9, <2>1 DEF End
<1>10. CASE ~End(w)
  <2>1. \/ queue' = queue
        \/ queue # <<>> /\ queue' = Tail(queue) /\ Head(queue) # Stop /\ worker[w].at = "get"
    BY <1>10 DEF WorkerStep, Check, Empty, Debounce, Get, Index, Stats, world, Stop
  <2> QED BY <1>1, <1>3, <1>4, <1>6, <1>7, <1>8, <2>1
<1> QED BY <1>9, <1>10

(* Whatever is no step of a worker and no start leaves the workers alone,  *)
(* and only the RPC thread turns the daemon off and on.                    *)
LEMMA OthersLeaveWorkers ==
  ASSUME TypeInv, RunsOrStops, [Next]_vars,
         ~StartDaemon, ~Join, \A w \in Worker : ~WorkerStep(w)
  PROVE  /\ UNCHANGED <<worker, spawned, timeouts>> /\ RunsOrStops'
         /\ rpc'.at \in {"wipe", "start"} => rpc.at \in {"wipe", "start"}
<1> USE DEF user, feed, control, threads, scanner, bounds, rest
<1>1. UNCHANGED <<worker, spawned, timeouts>>
  BY DEF Next, Rpc, System, RpcStep, ScanStep, Write, Remove, Change, Emit, Visit, Offer, Call,
         AddRoot, RemoveRoot, Reset, Rescan, StopDaemon, PutNone, Wipe, BootWatch, BootScan, Booted,
         Purge, vars
<1>2. CASE UNCHANGED <<rpc, running>>
  BY <1>1, <1>2 DEF RunsOrStops
<1>3. CASE StopDaemon
  <2>1. rpc.at = "stop" /\ running
    BY <1>3 DEF StopDaemon, RunsOrStops
  <2>2. running' = FALSE /\ rpc'.at = "put"
    BY <1>3, <2>1 DEF StopDaemon, TypeInv, TypeOK
  <2> QED BY <1>1, <2>2 DEF RunsOrStops
<1>4. CASE ~StopDaemon /\ ~UNCHANGED <<rpc, running>>
  <2>1. /\ running' = running
        /\ \/ rpc.at = "idle" /\ rpc'.at = "stop"
           \/ rpc.at = "put" /\ rpc'.at = "join"
           \/ rpc.at = "wipe" /\ rpc'.at = "start"
           \/ rpc.at = "boot" /\ rpc'.at \in {"scan", "idle", "purge"}
           \/ rpc.at = "scan" /\ rpc'.at = "boot"
           \/ rpc.at = "purge" /\ rpc'.at = "idle"
    <3>1. \/ \E q \in Root : AddRoot(q) \/ RemoveRoot(q) \/ BootWatch(q) \/ BootScan(q)
          \/ Reset \/ PutNone \/ Wipe \/ Booted \/ Purge
      BY <1>4 DEF Next, Rpc, System, RpcStep, ScanStep, Write, Remove, Change, Emit, Visit, Offer,
           Rescan, vars
    <3>2. ASSUME NEW q \in Root, AddRoot(q) \/ RemoveRoot(q) \/ BootWatch(q) \/ BootScan(q)
          PROVE  \/ rpc.at = "idle" /\ rpc'.at = "stop" /\ running' = running
                 \/ rpc.at = "boot" /\ rpc'.at = "scan" /\ running' = running
                 \/ rpc.at = "scan" /\ rpc'.at = "boot" /\ running' = running
      BY <3>2 DEF AddRoot, RemoveRoot, BootWatch, BootScan, Call, TypeInv, TypeOK
    <3>3. CASE Reset \/ PutNone \/ Wipe \/ Booted \/ Purge
      BY <3>3 DEF Reset, PutNone, Wipe, Booted, Purge, Call, TypeInv, TypeOK
    <3> QED BY <3>1, <3>2, <3>3
  <2> QED BY <1>1, <2>1 DEF RunsOrStops
<1> QED BY <1>2, <1>3, <1>4

LEMMA WorkersInit == Init => WorkersInv
<1> SUFFICES ASSUME Init PROVE WorkersInv
  OBVIOUS
<1>1. Alive = {} /\ Alive \ {spawned} = {}
  BY DEF Init, Alive
<1>2. GivenUp
  BY <1>1, FS_EmptySet DEF GivenUp, Init
<1>3. RunsOrStops /\ LatestLast
  BY DEF Init, RunsOrStops, LatestLast
<1> QED BY <1>2, <1>3, TypeInit DEF WorkersInv

LEMMA WorkersNext == WorkersInv /\ [Next]_vars => WorkersInv'
<1> SUFFICES ASSUME WorkersInv, [Next]_vars PROVE WorkersInv'
  OBVIOUS
<1>1. TypeInv /\ TypeInv' /\ IsFiniteSet(Alive)
  BY TypeNext, WorkersFinite DEF WorkersInv
<1>2. timeouts \in Nat /\ spawned \in Nat
  BY <1>1 DEF TypeInv, TypeOK
<1>3. ASSUME NEW w \in Worker, WorkerStep(w) PROVE WorkersInv'
  <2>1. Alive' = Alive \/ Alive' = Alive \ {w}
    BY <1>1, <1>3, WorkerLife
  <2>2. UNCHANGED <<spawned, rpc, running, timeouts>>
    BY <1>1, <1>3, WorkerLife
  <2>3. Alive' \in SUBSET Alive /\ (Alive \ {spawned})' \in SUBSET (Alive \ {spawned})
    BY <2>1, <2>2
  <2>4. Cardinality(Alive') <= Cardinality(Alive)
    BY <1>1, <2>3, FS_Subset
  <2>5. IsFiniteSet(Alive \ {spawned})
    BY <1>1, FS_RemoveElement
  <2>6. Cardinality((Alive \ {spawned})') <= Cardinality(Alive \ {spawned})
    BY <2>3, <2>5, FS_Subset
  <2>7. /\ Cardinality(Alive) \in Nat /\ Cardinality(Alive') \in Nat
        /\ Cardinality(Alive \ {spawned}) \in Nat /\ Cardinality((Alive \ {spawned})') \in Nat
    BY <1>1, <2>3, <2>5, FS_Subset, FS_CardinalityType
  <2>8. GivenUp'
    BY <1>2, <2>2, <2>4, <2>6, <2>7 DEF GivenUp, WorkersInv
  <2>9. LatestLast'
    BY <1>1, <1>2, <1>3, <2>2, WorkerLife DEF LatestLast, WorkersInv, Alive
  <2> QED BY <1>1, <2>2, <2>8, <2>9 DEF WorkersInv, RunsOrStops
<1>4. CASE StartDaemon
  <2>1. /\ rpc.at = "start" /\ rpc'.at = "boot" /\ running' = TRUE /\ timeouts' = timeouts
        /\ spawned' = spawned + 1 /\ spawned + 1 \in Worker
    BY <1>1, <1>4 DEF StartDaemon, bounds, TypeInv, TypeOK, StartsCounted, Worker
  <2>2. worker' = [worker EXCEPT ![spawned + 1] = [at |-> "top", item |-> None]]
    BY <1>4 DEF StartDaemon
  <2>3. \A w \in Worker : w # spawned + 1 => worker'[w] = worker[w]
    BY <1>1, <2>2 DEF TypeInv, TypeOK
  <2>4. worker[spawned + 1].at = "none"
    BY <1>2, <2>1 DEF WorkersInv, LatestLast
  <2>5. (Alive \ {spawned})' = Alive
    BY <2>1, <2>3, <2>4 DEF Alive
  <2>6. GivenUp'
    BY <2>1, <2>5 DEF WorkersInv, GivenUp
  <2>7. LatestLast'
    BY <1>2, <2>1, <2>3 DEF LatestLast, WorkersInv, Worker
  <2>8. RunsOrStops'
    BY <2>1 DEF RunsOrStops
  <2> QED BY <1>1, <2>6, <2>7, <2>8 DEF WorkersInv
<1>5. CASE Join
  <2>1. UNCHANGED <<worker, spawned, running>> /\ rpc.at = "join" /\ rpc'.at \in {"start", "wipe"}
    BY <1>1, <1>5 DEF Join, rest, threads, TypeInv, TypeOK
  <2>2. Alive' = Alive
    BY <2>1 DEF Alive
  <2>3. Cardinality(Alive \ {spawned}) = IF spawned \in Alive THEN Cardinality(Alive) - 1
                                                             ELSE Cardinality(Alive)
    BY <1>1, FS_RemoveElement
  <2>4. Cardinality(Alive) \in Nat
    BY <1>1, FS_CardinalityType
  <2>5. timeouts' = IF spawned \in Alive THEN timeouts + 1 ELSE timeouts
    BY <1>5 DEF Join
  <2>6. GivenUp'
    BY <1>2, <2>1, <2>2, <2>3, <2>4, <2>5 DEF WorkersInv, GivenUp
  <2> QED BY <1>1, <2>1, <2>6 DEF WorkersInv, LatestLast, RunsOrStops
<1>6. CASE ~StartDaemon /\ ~Join /\ \A w \in Worker : ~WorkerStep(w)
  <2>1. /\ UNCHANGED <<worker, spawned, timeouts>> /\ RunsOrStops'
        /\ rpc'.at \in {"wipe", "start"} => rpc.at \in {"wipe", "start"}
    BY <1>1, <1>6, OthersLeaveWorkers DEF WorkersInv
  <2>2. Alive' = Alive
    BY <2>1 DEF Alive
  <2> QED BY <1>1, <2>1, <2>2 DEF WorkersInv, LatestLast, GivenUp
<1> QED BY <1>3, <1>4, <1>5, <1>6

(* "A single background worker thread": there is never a worker too many,  *)
(* but for the joins that timed out.                                       *)
THEOREM WorkersCounted == Spec => []OneWorker
<1>1. WorkersInv => OneWorker
  <2> SUFFICES ASSUME WorkersInv PROVE OneWorker
    OBVIOUS
  <2>1. Cardinality(Alive \ {spawned}) = IF spawned \in Alive THEN Cardinality(Alive) - 1
                                                             ELSE Cardinality(Alive)
    BY WorkersFinite, FS_RemoveElement
  <2>2. Cardinality(Alive) \in Nat /\ timeouts \in Nat
    BY WorkersFinite, FS_CardinalityType DEF WorkersInv, TypeInv, TypeOK
  <2> QED BY <2>1, <2>2 DEF WorkersInv, GivenUp, OneWorker
<1> QED BY <1>1, WorkersInit, WorkersNext, PTL DEF Spec

(* Nobody waits in a ring.  The RPC thread can wait for two things: for    *)
(* room, and then the queue is not empty, so that no worker polls; and for *)
(* its worker, after _running was turned off and with the lock free, so    *)
(* that this worker does not wait.  If it waits for neither the lock is    *)
(* free, and only an empty queue makes a worker wait.                      *)
THEOREM NobodyIsStuck == Spec => []NeverStuck
<1>1. WorkersInv => NeverStuck
  <2> SUFFICES ASSUME WorkersInv, RpcWaits, WatchersWait,
                      \A s \in ScanId : ScanWaits(s), \A w \in Worker : WorkerWaits(w)
               PROVE  Settled \/ Wedged
    BY DEF NeverStuck
  <2>1. QMax \in Nat \ {0} /\ queue \in Seq(Item \cup {Stop}) /\ Alive \subseteq Worker
    BY Bounds DEF WorkersInv, TypeInv, TypeOK, Alive
  <2>2. \A w \in Alive : (worker[w].at = "stats" /\ Locked) \/ (queue = <<>> /\ running)
    BY <2>1 DEF WorkerWaits, Alive
  <2>3. CASE rpc.at = "idle"
    <3>1. ~Blocked /\ ~Locked
      BY <2>3 DEF Blocked, Locked
    <3>2. raw = <<>> /\ \A s \in ScanId : scans[s].rec = Nil /\ scans[s].todo = {}
      BY <3>1 DEF WatchersWait, ScanWaits
    <3>3. queue = <<>> \/ Alive = {}
      BY <2>2, <3>1
    <3> QED BY <2>3, <3>2, <3>3 DEF Settled
  <2>4. CASE rpc.at = "put" /\ Full
    <3>1. queue # <<>>
      BY <2>1, <2>4 DEF Full
    <3> QED BY <2>2, <2>4, <3>1 DEF Wedged
  <2>5. CASE rpc.at = "join" /\ spawned \in Alive
    BY <2>2, <2>5 DEF Locked, WorkersInv, RunsOrStops
  <2> QED BY <2>3, <2>4, <2>5 DEF RpcWaits
<1> QED BY <1>1, WorkersInit, WorkersNext, PTL DEF Spec

-----------------------------------------------------------------------------
(* Nones in the queue.                                                     *)

LEMMA EndsInit == Init => EndsInv
<1> SUFFICES ASSUME Init PROVE EndsInv
  OBVIOUS
<1>1. Alive = {} /\ Cardinality(Alive) = 0 /\ rpc.at = "start"
  BY FS_EmptySet DEF Init, Alive
<1>2. queue \in Seq(Item)
  BY DEF Init
<1>3. Count(queue, Stop) \in Nat
  BY <1>2, CountType
<1> QED BY <1>1, <1>3, WorkersInit DEF EndsInv, EndsWait

(* Only the worker that takes one and stop() change the Nones.             *)
LEMMA OthersLeaveEnds ==
  ASSUME TypeInv, [Next]_vars, ~PutNone, \A w \in Worker : ~WorkerStep(w)
  PROVE  Count(queue', Stop) = Count(queue, Stop)
<1>1. ASSUME NEW x \in Item, Enqueue(x) PROVE Count(queue', Stop) = Count(queue, Stop)
  <2>1. queue' = queue \/ queue' = Append(queue, x)
    BY <1>1 DEF Enqueue
  <2>2. queue \in Seq(Item \cup {Stop})
    BY DEF TypeInv, TypeOK
  <2>3. x # Stop
    BY Kinds
  <2>4. CASE queue' = Append(queue, x)
    <3>1. Count(Append(queue, x), Stop) = Count(queue, Stop)
      BY <2>2, <2>3, CountAppend
    <3> QED BY <2>4, <3>1
  <2> QED BY <2>1, <2>4
<1>2. CASE Emit
  <2>1. Head(raw) \in Item
    BY <1>2 DEF Emit, TypeInv, TypeOK
  <2> QED BY <1>1, <1>2, <2>1 DEF Emit
<1>3. ASSUME NEW s \in ScanId, Offer(s)
      PROVE  Count(queue', Stop) = Count(queue, Stop)
  <2>1. [change |-> "created", path |-> scans[s].rec] \in Item
    BY <1>3 DEF Offer, TypeInv, TypeOK, Item
  <2> QED BY <1>1, <1>3, <2>1 DEF Offer
<1>4. CASE ~Emit /\ \A s \in ScanId : ~Offer(s)
  <2>1. queue' = queue
    BY <1>4 DEF Next, Rpc, System, RpcStep, ScanStep, Write, Remove, Change, Visit, Call,
         AddRoot, RemoveRoot, Reset, Rescan, StopDaemon, Join, Wipe, StartDaemon, BootWatch, BootScan,
         Booted, Purge, vars, rest
  <2> QED BY <2>1
<1> QED BY <1>2, <1>3, <1>4

LEMMA EndsNext == EndsInv /\ [Next]_vars => EndsInv'
<1> SUFFICES ASSUME EndsInv, [Next]_vars PROVE EndsInv'
  OBVIOUS
<1> DEFINE A == Cardinality(Alive)
           N == Count(queue, Stop)
<1>1. TypeInv /\ TypeInv' /\ WorkersInv' /\ IsFiniteSet(Alive)
  BY TypeNext, WorkersNext, WorkersFinite DEF WorkersInv, EndsInv
<1>2. queue \in Seq(Item \cup {Stop}) /\ queue' \in Seq(Item \cup {Stop})
  BY <1>1 DEF TypeInv, TypeOK
<1>3. A \in Nat /\ N \in Nat /\ Count(queue', Stop) \in Nat
  BY <1>1, <1>2, FS_CardinalityType, CountType
<1>4. ASSUME NEW w \in Worker, WorkerStep(w) PROVE EndsInv'
  <2>1. w \in Alive /\ (Alive' = Alive \/ Alive' = Alive \ {w}) /\ rpc' = rpc
    BY <1>1, <1>4, WorkerLife
  <2>2. Cardinality(Alive \ {w}) = A - 1
    BY <1>1, <2>1, FS_RemoveElement
  <2>3. CASE queue' = queue
    <3>1. Cardinality(Alive') <= A /\ Cardinality(Alive') \in Int
      BY <1>3, <2>1, <2>2
    <3>2. Count(queue', Stop) = N
      BY <2>3
    <3> QED BY <1>1, <1>3, <2>1, <3>1, <3>2 DEF EndsInv, EndsWait
  <2>4. CASE queue # <<>> /\ queue' = Tail(queue) /\ Head(queue) # Stop
    <3>1. Count(queue', Stop) = N
      BY <1>2, <1>3, <2>4, CountTail
    <3> QED BY <1>1, <1>3, <2>1, <2>2, <3>1 DEF EndsInv, EndsWait
  <2>5. CASE queue # <<>> /\ queue' = Tail(queue) /\ Head(queue) = Stop /\ Alive' = Alive \ {w}
    <3>1. Count(queue', Stop) = N - 1
      BY <1>2, <2>5, CountTail
    <3> QED BY <1>1, <1>3, <2>1, <2>2, <2>5, <3>1 DEF EndsInv, EndsWait
  <2> QED BY <1>1, <1>4, <2>3, <2>4, <2>5, WorkerLife
<1>5. CASE PutNone
  <2>1. rpc.at = "put" /\ rpc'.at = "join" /\ worker' = worker /\ queue' = Append(queue, Stop)
    BY <1>1, <1>5 DEF PutNone, threads, TypeInv, TypeOK
  <2>2. Alive' = Alive
    BY <2>1 DEF Alive
  <2>3. Count(queue', Stop) = N + 1
    BY <1>2, <2>1, CountAppend
  <2> QED BY <1>1, <1>3, <2>1, <2>2, <2>3 DEF EndsInv, EndsWait
<1>6. CASE StartDaemon
  <2>1. rpc.at = "start" /\ rpc'.at = "boot" /\ queue' = queue /\ spawned + 1 \in Worker
    BY <1>1, <1>6 DEF StartDaemon, TypeInv, TypeOK, StartsCounted, Worker
  <2>2. worker' = [worker EXCEPT ![spawned + 1] = [at |-> "top", item |-> None]]
    BY <1>6 DEF StartDaemon
  <2>3. \A w \in Worker : w # spawned + 1 => worker'[w] = worker[w]
    BY <1>1, <2>2 DEF TypeInv, TypeOK
  <2>4. Alive' \in SUBSET (Alive \cup {spawned + 1})
    BY <2>3 DEF Alive
  <2>5. IsFiniteSet(Alive \cup {spawned + 1}) /\ Cardinality(Alive \cup {spawned + 1}) <= A + 1
    <3>1. CASE spawned + 1 \in Alive
      BY <1>1, <1>3, <3>1, FS_AddElement
    <3>2. CASE spawned + 1 \notin Alive
      BY <1>1, <1>3, <3>2, FS_AddElement
    <3> QED BY <3>1, <3>2
  <2>6. /\ Cardinality(Alive') <= Cardinality(Alive \cup {spawned + 1}) /\ Cardinality(Alive') \in Nat
        /\ Cardinality(Alive \cup {spawned + 1}) \in Nat
    BY <2>4, <2>5, FS_Subset, FS_CardinalityType
  <2> QED BY <1>1, <1>3, <2>1, <2>5, <2>6 DEF EndsInv, EndsWait
<1>7. CASE Join
  <2>1. rpc.at = "join" /\ rpc'.at \in {"start", "wipe"} /\ worker' = worker /\ queue' = queue
    BY <1>1, <1>7 DEF Join, rest, threads, TypeInv, TypeOK
  <2>2. Alive' = Alive
    BY <2>1 DEF Alive
  <2> QED BY <1>1, <2>1, <2>2 DEF EndsInv, EndsWait
<1>8. CASE ~PutNone /\ ~StartDaemon /\ ~Join /\ \A w \in Worker : ~WorkerStep(w)
  <2>1. /\ UNCHANGED <<worker, spawned, timeouts>>
        /\ rpc'.at \in {"wipe", "start"} => rpc.at \in {"wipe", "start"}
    BY <1>1, <1>8, OthersLeaveWorkers DEF WorkersInv, EndsInv
  <2>2. Alive' = Alive
    BY <2>1 DEF Alive
  <2>3. Count(queue', Stop) = N
    BY <1>1, <1>8, OthersLeaveEnds
  <2>4. rpc'.at = "join" => rpc.at \in {"join", "wipe", "start"}
    <3>1. rpc' = rpc \/ rpc'.at # "join"
      <4>1. CASE \E q \in Root : AddRoot(q) \/ RemoveRoot(q) \/ BootWatch(q) \/ BootScan(q)
        BY <1>1, <4>1 DEF AddRoot, RemoveRoot, BootWatch, BootScan, TypeInv, TypeOK
      <4>2. CASE Reset \/ StopDaemon \/ Wipe \/ Booted \/ Purge
        BY SMTT(30), <1>1, <4>2 DEF Reset, StopDaemon, Wipe, Booted, Purge, TypeInv, TypeOK
      <4>3. CASE /\ ~ \E q \in Root : AddRoot(q) \/ RemoveRoot(q) \/ BootWatch(q) \/ BootScan(q)
                 /\ ~(Reset \/ StopDaemon \/ Wipe \/ Booted \/ Purge)
        BY <1>8, <4>3 DEF Next, Rpc, System, RpcStep, ScanStep, Write, Remove, Change, Emit, Offer,
           Visit, Rescan, vars, control
      <4> QED BY <4>1, <4>2, <4>3
    <3> QED BY <3>1
  <2> QED BY <1>1, <1>3, <2>1, <2>2, <2>3, <2>4 DEF EndsInv, EndsWait
<1> QED BY <1>1, <1>4, <1>5, <1>6, <1>7, <1>8 DEF EndsInv

(* A worker that takes an item behind which no None waits is alone.        *)
LEMMA TakerIsAlone ==
  ASSUME EndsInv, NEW w \in Worker, NEW u \in Alive, worker[w].at = "get", Count(queue, Stop) = 0
  PROVE  u = w
<1> SUFFICES ASSUME u # w PROVE FALSE
  OBVIOUS
<1>1. {u} \cup {w} \in SUBSET Alive
  BY DEF Alive
<1>2. IsFiniteSet({u}) /\ Cardinality({u}) = 1
  BY FS_Singleton
<1>3. Cardinality({u} \cup {w}) = 2
  <2>1. w \notin {u}
    OBVIOUS
  <2>2. Cardinality({u} \cup {w}) = Cardinality({u}) + 1
    BY <1>2, <2>1, FS_AddElement
  <2> QED BY <1>2, <2>2
<1>4. Cardinality({u} \cup {w}) <= Cardinality(Alive) /\ Cardinality(Alive) \in Nat
  BY <1>1, WorkersFinite, FS_Subset, FS_CardinalityType
<1>5. Cardinality(Alive) <= 1
  BY <1>4, FS_EmptySet DEF EndsInv, EndsWait
<1> QED BY <1>3, <1>4, <1>5

-----------------------------------------------------------------------------
(* Notifications.                                                          *)

LEMMA RawInit == Init => RawInv
<1> SUFFICES ASSUME Init PROVE RawInv
  OBVIOUS
<1>1. Len(raw) = 0
  BY DEF Init
<1> QED BY <1>1, TypeInit DEF RawInv, RawWatched, RawLast

(* What the queue of a watcher holds after a step.                         *)
LEMMA RawSteps ==
  ASSUME TypeInv, [Next]_vars, \A p \in Path : ~Write(p) /\ ~Remove(p)
  PROVE  /\ ver' = ver
         /\ \/ raw' = raw /\ watching \subseteq watching'
            \/ raw # <<>> /\ raw' = Tail(raw) /\ watching' = watching
            \/ raw' = <<>>
<1> USE DEF user, feed, rest, world
<1>1. CASE Emit
  BY <1>1 DEF Emit
<1>2. CASE StopDaemon
  BY <1>2 DEF StopDaemon
<1>3. CASE ~Emit /\ ~StopDaemon
  <2>1. \/ \E r \in Root : AddRoot(r) \/ RemoveRoot(r) \/ Rescan(r) \/ BootWatch(r) \/ BootScan(r)
        \/ Reset \/ PutNone \/ Join \/ Wipe \/ StartDaemon \/ Booted \/ Purge \/ UNCHANGED vars
        \/ \E w \in Worker : WorkerStep(w)
        \/ \E s \in ScanId : ScanStep(s)
    BY <1>3 DEF Next, Rpc, System, RpcStep
  <2>2. ASSUME NEW r \in Root,
               AddRoot(r) \/ RemoveRoot(r) \/ Rescan(r) \/ BootWatch(r) \/ BootScan(r)
        PROVE  ver' = ver /\ raw' = raw /\ watching \subseteq watching'
    BY <2>2 DEF AddRoot, RemoveRoot, Rescan, BootWatch, BootScan
  <2>3. CASE Reset \/ PutNone \/ Join \/ Wipe \/ StartDaemon \/ Booted \/ Purge \/ UNCHANGED vars
    BY <2>3 DEF Reset, PutNone, Join, Wipe, StartDaemon, Booted, Purge, vars
  <2>4. ASSUME NEW w \in Worker, WorkerStep(w) PROVE ver' = ver /\ raw' = raw /\ watching' = watching
    BY <2>4, WorkerLife
  <2>5. ASSUME NEW s \in ScanId, ScanStep(s) PROVE ver' = ver /\ raw' = raw /\ watching' = watching
    BY <2>5 DEF ScanStep, Visit, Offer
  <2> QED BY <2>1, <2>2, <2>3, <2>4, <2>5
<1> QED BY <1>1, <1>2, <1>3

LEMMA RawNext == RawInv /\ [Next]_vars => RawInv'
<1> SUFFICES ASSUME RawInv, [Next]_vars PROVE RawInv'
  OBVIOUS
<1>1. TypeInv /\ TypeInv' /\ raw \in Seq(Item)
  BY TypeNext DEF RawInv, TypeInv, TypeOK
<1>2. \A i \in 1..Len(raw) : raw[i] \in Item /\ raw[i].path \in Path
  BY <1>1, Kinds
<1>3. ASSUME NEW p \in Path, Write(p) \/ Remove(p) PROVE RawInv'
  <2>1. watching' = watching /\ \A q \in Path : q # p => ver'[q] = ver[q]
    BY <1>1, <1>3 DEF Write, Remove, Change, TypeInv, TypeOK
  <2>2. PICK c \in {"created", "modified", "deleted"} :
          /\ c = "deleted" <=> ver'[p] = 0
          /\ raw' = IF RootOf[p] \in watching THEN Append(raw, [change |-> c, path |-> p]) ELSE raw
    BY SMTT(30), <1>1, <1>3 DEF Write, Remove, Change, Notify, TypeInv, TypeOK
  <2>3. CASE RootOf[p] \in watching
    <3>1. /\ Len(raw') = Len(raw) + 1 /\ Len(raw) \in Nat
          /\ \A i \in 1..Len(raw) : raw'[i] = raw[i]
          /\ raw'[Len(raw) + 1] = [change |-> c, path |-> p]
      BY <1>1, <2>2, <2>3
    <3>2. RawWatched'
      BY <2>1, <2>3, <3>1 DEF RawInv, RawWatched
    <3>3. RawLast'
      <4> SUFFICES ASSUME NEW i \in 1..Len(raw'), raw'[i].change = "deleted", ver'[raw'[i].path] # 0
                   PROVE  \E j \in 1..Len(raw') : j > i /\ raw'[j].path = raw'[i].path
                                                  /\ raw'[j].change # "deleted"
        BY DEF RawLast
      <4>1. CASE raw'[i].path = p
        <5>1. c # "deleted"
          BY <2>2, <4>1
        <5>2. i # Len(raw) + 1
          BY <3>1, <5>1
        <5>3. Len(raw) + 1 \in 1..Len(raw') /\ Len(raw) + 1 > i
          BY <3>1, <5>2
        <5> QED BY <3>1, <4>1, <5>1, <5>3
      <4>2. CASE raw'[i].path # p
        <5>1. i \in 1..Len(raw)
          BY <3>1, <4>2
        <5>2. raw'[i] = raw[i] /\ ver[raw[i].path] # 0
          BY <1>2, <2>1, <3>1, <4>2, <5>1
        <5>3. PICK j \in 1..Len(raw) : j > i /\ raw[j].path = raw[i].path /\ raw[j].change # "deleted"
          BY <5>1, <5>2 DEF RawInv, RawLast
        <5>4. j \in 1..Len(raw') /\ raw'[j] = raw[j]
          BY <3>1
        <5> QED BY <5>2, <5>3, <5>4
      <4> QED BY <4>1, <4>2
    <3> QED BY <1>1, <3>2, <3>3 DEF RawInv
  <2>4. CASE RootOf[p] \notin watching
    <3>1. raw' = raw /\ \A i \in 1..Len(raw) : raw[i].path # p
      BY <2>2, <2>4 DEF RawInv, RawWatched
    <3>2. \A i \in 1..Len(raw) : ver'[raw[i].path] = ver[raw[i].path]
      BY <1>2, <2>1, <3>1
    <3> QED BY <1>1, <2>1, <3>1, <3>2 DEF RawInv, RawWatched, RawLast
  <2> QED BY <2>3, <2>4
<1>4. CASE \A p \in Path : ~Write(p) /\ ~Remove(p)
  <2>1. ver' = ver
    BY <1>1, <1>4, RawSteps
  <2>2. CASE raw' = raw /\ watching \subseteq watching'
    BY <1>1, <2>1, <2>2 DEF RawInv, RawWatched, RawLast
  <2>3. CASE raw # <<>> /\ raw' = Tail(raw) /\ watching' = watching
    <3>1. /\ Len(raw') = Len(raw) - 1 /\ Len(raw) \in Nat
          /\ \A i \in 1..Len(raw') : i + 1 \in 1..Len(raw) /\ raw'[i] = raw[i + 1]
      BY <1>1, <2>3
    <3>2. RawWatched'
      BY <2>3, <3>1 DEF RawInv, RawWatched
    <3>3. RawLast'
      <4> SUFFICES ASSUME NEW i \in 1..Len(raw'), raw'[i].change = "deleted", ver'[raw'[i].path] # 0
                   PROVE  \E j \in 1..Len(raw') : j > i /\ raw'[j].path = raw'[i].path
                                                  /\ raw'[j].change # "deleted"
        BY DEF RawLast
      <4>1. PICK j \in 1..Len(raw) :
              j > i + 1 /\ raw[j].path = raw[i + 1].path /\ raw[j].change # "deleted"
        BY <2>1, <3>1 DEF RawInv, RawLast
      <4>2. j - 1 \in 1..Len(raw') /\ j - 1 > i /\ raw'[j - 1] = raw[j]
        BY <3>1, <4>1
      <4> QED BY <3>1, <4>1, <4>2
    <3> QED BY <1>1, <3>2, <3>3 DEF RawInv
  <2>4. CASE raw' = <<>>
    <3>1. Len(raw') = 0
      BY <2>4
    <3> QED BY <1>1, <3>1 DEF RawInv, RawWatched, RawLast
  <2> QED BY <1>1, <1>4, <2>2, <2>3, <2>4, RawSteps
<1> QED BY <1>3, <1>4

-----------------------------------------------------------------------------
(* Scans.                                                                  *)

LEMMA ScansInit == Init => OneRoot
BY DEF Init, OneRoot

(* A new scan gets a number that no scan has had.                          *)
LEMMA NewScanIs ==
  ASSUME TypeInv, OneRoot, NEW r \in Root, NewScan(Under(r))
  PROVE  /\ OneRoot'
         /\ started + 1 \in ScanId /\ scans'[started + 1].todo = Under(r)
         /\ \A s \in ScanId, p \in Path :
              p \in scans[s].todo \/ scans[s].rec = p =>
                p \in scans'[s].todo \/ scans'[s].rec = p
<1>1. /\ started' = started + 1 /\ started + 1 \in ScanId
      /\ scans' = [scans EXCEPT ![started + 1] = [todo |-> Under(r), rec |-> Nil]]
  BY Bounds DEF NewScan, TypeInv, TypeOK, ScanId
<1>2. /\ scans'[started + 1] = [todo |-> Under(r), rec |-> Nil]
      /\ \A s \in ScanId : s # started + 1 => scans'[s] = scans[s]
  BY <1>1 DEF TypeInv, TypeOK
<1>3. scans[started + 1] = [todo |-> {}, rec |-> Nil]
  <2>1. started + 1 > started
    BY Bounds DEF TypeInv, TypeOK
  <2> QED BY <1>1, <2>1 DEF OneRoot
<1>4. OneRoot'
  <2>1. ASSUME NEW s \in ScanId, s # started + 1
        PROVE  /\ \A p, q \in scans'[s].todo : RootOf[p] = RootOf[q]
               /\ s > started' => scans'[s] = [todo |-> {}, rec |-> Nil]
    BY <1>1, <1>2, <2>1, Bounds DEF OneRoot, ScanId, TypeInv, TypeOK
  <2>2. /\ \A p, q \in scans'[started + 1].todo : RootOf[p] = RootOf[q]
        /\ ~(started + 1 > started')
    BY <1>1, <1>2, Bounds DEF Under, TypeInv, TypeOK
  <2> QED BY <1>1, <2>1, <2>2 DEF OneRoot
<1>5. Nil \notin Path
  BY Universe
<1> QED BY <1>1, <1>2, <1>3, <1>4, <1>5

LEMMA ScansNext == TypeInv /\ OneRoot /\ [Next]_vars => OneRoot'
<1> SUFFICES ASSUME TypeInv, OneRoot, [Next]_vars PROVE OneRoot'
  OBVIOUS
<1>1. ASSUME NEW r \in Root, Rescan(r) \/ BootScan(r) PROVE OneRoot'
  BY <1>1, NewScanIs DEF Rescan, BootScan
<1>2. ASSUME NEW s \in ScanId, NEW p \in Path, Visit(s, p) PROVE OneRoot'
  <2>1. started' = started /\ \A t \in ScanId : t # s => scans'[t] = scans[t]
    BY <1>2 DEF Visit, TypeInv, TypeOK
  <2>2. scans'[s].todo \subseteq scans[s].todo
    BY <1>2 DEF Visit, TypeInv, TypeOK
  <2>3. s <= started
    <3>1. scans[s] # [todo |-> {}, rec |-> Nil] /\ s \in Int /\ started \in Int
      BY <1>2, Bounds DEF Visit, TypeInv, TypeOK, ScanId
    <3> QED BY <3>1 DEF OneRoot
  <2>4. ASSUME NEW t \in ScanId
        PROVE  /\ \A a, b \in scans'[t].todo : RootOf[a] = RootOf[b]
               /\ t > started' => scans'[t] = [todo |-> {}, rec |-> Nil]
    <3>1. CASE t = s
      BY <2>1, <2>2, <2>3, <3>1, Bounds DEF OneRoot, TypeInv, TypeOK, ScanId
    <3>2. CASE t # s
      <4>1. /\ \A a, b \in scans[t].todo : RootOf[a] = RootOf[b]
            /\ t > started => scans[t] = [todo |-> {}, rec |-> Nil]
        BY DEF OneRoot
      <4>2. scans'[t] = scans[t] /\ started' = started
        BY <2>1, <3>2
      <4> QED BY <4>1, <4>2
    <3> QED BY <3>1, <3>2
  <2> QED BY <2>4 DEF OneRoot
<1>3. ASSUME NEW s \in ScanId, Offer(s) PROVE OneRoot'
  <2>1. started' = started /\ \A t \in ScanId : t # s => scans'[t] = scans[t]
    BY <1>3 DEF Offer, TypeInv, TypeOK
  <2>2. scans'[s].todo = scans[s].todo
    BY <1>3 DEF Offer, TypeInv, TypeOK
  <2>3. s <= started
    <3>1. scans[s] # [todo |-> {}, rec |-> Nil] /\ s \in Int /\ started \in Int
      BY <1>3, Bounds DEF Offer, TypeInv, TypeOK, ScanId
    <3> QED BY <3>1 DEF OneRoot
  <2>4. ASSUME NEW t \in ScanId
        PROVE  /\ \A a, b \in scans'[t].todo : RootOf[a] = RootOf[b]
               /\ t > started' => scans'[t] = [todo |-> {}, rec |-> Nil]
    <3>1. CASE t = s
      BY <2>1, <2>2, <2>3, <3>1, Bounds DEF OneRoot, TypeInv, TypeOK, ScanId
    <3>2. CASE t # s
      <4>1. /\ \A a, b \in scans[t].todo : RootOf[a] = RootOf[b]
            /\ t > started => scans[t] = [todo |-> {}, rec |-> Nil]
        BY DEF OneRoot
      <4>2. scans'[t] = scans[t] /\ started' = started
        BY <2>1, <3>2
      <4> QED BY <4>1, <4>2
    <3> QED BY <3>1, <3>2
  <2> QED BY <2>4 DEF OneRoot
<1>4. CASE /\ \A r \in Root : ~Rescan(r) /\ ~BootScan(r)
           /\ \A s \in ScanId : ~ScanStep(s)
  <2>1. UNCHANGED <<scans, started>>
    BY <1>4, WorkerLife DEF Next, Rpc, System, RpcStep, Write, Remove, Change, Emit,
         AddRoot, RemoveRoot, Reset, StopDaemon, PutNone, Join, Wipe, StartDaemon, BootWatch,
         Booted, Purge, vars, rest, scanner
  <2> QED BY <2>1 DEF OneRoot
<1> QED BY <1>1, <1>2, <1>3, <1>4 DEF ScanStep

-----------------------------------------------------------------------------
(* What keeps a file safe.                                                 *)

LEMMA Deletions ==
  ASSUME NEW p \in Path
  PROVE  /\ Deletion(p) \in Item /\ Deletion(p) # Stop /\ Deletion(p) # None
         /\ \A x \in Item : x.path = p /\ x.change = "deleted" <=> x = Deletion(p)
BY Kinds DEF Deletion, Item, Stop, None

(* What is taken from the queue was not the last sign of the file, but for *)
(* its first item.                                                         *)
LEMMA ComingAfterTail ==
  ASSUME TypeInv, NEW p \in Path, NEW i \in 1..Len(queue), ComingFrom(p, i), i # 1,
         queue # <<>>, queue' = Tail(queue)
  PROVE  i - 1 \in 1..Len(queue') /\ ComingFrom(p, i - 1)'
<1>1. queue \in Seq(Item \cup {Stop})
  BY DEF TypeInv, TypeOK
<1>2. /\ Len(queue') = Len(queue) - 1 /\ Len(queue) \in Nat
      /\ \A j \in 1..Len(queue') : j + 1 \in 1..Len(queue) /\ queue'[j] = queue[j + 1]
  BY <1>1
<1>3. i - 1 \in 1..Len(queue') /\ queue'[i - 1] = queue[i]
  BY <1>2
<1>4. ASSUME NEW j \in 1..Len(queue'), j > i - 1
      PROVE  queue'[j] # Stop /\ queue'[j] # Deletion(p)
  BY <1>2, <1>4 DEF ComingFrom
<1> QED BY <1>3, <1>4 DEF ComingFrom

LEMMA ComingAfterAppend ==
  ASSUME TypeInv, NEW p \in Path, NEW x \in Item, queue' = Append(queue, x)
  PROVE  /\ x.path = p /\ x # Deletion(p) => \E n \in 1..Len(queue') : ComingFrom(p, n)'
         /\ x # Deletion(p) => \A i \in 1..Len(queue) : ComingFrom(p, i) =>
                                 i \in 1..Len(queue') /\ ComingFrom(p, i)'
<1>1. queue \in Seq(Item \cup {Stop})
  BY DEF TypeInv, TypeOK
<1>2. /\ Len(queue') = Len(queue) + 1 /\ Len(queue) \in Nat /\ queue'[Len(queue) + 1] = x
      /\ \A j \in 1..Len(queue) : queue'[j] = queue[j]
  BY <1>1
<1>3. x # Stop
  BY Kinds
<1>4. ASSUME x.path = p, x # Deletion(p)
      PROVE  \E n \in 1..Len(queue') : ComingFrom(p, n)'
  <2>1. x.change # "deleted"
    BY <1>4, Deletions
  <2>2. PICK n \in 1..Len(queue') : n = Len(queue) + 1
    BY <1>2
  <2>3. ComingFrom(p, n)'
    BY <1>2, <1>4, <2>1, <2>2 DEF ComingFrom
  <2> QED BY <2>3
<1>5. ASSUME x # Deletion(p), NEW i \in 1..Len(queue), ComingFrom(p, i)
      PROVE  i \in 1..Len(queue') /\ ComingFrom(p, i)'
  <2>1. ASSUME NEW j \in 1..Len(queue'), j > i PROVE queue'[j] # Stop /\ queue'[j] # Deletion(p)
    <3>1. CASE j = Len(queue) + 1
      BY <1>2, <1>3, <1>5, <3>1
    <3>2. CASE j # Len(queue) + 1
      BY <1>2, <1>5, <2>1, <3>2 DEF ComingFrom
    <3> QED BY <3>1, <3>2
  <2> QED BY <1>2, <1>5, <2>1 DEF ComingFrom
<1> QED BY <1>4, <1>5

(* A change of the file is noticed, and of another file makes no difference.*)
LEMMA SafeChange ==
  ASSUME ForgetInv, NEW p \in Path, NEW q \in Path, Write(q) \/ Remove(q),
         ver'[p] # 0, RootOf[p] \in watching, ver[p] # 0 => Safe(p)
  PROVE  Safe(p)'
<1>1. TypeInv /\ raw \in Seq(Item)
  BY DEF ForgetInv, RawInv, TypeInv, TypeOK
<1>2. /\ UNCHANGED <<docs, queue, scans, worker>>
      /\ lost' = lost \ {q} /\ (q # p => ver'[p] = ver[p])
  BY <1>1 DEF Write, Remove, Change, scanner, threads, TypeInv, TypeOK
<1>3. PICK c \in {"created", "modified", "deleted"} :
        raw' = IF RootOf[q] \in watching THEN Append(raw, [change |-> c, path |-> q]) ELSE raw
  BY DEF Write, Remove, Notify
<1>4. CASE q = p
  <2>1. Len(raw) + 1 \in 1..Len(raw') /\ raw'[Len(raw) + 1].path = p
    BY <1>1, <1>3, <1>4
  <2> QED BY <2>1 DEF Safe, Coming
<1>5. CASE q # p
  <2>1. \A i \in 1..Len(raw) : i \in 1..Len(raw') /\ raw'[i] = raw[i]
    BY <1>1, <1>3
  <2>2. Coming(p) => Coming(p)'
    BY <1>2, <2>1 DEF Coming, ComingFrom
  <2>3. Kept(p) => Kept(p)'
    BY <1>2, <1>5 DEF Kept, NoDeletion, Held
  <2> QED BY <1>2, <1>5, <2>2, <2>3 DEF Safe
<1> QED BY <1>4, <1>5

(* A notification is queued, or dropped and on record; a late deletion is  *)
(* followed by another notification.                                       *)
LEMMA SafeEmit ==
  ASSUME ForgetInv, NEW p \in Path, Emit, ver[p] # 0, Safe(p)
  PROVE  Safe(p)'
<1> DEFINE h == Head(raw)
<1>1. TypeInv /\ raw \in Seq(Item) /\ raw # <<>> /\ raw' = Tail(raw)
  BY DEF ForgetInv, RawInv, TypeInv, TypeOK, Emit
<1>2. /\ h \in Item /\ h = raw[1] /\ Len(raw) \in Nat \ {0} /\ Len(raw') = Len(raw) - 1
      /\ \A j \in 1..Len(raw') : raw'[j] = raw[j + 1]
  BY <1>1
<1>3. UNCHANGED <<docs, ver, scans, worker>>
  BY DEF Emit, user, scanner, threads
<1>4. /\ h.change = "deleted" \/ ver[h.path] # 0 => Enqueue(h)
      /\ Enqueue(h) \/ UNCHANGED <<queue, lost>>
  BY DEF Emit
<1>5. ASSUME NEW i \in 1..Len(raw), i # 1, raw[i].path = p PROVE Safe(p)'
  <2>1. i - 1 \in 1..Len(raw') /\ raw'[i - 1].path = p
    BY <1>2, <1>5
  <2> QED BY <2>1 DEF Safe, Coming
<1>6. CASE h = Deletion(p)
  <2>1. raw[1].change = "deleted" /\ raw[1].path = p /\ 1 \in 1..Len(raw)
    BY <1>2, <1>6 DEF Deletion
  <2>2. PICK j \in 1..Len(raw) : j > 1 /\ raw[j].path = p
    BY <2>1 DEF ForgetInv, RawInv, RawLast
  <2> QED BY <1>5, <2>2
<1>7. CASE h.path = p /\ h # Deletion(p)
  <2>1. Enqueue(h)
    BY <1>4, <1>7
  <2>2. CASE Full
    BY <1>7, <2>1, <2>2 DEF Enqueue, Safe
  <2>3. CASE ~Full
    <3>1. queue' = Append(queue, h)
      BY <2>1, <2>3 DEF Enqueue
    <3>2. \E n \in 1..Len(queue') : ComingFrom(p, n)'
      BY <1>1, <1>2, <1>7, <3>1, ComingAfterAppend
    <3> QED BY <3>2 DEF Safe, Coming
  <2> QED BY <2>2, <2>3
<1>8. CASE h.path # p
  <2>1. h # Deletion(p)
    BY <1>8 DEF Deletion
  <2>2. \/ queue' = queue /\ lost \subseteq lost'
        \/ queue' = Append(queue, h) /\ lost' = lost
    BY <1>4 DEF Enqueue
  <2>3. ASSUME NEW i \in 1..Len(queue), ComingFrom(p, i) PROVE Safe(p)'
    <3>1. i \in 1..Len(queue') /\ ComingFrom(p, i)'
      <4>1. CASE queue' = queue
        BY <2>3, <4>1 DEF ComingFrom
      <4>2. CASE queue' = Append(queue, h)
        BY <1>1, <1>2, <2>1, <2>3, <4>2, ComingAfterAppend
      <4> QED BY <2>2, <4>1, <4>2
    <3> QED BY <3>1 DEF Safe, Coming
  <2>4. ASSUME Kept(p) PROVE Safe(p)'
    <3>1. queue \in Seq(Item \cup {Stop})
      BY <1>1 DEF TypeInv, TypeOK
    <3>2. \A i \in 1..Len(queue') : queue'[i] # Deletion(p)
      <4>1. CASE queue' = queue
        BY <2>4, <4>1 DEF Kept, NoDeletion
      <4>2. CASE queue' = Append(queue, h)
        BY <2>1, <2>4, <3>1, <4>2 DEF Kept, NoDeletion
      <4> QED BY <2>2, <4>1, <4>2
    <3> QED BY <1>3, <2>4, <3>2 DEF Safe, Kept, NoDeletion, Held
  <2>5. ASSUME NEW i \in 1..Len(raw), raw[i].path = p PROVE Safe(p)'
    BY <1>2, <1>5, <1>8, <2>5
  <2>6. ASSUME NEW s \in ScanId, p \in scans[s].todo \/ scans[s].rec = p PROVE Safe(p)'
    BY <1>3, <2>6 DEF Safe, Coming
  <2>7. ASSUME p \in lost PROVE Safe(p)'
    BY <2>2, <2>7 DEF Safe
  <2> QED BY <2>3, <2>4, <2>5, <2>6, <2>7 DEF Safe, Coming
<1> QED BY <1>6, <1>7, <1>8

(* A scan drops what it has not visited only when its root is gone.        *)
LEMMA SafeScan ==
  ASSUME ForgetInv, NEW p \in Path, NEW s \in ScanId, ScanStep(s), ver[p] # 0, RootOf[p] \in roots,
         Safe(p)
  PROVE  Safe(p)'
<1>1. TypeInv /\ OneRoot /\ scans \in [ScanId -> [todo : SUBSET Path, rec : Path \cup {Nil}]]
  BY DEF ForgetInv, RawInv, TypeInv, TypeOK
<1>2. UNCHANGED <<docs, ver, raw, worker>>
  BY DEF ScanStep, Visit, Offer, user, feed, threads
<1>3. ASSUME NEW q \in Path, Visit(s, q) PROVE Safe(p)'
  <2>1. queue' = queue /\ lost' = lost /\ q \in scans[s].todo /\ scans[s].rec = Nil
    BY <1>3 DEF Visit
  <2>2. scans' = [scans EXCEPT ![s] = scans'[s]]
    BY <1>1, <1>3 DEF Visit
  <2>3. scans'[s] = IF ver[q] = 0 THEN [todo |-> scans[s].todo \ {q}, rec |-> Nil]
                    ELSE IF RootOf[q] \in roots THEN [todo |-> scans[s].todo \ {q}, rec |-> q]
                    ELSE [todo |-> {}, rec |-> Nil]
    BY <1>1, <1>3 DEF Visit
  <2>4. p \in scans[s].todo => p \in scans'[s].todo \/ scans'[s].rec = p
    <3>1. p \in scans[s].todo => RootOf[q] = RootOf[p]
      BY <1>1, <2>1 DEF OneRoot
    <3> QED BY <2>3, <3>1
  <2>5. scans[s].rec # p
    BY <2>1, Universe
  <2>6. Coming(p) => Coming(p)'
    <3>1. \A t \in ScanId : t # s => scans'[t] = scans[t]
      BY <1>1, <2>2
    <3>2. \A t \in ScanId : p \in scans[t].todo \/ scans[t].rec = p =>
                            p \in scans'[t].todo \/ scans'[t].rec = p
      BY <2>4, <2>5, <3>1
    <3> QED BY <1>2, <2>1, <3>2 DEF Coming, ComingFrom
  <2>7. Kept(p) => Kept(p)'
    BY <1>2, <2>1 DEF Kept, NoDeletion, Held
  <2> QED BY <2>1, <2>6, <2>7 DEF Safe
<1>4. CASE Offer(s)
  <2> DEFINE x == [change |-> "created", path |-> scans[s].rec]
  <2>1. x \in Item /\ x # Deletion(p) /\ Enqueue(x) /\ scans' = [scans EXCEPT ![s].rec = Nil]
    BY <1>1, <1>4 DEF Offer, Item, Deletion
  <2>2. CASE x.path = p
    <3>1. CASE Full
      BY <2>1, <2>2, <3>1 DEF Enqueue, Safe
    <3>2. CASE ~Full
      <4>1. queue' = Append(queue, x)
        BY <2>1, <3>2 DEF Enqueue
      <4>2. \E n \in 1..Len(queue') : ComingFrom(p, n)'
        BY <1>1, <2>1, <2>2, <4>1, ComingAfterAppend
      <4> QED BY <4>2 DEF Safe, Coming
    <3> QED BY <3>1, <3>2
  <2>3. CASE x.path # p
    <3>1. \/ queue' = queue /\ lost \subseteq lost'
          \/ queue' = Append(queue, x) /\ lost' = lost
      BY <2>1 DEF Enqueue
    <3>2. \A t \in ScanId : p \in scans[t].todo \/ scans[t].rec = p =>
                            p \in scans'[t].todo \/ scans'[t].rec = p
      <4>1. \A t \in ScanId : scans'[t].todo = scans[t].todo /\ (t # s => scans'[t] = scans[t])
        BY <1>1, <2>1
      <4> QED BY <2>3, <4>1
    <3>3. \A i \in 1..Len(queue) : ComingFrom(p, i) => i \in 1..Len(queue') /\ ComingFrom(p, i)'
      <4>1. CASE queue' = queue
        BY <4>1 DEF ComingFrom
      <4>2. CASE queue' = Append(queue, x)
        BY <1>1, <2>1, <4>2, ComingAfterAppend
      <4> QED BY <3>1, <4>1, <4>2
    <3>4. Coming(p) => Coming(p)'
      BY <1>2, <3>2, <3>3 DEF Coming
    <3>5. Kept(p) => Kept(p)'
      <4>1. queue \in Seq(Item \cup {Stop})
        BY <1>1 DEF TypeInv, TypeOK
      <4>2. ASSUME Kept(p) PROVE \A i \in 1..Len(queue') : queue'[i] # Deletion(p)
        <5>1. CASE queue' = queue
          BY <4>2, <5>1 DEF Kept, NoDeletion
        <5>2. CASE queue' = Append(queue, x)
          BY <2>1, <4>1, <4>2, <5>2 DEF Kept, NoDeletion
        <5> QED BY <3>1, <5>1, <5>2
      <4> QED BY <1>2, <4>2 DEF Kept, NoDeletion, Held
    <3> QED BY <3>1, <3>4, <3>5 DEF Safe
  <2> QED BY <2>2, <2>3
<1> QED BY <1>3, <1>4 DEF ScanStep

(* Whoever takes the last item of a file is alone, and so no other worker  *)
(* has still to delete its document; an item handled in vain is on record. *)
LEMMA SafeWorker ==
  ASSUME ForgetInv, NEW p \in Path, NEW w \in Worker, WorkerStep(w), ver[p] # 0, Safe(p)
  PROVE  Safe(p)'
<1> DEFINE W == [at : {"none", "top", "get", "index", "stats", "done"}, item : Item \cup {None}]
<1>1. TypeInv /\ queue \in Seq(Item \cup {Stop}) /\ worker \in [Worker -> W] /\ worker' \in [Worker -> W]
  BY WorkerLife DEF ForgetInv, RawInv, TypeInv, TypeOK
<1>2. UNCHANGED <<ver, raw, scans>> /\ \A u \in Worker : u # w => worker'[u] = worker[u]
  BY <1>1, WorkerLife
<1>3. lost \subseteq lost'
  BY DEF WorkerStep, Check, Empty, End, Debounce, Get, Index, Indexed, InVain, Stats
<1>4. ASSUME p \in lost' PROVE Safe(p)'
  BY <1>4 DEF Safe
<1>5. ASSUME queue' = queue, Coming(p) PROVE Safe(p)'
  BY <1>2, <1>5 DEF Safe, Coming, ComingFrom
<1>6. CASE Check(w) \/ Empty(w) \/ Stats(w)
  <2>1. queue' = queue /\ docs' = docs /\ worker[w].at # "index"
    BY <1>6 DEF Check, Empty, Stats, world
  <2>2. worker'[w].item = worker[w].item
    BY <1>1, <1>6 DEF Check, Empty, Stats, Exit, Go
  <2>3. Kept(p) => Kept(p)'
    BY <1>2, <2>1, <2>2 DEF Kept, NoDeletion, Held
  <2> QED BY <1>3, <1>4, <1>5, <2>1, <2>3 DEF Safe
<1>7. CASE Index(w)
  <2> DEFINE x == worker[w].item
  <2>1. x \in Item /\ queue' = queue /\ worker'[w].item = None
    BY <1>1, <1>7 DEF Index, TypeInv, Handling
  <2>2. ASSUME Kept(p) PROVE Safe(p)'
    <3>1. NoDeletion(p)'
      BY <1>2, <2>1, <2>2, Deletions DEF Kept, NoDeletion
    <3>2. x # Deletion(p)
      BY <2>2 DEF Kept, NoDeletion
    <3>3. CASE x.path = p
      <4>1. CASE InVain(x)
        BY <1>4, <3>3, <4>1 DEF InVain
      <4>2. CASE Indexed(w, x)
        <5>1. x.change # "deleted"
          BY <2>1, <3>2, <3>3, Deletions
        <5>2. docs' = [docs EXCEPT ![p] = ver[p]]
          BY <3>3, <4>2, <5>1 DEF Indexed
        <5>3. docs'[p] = ver'[p]
          BY <1>1, <1>2, <5>2 DEF TypeInv, TypeOK
        <5> QED BY <3>1, <5>3 DEF Safe, Kept
      <4> QED BY <1>7, <4>1, <4>2 DEF Index
    <3>4. CASE x.path # p
      <4>1. docs'[p] = docs[p]
        BY <1>1, <1>7, <3>4 DEF Index, Indexed, InVain, TypeInv, TypeOK
      <4>2. Held(p) => Held(p)'
        BY <1>2, <3>4 DEF Held
      <4> QED BY <1>2, <2>2, <3>1, <4>1, <4>2 DEF Safe, Kept
    <3> QED BY <3>3, <3>4
  <2> QED BY <1>3, <1>4, <1>5, <2>1, <2>2 DEF Safe
<1>8. CASE End(w) \/ Debounce(w) \/ Get(w)
  <2> DEFINE h == Head(queue)
  <2>1. queue # <<>> /\ queue' = Tail(queue) /\ docs' = docs /\ worker[w].at = "get"
    BY <1>8 DEF End, Debounce, Get
  <2>2. /\ Len(queue) \in Nat \ {0} /\ Len(queue') = Len(queue) - 1 /\ h = queue[1]
        /\ \A j \in 1..Len(queue') : j + 1 \in 1..Len(queue) /\ queue'[j] = queue[j + 1]
    BY <1>1, <2>1
  <2>3. \/ worker'[w].item = worker[w].item
        \/ Get(w) /\ worker'[w] = [at |-> "index", item |-> h]
    BY <1>1, <1>8 DEF End, Debounce, Get, Exit, Go
  <2>4. ASSUME NEW i \in 1..Len(queue), ComingFrom(p, i), i # 1 PROVE Safe(p)'
    <3>1. i - 1 \in 1..Len(queue') /\ ComingFrom(p, i - 1)'
      BY <1>1, <2>1, <2>4, ComingAfterTail
    <3> QED BY <3>1 DEF Safe, Coming
  <2>5. ASSUME ComingFrom(p, 1) PROVE Safe(p)'
    <3>1. h.path = p /\ h # Stop /\ h # Deletion(p)
      BY <2>2, <2>5, Universe DEF ComingFrom, Stop, Deletion
    <3>2. CASE Debounce(w)
      BY <1>4, <3>1, <3>2 DEF Debounce
    <3>3. CASE Get(w)
      <4>1. Count(queue, Stop) = 0
        BY <1>1, <2>2, <2>5, <3>1, CountType DEF ComingFrom
      <4>2. \A u \in Worker : u # w => worker[u].at \in {"none", "done"}
        BY <2>1, <4>1, TakerIsAlone DEF ForgetInv, Alive
      <4>3. \A u \in Worker : u # w => worker[u].item = None
        BY <1>1, <4>2 DEF TypeInv, Handling
      <4>4. worker'[w] = [at |-> "index", item |-> h]
        BY <1>1, <3>3 DEF Get
      <4>5. NoDeletion(p)'
        <5>1. \A j \in 1..Len(queue') : queue'[j] # Deletion(p)
          BY <2>2, <2>5 DEF ComingFrom
        <5>2. \A u \in Worker : worker'[u].item # Deletion(p)
          BY <1>2, <3>1, <4>3, <4>4, Deletions
        <5> QED BY <5>1, <5>2 DEF NoDeletion
      <4>6. Held(p)'
        BY <3>1, <4>4 DEF Held
      <4> QED BY <4>5, <4>6 DEF Safe, Kept
    <3> QED BY <1>8, <3>1, <3>2, <3>3 DEF End
  <2>6. ASSUME Kept(p) PROVE Safe(p)'
    <3>1. \A j \in 1..Len(queue') : queue'[j] # Deletion(p)
      BY <2>2, <2>6 DEF Kept, NoDeletion
    <3>2. \A u \in Worker : worker'[u].item # Deletion(p)
      BY <1>2, <2>2, <2>3, <2>6 DEF Kept, NoDeletion
    <3>3. Held(p) => Held(p)'
      BY <1>2, <2>1 DEF Held
    <3> QED BY <1>2, <2>1, <2>6, <3>1, <3>2, <3>3 DEF Safe, Kept, NoDeletion
  <2>7. ASSUME (\E i \in 1..Len(raw) : raw[i].path = p)
               \/ (\E s \in ScanId : p \in scans[s].todo \/ scans[s].rec = p)
        PROVE  Safe(p)'
    BY <1>2, <2>7 DEF Safe, Coming
  <2> QED BY <1>3, <1>4, <2>4, <2>5, <2>6, <2>7 DEF Safe, Coming
<1> QED BY <1>6, <1>7, <1>8 DEF WorkerStep

(* What the RPC thread does while the daemon is up: it leaves everything   *)
(* alone but what it boots or purges.                                      *)
LEMMA SafeRpc ==
  ASSUME ForgetInv, NEW p \in Path, Rpc \/ RpcStep, Up(RootOf[p])'
  PROVE  RootOf[p] \in watching' /\ (ver[p] # 0 => Safe(p)')
<1>1. /\ TypeInv /\ OneRoot
      /\ Up(RootOf[p]) => RootOf[p] \in watching /\ (ver[p] # 0 => Safe(p))
      /\ rpc.at \in {"idle", "purge"} => booting = {}
      /\ rpc.purge # Nil => rpc.purge \notin roots
  BY DEF ForgetInv, RawInv, Remembered
<1>2. RootOf[p] \in Root /\ RootOf[p] # Nil /\ rpc'.at \in {"idle", "purge", "boot", "scan"}
  BY Universe DEF Up
<1>3. ~ \E r \in Root : AddRoot(r) \/ RemoveRoot(r)
  BY <1>2 DEF AddRoot, RemoveRoot
<1>4. ~(Reset \/ StopDaemon \/ PutNone \/ Join \/ Wipe)
  BY <1>1, <1>2 DEF Reset, StopDaemon, PutNone, Join, Wipe, TypeInv, TypeOK
<1>5. ~StartDaemon
  <2>1. StartDaemon => booting' = roots /\ roots' = roots
    BY DEF StartDaemon
  <2> QED BY <2>1 DEF Up
<1>6. ASSUME NEW r \in Root, Rescan(r) PROVE RootOf[p] \in watching' /\ (ver[p] # 0 => Safe(p)')
  <2>1. UNCHANGED <<docs, ver, raw, watching, queue, roots, booting, rpc, worker, lost>>
    BY <1>6 DEF Rescan, user, feed, control, threads
  <2>2. Up(RootOf[p])
    BY <2>1 DEF Up
  <2>3. \A s \in ScanId : p \in scans[s].todo \/ scans[s].rec = p =>
                          p \in scans'[s].todo \/ scans'[s].rec = p
    BY <1>1, <1>6, NewScanIs DEF Rescan
  <2>4. (ver[p] # 0 => Safe(p)')
    BY <1>1, <2>1, <2>2, <2>3 DEF Safe, Coming, ComingFrom, Kept, NoDeletion, Held
  <2> QED BY <1>1, <2>1, <2>2, <2>4
<1>7. ASSUME NEW r \in Root, BootWatch(r) PROVE RootOf[p] \in watching' /\ (ver[p] # 0 => Safe(p)')
  <2>1. /\ UNCHANGED <<docs, ver, raw, queue, roots, booting, worker, lost, scans>>
        /\ rpc.at = "boot" /\ watching \subseteq watching'
    BY <1>7 DEF BootWatch, rest, user, threads, scanner
  <2>2. Up(RootOf[p])
    BY <2>1 DEF Up
  <2>3. (ver[p] # 0 => Safe(p)')
    BY <1>1, <2>1, <2>2 DEF Safe, Coming, ComingFrom, Kept, NoDeletion, Held
  <2> QED BY <1>1, <2>1, <2>2, <2>3
<1>8. ASSUME NEW r \in Root, BootScan(r) PROVE RootOf[p] \in watching' /\ (ver[p] # 0 => Safe(p)')
  <2>1. /\ UNCHANGED <<docs, ver, raw, watching, queue, roots, worker, lost>>
        /\ rpc.at = "scan" /\ booting' = booting \ {r} /\ r \in watching
    BY <1>8 DEF BootScan, user, feed, threads
  <2>2. /\ \A s \in ScanId : p \in scans[s].todo \/ scans[s].rec = p =>
                             p \in scans'[s].todo \/ scans'[s].rec = p
        /\ started + 1 \in ScanId /\ scans'[started + 1].todo = Under(r)
    BY <1>1, <1>8, NewScanIs DEF BootScan
  <2>3. CASE RootOf[p] = r
    <3>1. p \in scans'[started + 1].todo
      BY <2>2, <2>3 DEF Under
    <3>2. (ver[p] # 0 => Safe(p)')
      BY <2>2, <3>1 DEF Safe, Coming
    <3> QED BY <2>1, <2>3, <3>2
  <2>4. CASE RootOf[p] # r
    <3>1. Up(RootOf[p])
      BY <2>1, <2>4 DEF Up
    <3>2. (ver[p] # 0 => Safe(p)')
      BY <1>1, <2>1, <2>2, <3>1 DEF Safe, Coming, ComingFrom, Kept, NoDeletion, Held
    <3> QED BY <1>1, <2>1, <3>1, <3>2
  <2> QED BY <2>3, <2>4
<1>9. CASE Booted
  <2>1. UNCHANGED <<docs, ver, raw, watching, queue, roots, booting, worker, lost, scans>> /\ rpc.at = "boot"
    BY <1>9 DEF Booted, rest, user, threads, scanner
  <2>2. Up(RootOf[p])
    BY <2>1 DEF Up
  <2>3. (ver[p] # 0 => Safe(p)')
    BY <1>1, <2>1, <2>2 DEF Safe, Coming, ComingFrom, Kept, NoDeletion, Held
  <2> QED BY <1>1, <2>1, <2>2, <2>3
<1>10. CASE Purge
  <2>1. UNCHANGED <<ver, raw, watching, queue, roots, booting, worker, lost, scans>> /\ rpc.at = "purge"
    BY <1>10 DEF Purge, user, feed, scanner, threads
  <2>2. Up(RootOf[p]) /\ RootOf[p] \in roots
    BY <2>1 DEF Up
  <2>3. docs'[p] = docs[p]
    BY <1>1, <1>2, <1>10, <2>2 DEF Purge
  <2>4. (ver[p] # 0 => Safe(p)')
    BY <1>1, <2>1, <2>2, <2>3 DEF Safe, Coming, ComingFrom, Kept, NoDeletion, Held
  <2> QED BY <1>1, <2>1, <2>2, <2>4
<1> QED BY <1>3, <1>4, <1>5, <1>6, <1>7, <1>8, <1>9, <1>10 DEF Rpc, RpcStep

LEMMA ForgetInit == Init => ForgetInv
<1> SUFFICES ASSUME Init PROVE ForgetInv
  OBVIOUS
<1>1. rpc.at = "start" /\ rpc.purge = Nil
  BY DEF Init
<1>2. Remembered
  BY <1>1 DEF Remembered, Up
<1> QED BY <1>2, EndsInit, RawInit, ScansInit DEF ForgetInv

LEMMA ForgetNext == ForgetInv /\ [Next]_vars => ForgetInv'
<1> SUFFICES ASSUME ForgetInv, [Next]_vars PROVE ForgetInv'
  OBVIOUS
<1>1. EndsInv' /\ RawInv' /\ OneRoot' /\ TypeInv
  BY EndsNext, RawNext, ScansNext DEF ForgetInv, RawInv
<1>2. ASSUME NEW p \in Path, Up(RootOf[p])
      PROVE  RootOf[p] \in watching /\ RootOf[p] \in roots /\ (ver[p] # 0 => Safe(p))
  BY <1>2 DEF ForgetInv, Remembered, Up
<1>3. CASE Rpc \/ RpcStep
  <2>1. ver' = ver
    BY <1>3 DEF Rpc, RpcStep, AddRoot, RemoveRoot, Rescan, Reset, StopDaemon, PutNone, Join, Wipe,
       StartDaemon, BootWatch, BootScan, Booted, Purge, rest, user
  <2>2. \A p \in Path : Up(RootOf[p])' => RootOf[p] \in watching' /\ (ver'[p] # 0 => Safe(p)')
    BY <1>3, <2>1, SafeRpc
  <2>3. rpc'.at \in {"idle", "purge"} => booting' = {}
    <3>1. CASE \E r \in Root : AddRoot(r) \/ RemoveRoot(r) \/ Rescan(r) \/ BootWatch(r) \/ BootScan(r)
      BY <1>1, <3>1 DEF AddRoot, RemoveRoot, Rescan, BootWatch, BootScan, control, TypeInv, TypeOK,
         ForgetInv, Remembered
    <3>2. CASE Reset \/ StopDaemon \/ PutNone \/ Join \/ Wipe
      BY <1>1, <3>2 DEF Reset, StopDaemon, PutNone, Join, Wipe, TypeInv, TypeOK
    <3>3. CASE StartDaemon \/ Booted \/ Purge
      BY <1>1, <3>3 DEF StartDaemon, Booted, Purge, TypeInv, TypeOK, ForgetInv, Remembered
    <3> QED BY <1>3, <3>1, <3>2, <3>3 DEF Rpc, RpcStep
  <2>4. rpc'.purge # Nil => rpc'.purge \notin roots'
    <3>1. CASE \E r \in Root : AddRoot(r) \/ RemoveRoot(r)
      BY <1>1, <3>1 DEF AddRoot, RemoveRoot
    <3>2. CASE \E r \in Root : Rescan(r) \/ BootWatch(r) \/ BootScan(r)
      BY <1>1, <3>2 DEF Rescan, BootWatch, BootScan, control, TypeInv, TypeOK, ForgetInv, Remembered
    <3>3. CASE Reset \/ StopDaemon \/ PutNone \/ Join \/ Wipe
      BY <1>1, <3>3 DEF Reset, StopDaemon, PutNone, Join, Wipe, TypeInv, TypeOK, ForgetInv, Remembered
    <3>4. CASE StartDaemon \/ Booted \/ Purge
      BY <1>1, <3>4 DEF StartDaemon, Booted, Purge, TypeInv, TypeOK, ForgetInv, Remembered
    <3> QED BY <1>3, <3>1, <3>2, <3>3, <3>4 DEF Rpc, RpcStep
  <2>5. Remembered'
    BY <2>2, <2>3, <2>4 DEF Remembered
  <2> QED BY <1>1, <2>5 DEF ForgetInv
<1>4. ASSUME UNCHANGED <<roots, rpc, booting, watching>>,
             \A p \in Path : Up(RootOf[p]) /\ ver'[p] # 0 => Safe(p)'
      PROVE  ForgetInv'
  <2>1. \A p \in Path : Up(RootOf[p])' <=> Up(RootOf[p])
    BY <1>4 DEF Up
  <2>2. Remembered'
    BY <1>2, <1>4, <2>1 DEF Remembered, ForgetInv
  <2> QED BY <1>1, <2>2 DEF ForgetInv
<1>5. ASSUME NEW q \in Path, Write(q) \/ Remove(q) PROVE ForgetInv'
  <2>1. UNCHANGED <<roots, rpc, booting, watching>>
    BY <1>5 DEF Write, Remove, Change, control
  <2> QED BY <1>2, <1>4, <1>5, <2>1, SafeChange
<1>6. CASE Emit
  <2>1. UNCHANGED <<roots, rpc, booting, watching, ver>>
    BY <1>6 DEF Emit, control, user
  <2> QED BY <1>2, <1>4, <1>6, <2>1, SafeEmit
<1>7. ASSUME NEW s \in ScanId, ScanStep(s) PROVE ForgetInv'
  <2>1. UNCHANGED <<roots, rpc, booting, watching, ver>>
    BY <1>7 DEF ScanStep, Visit, Offer, control, feed, user
  <2> QED BY <1>2, <1>4, <1>7, <2>1, SafeScan
<1>8. ASSUME NEW w \in Worker, WorkerStep(w) PROVE ForgetInv'
  <2>1. UNCHANGED <<roots, rpc, booting, watching, ver>>
    BY <1>1, <1>8, WorkerLife
  <2> QED BY <1>2, <1>4, <1>8, <2>1, SafeWorker
<1>9. CASE UNCHANGED vars
  <2>1. UNCHANGED <<roots, rpc, booting, watching, ver, docs, raw, queue, worker, lost, scans>>
    BY <1>9 DEF vars, user, feed, control, threads, scanner
  <2>2. \A p \in Path : Safe(p)' <=> Safe(p)
    BY <2>1 DEF Safe, Coming, ComingFrom, Kept, NoDeletion, Held
  <2> QED BY <1>2, <1>4, <2>1, <2>2
<1> QED BY <1>3, <1>5, <1>6, <1>7, <1>8, <1>9 DEF Next, System

(* No call of the RPC thread, however it interleaves with the threads of   *)
(* the daemon, and no join that times out makes the daemon forget a file   *)
(* of a registered root.                                                   *)
THEOREM NothingIsForgotten == Spec => []NothingForgotten
<1>1. ForgetInv => NothingForgotten
  <2> SUFFICES ASSUME ForgetInv, rpc.at \in {"idle", "purge"},
                      NEW p \in Path, ver[p] # 0, RootOf[p] \in roots
               PROVE  docs[p] = ver[p] \/ p \in lost \/ Pending(p)
    BY DEF NothingForgotten
  <2>1. Safe(p)
    BY DEF ForgetInv, Remembered, Up
  <2>2. raw \in Seq(Item) /\ queue \in Seq(Item \cup {Stop})
    BY DEF ForgetInv, RawInv, TypeInv, TypeOK
  <2>3. Coming(p) \/ Held(p) => Pending(p)
    BY <2>2 DEF Coming, ComingFrom, Held, Pending
  <2> QED BY <2>1, <2>3 DEF Safe, Kept
<1> QED BY <1>1, ForgetInit, ForgetNext, PTL DEF Spec
=============================================================================
