--------------------------- MODULE FastScanProofs ---------------------------
(***************************************************************************)
(* Theorems about the file-name index, for every set of directories and    *)
(* files, every size of batch and outbox, and every number of changes,     *)
(* calls and scans.                                                        *)
(***************************************************************************)
EXTENDS FastScan, Counting

(***************************************************************************)
(* The invariants                                                          *)
(***************************************************************************)
(* What the RPC thread is at goes with the settings and the watcher, it    *)
(* finds a number for the scan it is to start, and only a root that is     *)
(* registered has a scan nobody has interfered with.                       *)
Config ==
  /\ rpc \in {"unwatch", "purge"} => ~active
  /\ rpc \in {"watch", "rescan"} => active /\ Free # {}
  /\ active /\ rpc \in {"idle", "rescan"} => watching
  /\ clean # {} => active

(* A walker that puts has a record.                                        *)
Handing == \A s \in ScanId : \A d \in Dir : walker[s][d].at = "put" <=> walker[s][d].rec # Nil

TypeInv == TypeOK /\ Config /\ Handing

(* A removed root: whatever a late scan has written it is going to sweep.  *)
Rescanning == \A s \in ScanId : scan[s].kind = "rescan" => rpc = "rescan"
Sweeping == \E s \in ScanId : scan[s].at \in {"missing", "active", "sweep"}
SweptLater == ~active /\ rpc = "idle" => rows \subseteq astray \/ Sweeping

RemovedInv == TypeInv /\ Rescanning /\ SweptLater

(* The name of a file is about to be written: by a catch-up scan that will *)
(* queue every file, or for an item behind every deletion of the file.     *)
Deletion(f) == [change |-> "deleted", path |-> f]
WillQueue(s, f) ==
  \/ /\ scan[s].kind = "catchup" /\ ~scan[s].aborted
     /\ scan[s].at \in {"begin", "top", "topflush", "submit", "collect", "flush", "last",
                        "missing", "active"}
  \/ scan[s].at = "content" /\ (f \in scan[s].todo \/ scan[s].rec = f)
ComingFrom(f, i) ==
  /\ queue[i].path = f /\ queue[i].change = "created"
  /\ \A j \in 1..Len(queue) : j > i => queue[j] # Deletion(f)
Coming(f) ==
  \/ \E s \in ScanId : WillQueue(s, f)
  \/ \E i \in 1..Len(queue) : ComingFrom(f, i)
Stays(f) == f \in rows \cup astray /\ \A i \in 1..Len(queue) : queue[i] # Deletion(f)
NamesComing == active /\ rpc = "idle" => \A f \in files : Coming(f) \/ Stays(f)

NamesInv == RemovedInv /\ NamesComing

(* The walkers, the outbox and the count of those that are done belong to  *)
(* the part of a scan that collects; every walker that has ended was       *)
(* counted or its Done is in the outbox.                                   *)
Collecting(s) == scan[s].at \in {"collect", "flush", "join"}
Ended(s) == {d \in Dir : walker[s][d].at = "end"}
InPlace(s) ==
  /\ ~Collecting(s) => /\ scan[s].outbox = <<>> /\ scan[s].completed = 0
                       /\ \A d \in Dir : walker[s][d] = NoWalker
  /\ \A d \in Dir : d \notin scan[s].subs => walker[s][d] = NoWalker
  /\ scan[s].completed + Count(scan[s].outbox, Done) = Cardinality(Ended(s))
  /\ scan[s].at = "join" => scan[s].aborted
  /\ \A d \in Dir : /\ walker[s][d].todo \subseteq InDir(d)
                    /\ walker[s][d].rec # Nil => walker[s][d].rec \in InDir(d)
WalkersInv == TypeInv /\ \A s \in ScanId : InPlace(s)

(* A walker has been submitted for every directory the collector counts,   *)
(* and a scan of index.rescan never aborts and ends with its fast scan.    *)
InPool(s) ==
  /\ Collecting(s) => \A d \in scan[s].subs : walker[s][d].at # "none"
  /\ scan[s].kind = "rescan" => ~scan[s].aborted /\ scan[s].at \notin {"none", "end"}
PoolInv == WalkersInv /\ \A s \in ScanId : InPool(s)

(* A scan nobody interferes with: a file it has not met is ahead of the    *)
(* collector, of its walker, or between them, where the Done of a walker   *)
(* comes after all its files.                                              *)
OnItsWay(s, f) ==
  \/ walker[s][DirOf[f]].at = "wait"
  \/ walker[s][DirOf[f]].at = "walk" /\ f \in walker[s][DirOf[f]].todo
  \/ walker[s][DirOf[f]].at = "put" /\ (f \in walker[s][DirOf[f]].todo \/ walker[s][DirOf[f]].rec = f)
  \/ \E i \in 1..Len(scan[s].outbox) : scan[s].outbox[i] = f
AtTop(s) ==
  scan[s].at \in {"top", "topflush"} =>
    /\ \A f \in files : DirOf[f] = Top => f \in scan[s].todo \cup scan[s].keep
    /\ Dir \subseteq scan[s].todo \cup scan[s].subs
Below(s) ==
  scan[s].at \in {"collect", "flush"} =>
    /\ scan[s].subs = Dir
    /\ \A d \in Dir : walker[s][d].at \notin {"fin", "none"} /\ walker[s][d].rec \in files \cup {Nil}
    /\ \A f \in files : f \in scan[s].keep \/ (DirOf[f] \in Dir /\ OnItsWay(s, f))
    /\ \A i \in 1..Len(scan[s].outbox) : scan[s].outbox[i] # Done =>
         /\ scan[s].outbox[i] \in files /\ DirOf[scan[s].outbox[i]] \in Dir
         /\ walker[s][DirOf[scan[s].outbox[i]]].at = "end" =>
              \E j \in 1..Len(scan[s].outbox) : j > i /\ scan[s].outbox[j] = Done
Gathered(s) ==
  /\ scan[s].at \notin {"submit", "join"} /\ ~scan[s].aborted
  /\ scan[s].keep \subseteq files
  /\ scan[s].at \notin {"active", "content", "end"} => scan[s].keep \subseteq rows \cup scan[s].batch
  /\ scan[s].at \in {"last", "missing"} => files \subseteq scan[s].keep
  /\ scan[s].at = "missing" => scan[s].batch = {}
  /\ scan[s].at = "active" => rows = files
Exact(s) == AtTop(s) /\ Below(s) /\ Gathered(s)

ExactInv == WalkersInv /\ \A s \in clean : Exact(s)
-----------------------------------------------------------------------------
(* Type correctness.                                                       *)

Scan ==
  [at : {"none", "begin", "top", "topflush", "submit", "collect", "flush", "join",
         "last", "missing", "active", "sweep", "content", "end"},
   kind : {"catchup", "rescan"}, todo : SUBSET (Dir \cup File), rec : File \cup {Nil},
   subs : SUBSET Dir, keep : SUBSET File, batch : SUBSET File, aborted : BOOLEAN,
   completed : Nat, outbox : Seq(File \cup {Done})]
Walker == [at : {"none", "wait", "walk", "put", "fin", "end"},
           todo : SUBSET File, rec : File \cup {Nil}]

(* The records a scan and a walker start and end with.                     *)
LEMMA Records ==
  /\ \A kind \in {"catchup", "rescan"} : NewScan(kind) \in Scan /\ NewScan(kind).kind = kind
  /\ NoScan \in Scan /\ Over \in Scan /\ NoWalker \in Walker
  /\ NoScan.at = "none" /\ Over.at = "end" /\ NoWalker.at = "none"
<1>1. \A kind \in {"catchup", "rescan"} : NewScan(kind) \in Scan /\ NewScan(kind).kind = kind
  BY DEF NewScan, Scan
<1>2. NoScan \in Scan /\ NoScan.at = "none"
  BY <1>1 DEF NoScan, Scan
<1>3. Over \in Scan /\ Over.at = "end"
  BY <1>2 DEF Over, Scan
<1>4. NoWalker \in Walker /\ NoWalker.at = "none"
  BY DEF NoWalker, Walker
<1> QED BY <1>1, <1>2, <1>3, <1>4

LEMMA TypeInit == Init => TypeInv
<1> SUFFICES ASSUME Init PROVE TypeInv
  OBVIOUS
<1> USE Universe, Bounds
<1>1. scan \in [ScanId -> Scan] /\ walker \in [ScanId -> [Dir -> Walker]]
  BY Records DEF Init
<1>2. files \subseteq File /\ rows \subseteq File /\ astray \subseteq File
  BY DEF Init
<1>3. queue \in Seq(Item) /\ clean \subseteq ScanId
  BY DEF Init, ScanId
<1>4. TypeOK
  BY <1>1, <1>2, <1>3 DEF Init, TypeOK, Scan, Walker
<1>5. Config
  BY DEF Init, Config
<1>6. Handing
  BY DEF Init, Handing, NoWalker
<1> QED BY <1>4, <1>5, <1>6 DEF TypeInv

(* A new scan gets one of the free numbers.                                *)
LEMMA SpawnIs ==
  ASSUME Free # {}, NEW kind, Spawn(kind)
  PROVE  \E s \in Free : /\ scan' = [scan EXCEPT ![s] = NewScan(kind)]
                         /\ clean' = clean \cup {s} /\ walker' = walker
<1>1. Free \in SUBSET Nat
  BY Bounds DEF Free, ScanId
<1>2. \E n \in Free : \A m \in Free : n <= m
  BY <1>1, Least
<1> DEFINE s == CHOOSE n \in Free : \A m \in Free : n <= m
<1>3. s \in Free
  BY <1>2
<1>4. scan' = [scan EXCEPT ![s] = NewScan(kind)] /\ clean' = clean \cup {s} /\ walker' = walker
  BY DEF Spawn
<1> QED BY <1>3, <1>4

(* What a step of a scan does to the fields of its record.                 *)
LEMMA BeginIs ==
  ASSUME TypeOK, NEW s \in ScanId, Begin(s)
  PROVE  /\ scan[s].at = "begin" /\ rows' = rows /\ walker' = walker /\ clean' = clean /\ astray' = astray
         /\ queue' = queue
         /\ ShouldAbort(s) => scan'[s] = Over
         /\ ~ShouldAbort(s) =>
              /\ scan'[s].at = "top" /\ scan'[s].todo = Dir \cup InDir(Top)
              /\ scan'[s].kind = scan[s].kind /\ scan'[s].rec = scan[s].rec /\ scan'[s].subs = scan[s].subs
              /\ scan'[s].keep = scan[s].keep /\ scan'[s].batch = scan[s].batch
              /\ scan'[s].aborted = scan[s].aborted /\ scan'[s].completed = scan[s].completed
              /\ scan'[s].outbox = scan[s].outbox
<1>1. scan \in [ScanId -> Scan]
  BY DEF TypeOK, Scan
<1>2. CASE ShouldAbort(s)
  BY <1>1, <1>2 DEF Begin, others
<1>3. CASE ~ShouldAbort(s)
  <2>1. scan' = [scan EXCEPT ![s] = [scan[s] EXCEPT !.at = "top", !.todo = Dir \cup InDir(Top)]]
    BY <1>3 DEF Begin
  <2> QED BY <1>1, <1>3, <2>1 DEF Begin, Scan, others
<1> QED BY <1>2, <1>3

LEMMA EntryIs ==
  ASSUME TypeOK, NEW s \in ScanId, NEW e \in Dir \cup InDir(Top), Entry(s, e)
  PROVE  /\ scan[s].at = "top" /\ rows' = rows /\ walker' = walker /\ clean' = clean /\ astray' = astray
         /\ queue' = queue
         /\ scan'[s].kind = scan[s].kind /\ scan'[s].rec = scan[s].rec
         /\ scan'[s].completed = scan[s].completed /\ scan'[s].outbox = scan[s].outbox
         /\ ShouldAbort(s) => scan'[s].at = "submit" /\ scan'[s].aborted /\ scan'[s].subs = scan[s].subs
         /\ ~ShouldAbort(s) =>
              /\ scan'[s].at \in {"top", "topflush"} /\ scan'[s].todo = scan[s].todo \ {e}
              /\ scan'[s].aborted = scan[s].aborted
              /\ scan'[s].subs = IF e \in Dir THEN scan[s].subs \cup {e} ELSE scan[s].subs
              /\ scan'[s].keep = IF e \notin Dir /\ e \in files THEN scan[s].keep \cup {e} ELSE scan[s].keep
              /\ scan'[s].batch = IF e \notin Dir /\ e \in files THEN scan[s].batch \cup {e} ELSE scan[s].batch
<1> DEFINE c == scan[s]
<1>1. scan \in [ScanId -> Scan]
  BY DEF TypeOK, Scan
<1>2. CASE ShouldAbort(s)
  BY <1>1, <1>2 DEF Entry, Scan, others
<1>3. CASE ~ShouldAbort(s) /\ e \in Dir
  <2>1. scan' = [scan EXCEPT ![s] = [c EXCEPT !.todo = @ \ {e}, !.subs = @ \cup {e}]]
    BY <1>3, Zenon DEF Entry
  <2> QED BY <1>1, <1>3, <2>1 DEF Entry, Scan, others
<1>4. CASE ~ShouldAbort(s) /\ e \notin Dir /\ e \notin files
  <2>1. scan' = [scan EXCEPT ![s] = [c EXCEPT !.todo = @ \ {e}]]
    BY <1>4, Zenon DEF Entry
  <2> QED BY <1>1, <1>4, <2>1 DEF Entry, Scan, others
<1>5. CASE ~ShouldAbort(s) /\ e \notin Dir /\ e \in files
  <2> DEFINE label == IF Cardinality(c.batch \cup {e}) >= Batch THEN "topflush" ELSE "top"
  <2>1. scan' = [scan EXCEPT ![s] = [c EXCEPT !.todo = @ \ {e}, !.keep = @ \cup {e}, !.batch = @ \cup {e}, !.at = label]]
    BY <1>5, Zenon DEF Entry
  <2>2. label \in {"topflush", "top"}
    OBVIOUS
  <2> HIDE DEF label
  <2> QED BY <1>1, <1>5, <2>1, <2>2 DEF Entry, Scan, others
<1> QED BY <1>2, <1>3, <1>4, <1>5

LEMMA FlushIs ==
  ASSUME TypeOK, NEW s \in ScanId, NEW label, NEW next, NEW abort, Flush(s, label, next, abort)
  PROVE  /\ scan[s].at = label /\ walker' = walker /\ queue' = queue
         /\ scan'[s].kind = scan[s].kind /\ scan'[s].todo = scan[s].todo /\ scan'[s].rec = scan[s].rec
         /\ scan'[s].subs = scan[s].subs /\ scan'[s].keep = scan[s].keep
         /\ scan'[s].completed = scan[s].completed /\ scan'[s].outbox = scan[s].outbox
         /\ ShouldAbort(s) => /\ scan'[s].aborted /\ scan'[s].at = abort
                              /\ rows' = rows /\ clean' = clean /\ astray' = astray
         /\ ~ShouldAbort(s) => /\ scan'[s].aborted = scan[s].aborted /\ scan'[s].at = next
                               /\ scan'[s].batch = {} /\ Writes(s)
                               /\ rows' = rows \cup scan[s].batch /\ astray' = astray \ scan[s].batch
<1>1. scan \in [ScanId -> Scan]
  BY DEF TypeOK, Scan
<1>2. CASE ShouldAbort(s)
  BY <1>1, <1>2 DEF Flush, Scan, others
<1>3. CASE ~ShouldAbort(s)
  BY <1>1, <1>3 DEF Flush, Scan, others
<1> QED BY <1>2, <1>3

LEMMA SubmitIs ==
  ASSUME TypeOK, NEW s \in ScanId, Submit(s)
  PROVE  /\ scan[s].at = "submit" \/ (scan[s].at = "top" /\ scan[s].todo = {})
         /\ rows' = rows /\ clean' = clean /\ astray' = astray /\ queue' = queue
         /\ scan'[s].at = "collect"
         /\ scan'[s].kind = scan[s].kind /\ scan'[s].todo = scan[s].todo /\ scan'[s].rec = scan[s].rec
         /\ scan'[s].subs = scan[s].subs /\ scan'[s].keep = scan[s].keep /\ scan'[s].batch = scan[s].batch
         /\ scan'[s].aborted = scan[s].aborted
         /\ scan'[s].completed = scan[s].completed /\ scan'[s].outbox = scan[s].outbox
         /\ \A d \in Dir : walker'[s][d] = IF d \in scan[s].subs THEN [NoWalker EXCEPT !.at = "wait"] ELSE NoWalker
<1>1. scan \in [ScanId -> Scan] /\ walker \in [ScanId -> [Dir -> Walker]]
  BY DEF TypeOK, Scan, Walker
<1> QED BY <1>1 DEF Submit, Goto, Scan, others

LEMMA CollectIs ==
  ASSUME TypeOK, NEW s \in ScanId, Collect(s)
  PROVE  /\ scan[s].at = "collect" /\ scan[s].outbox # <<>>
         /\ rows' = rows /\ walker' = walker /\ clean' = clean /\ astray' = astray /\ queue' = queue
         /\ scan'[s].outbox = Tail(scan[s].outbox)
         /\ scan'[s].kind = scan[s].kind /\ scan'[s].todo = scan[s].todo /\ scan'[s].rec = scan[s].rec
         /\ scan'[s].subs = scan[s].subs
         /\ Head(scan[s].outbox) = Done =>
              /\ scan'[s].at = "collect" /\ scan'[s].completed = scan[s].completed + 1
              /\ scan'[s].keep = scan[s].keep /\ scan'[s].batch = scan[s].batch
              /\ scan'[s].aborted = scan[s].aborted
         /\ Head(scan[s].outbox) # Done => scan'[s].completed = scan[s].completed
         /\ Head(scan[s].outbox) # Done /\ ShouldAbort(s) =>
              /\ scan'[s].at = "collect" /\ scan'[s].aborted
              /\ scan'[s].keep = scan[s].keep /\ scan'[s].batch = scan[s].batch
         /\ Head(scan[s].outbox) # Done /\ ~ShouldAbort(s) =>
              /\ scan'[s].at \in {"collect", "flush"} /\ scan'[s].aborted = scan[s].aborted
              /\ scan'[s].keep = scan[s].keep \cup {Head(scan[s].outbox)}
              /\ scan'[s].batch = scan[s].batch \cup {Head(scan[s].outbox)}
<1> DEFINE c == scan[s]
           f == Head(c.outbox)
<1>1. scan \in [ScanId -> Scan]
  BY DEF TypeOK, Scan
<1>2. CASE f = Done
  <2> DEFINE n == c.completed + 1
  <2>1. scan' = [scan EXCEPT ![s] = [c EXCEPT !.outbox = Tail(@), !.completed = n]]
    BY <1>2, Zenon DEF Collect
  <2> HIDE DEF n
  <2>2. scan'[s].completed = n
    BY <1>1, <2>1 DEF Scan
  <2> QED BY <1>1, <1>2, <2>1, <2>2 DEF Collect, Scan, others, n
<1>3. CASE f # Done /\ ShouldAbort(s)
  <2>1. scan' = [scan EXCEPT ![s] = [c EXCEPT !.outbox = Tail(@), !.aborted = TRUE]]
    BY <1>3, Zenon DEF Collect
  <2>2. scan'[s] = [c EXCEPT !.outbox = Tail(@), !.aborted = TRUE]
    BY <1>1, <2>1
  <2>3. scan'[s].completed = c.completed /\ scan'[s].outbox = Tail(c.outbox) /\ scan'[s].aborted
    BY <1>1, <2>2 DEF Scan
  <2>4. scan'[s].at = c.at /\ scan'[s].keep = c.keep /\ scan'[s].batch = c.batch
        /\ scan'[s].kind = c.kind /\ scan'[s].todo = c.todo /\ scan'[s].rec = c.rec /\ scan'[s].subs = c.subs
    BY <1>1, <2>2 DEF Scan
  <2>5. c.at = "collect" /\ c.outbox # <<>>
        /\ rows' = rows /\ walker' = walker /\ clean' = clean /\ astray' = astray /\ queue' = queue
    BY DEF Collect, others
  <2> QED BY <1>3, <2>3, <2>4, <2>5
<1>4. CASE f # Done /\ ~ShouldAbort(s)
  <2> DEFINE label == IF Cardinality(c.batch \cup {f}) >= Batch THEN "flush" ELSE "collect"
  <2>1. scan' = [scan EXCEPT ![s] = [c EXCEPT !.outbox = Tail(@), !.keep = @ \cup {f}, !.batch = @ \cup {f}, !.at = label]]
    BY <1>4, Zenon DEF Collect
  <2>2. label \in {"flush", "collect"}
    OBVIOUS
  <2> HIDE DEF label
  <2> QED BY <1>1, <1>4, <2>1, <2>2 DEF Collect, Scan, others
<1> QED BY <1>2, <1>3, <1>4

LEMMA JoinIs ==
  ASSUME TypeOK, NEW s \in ScanId, Join(s)
  PROVE  /\ \/ scan[s].at = "join"
            \/ scan[s].at = "collect" /\ scan[s].completed = Cardinality(scan[s].subs)
         /\ \A d \in scan[s].subs : walker[s][d].at = "end"
         /\ rows' = rows /\ clean' = clean /\ astray' = astray /\ queue' = queue
         /\ scan'[s].at = "last" /\ scan'[s].todo = {} /\ scan'[s].subs = {} /\ scan'[s].completed = 0
         /\ scan'[s].outbox = <<>>
         /\ scan'[s].kind = scan[s].kind /\ scan'[s].rec = scan[s].rec /\ scan'[s].keep = scan[s].keep
         /\ scan'[s].batch = scan[s].batch /\ scan'[s].aborted = scan[s].aborted
         /\ \A d \in Dir : walker'[s][d] = NoWalker
<1> DEFINE c == scan[s]
<1>1. scan \in [ScanId -> Scan] /\ walker \in [ScanId -> [Dir -> Walker]]
  BY DEF TypeOK, Scan, Walker
<1>2. scan' = [scan EXCEPT ![s] = [c EXCEPT !.at = "last", !.todo = {}, !.subs = {}, !.completed = 0, !.outbox = <<>>]]
  BY Zenon DEF Join
<1> QED BY <1>1, <1>2 DEF Join, Scan, others

LEMMA LastIs ==
  ASSUME TypeOK, NEW s \in ScanId, Last(s)
  PROVE  /\ scan[s].at = "last" /\ walker' = walker /\ queue' = queue
         /\ scan'[s].batch = {} /\ scan'[s].at = IF scan[s].aborted THEN "active" ELSE "missing"
         /\ scan'[s].kind = scan[s].kind /\ scan'[s].todo = scan[s].todo /\ scan'[s].rec = scan[s].rec
         /\ scan'[s].subs = scan[s].subs /\ scan'[s].keep = scan[s].keep /\ scan'[s].aborted = scan[s].aborted
         /\ scan'[s].completed = scan[s].completed /\ scan'[s].outbox = scan[s].outbox
         /\ \/ rows' = rows /\ clean' = clean /\ astray' = astray /\ (scan[s].batch = {} \/ scan[s].aborted)
            \/ /\ rows' = rows \cup scan[s].batch /\ astray' = astray \ scan[s].batch /\ Writes(s)
               /\ ~scan[s].aborted
<1> DEFINE c == scan[s]
           label == IF c.aborted THEN "active" ELSE "missing"
<1>1. scan \in [ScanId -> Scan]
  BY DEF TypeOK, Scan
<1>2. scan' = [scan EXCEPT ![s] = [c EXCEPT !.batch = {}, !.at = label]]
  BY Zenon DEF Last
<1>3. label = IF scan[s].aborted THEN "active" ELSE "missing"
  OBVIOUS
<1> HIDE DEF label
<1> QED BY <1>1, <1>2, <1>3 DEF Last, Scan, others

LEMMA DeleteMissingIs ==
  ASSUME TypeOK, NEW s \in ScanId, DeleteMissing(s)
  PROVE  /\ scan[s].at = "missing" /\ rows' = rows \cap scan[s].keep /\ Writes(s) /\ walker' = walker
         /\ astray' = astray /\ queue' = queue
         /\ scan'[s] = [NewScan(scan[s].kind) EXCEPT !.at = "active"]
<1>1. scan \in [ScanId -> Scan]
  BY DEF TypeOK, Scan
<1> QED BY <1>1 DEF DeleteMissing, others

LEMMA ActiveIs ==
  ASSUME TypeOK, NEW s \in ScanId, Active(s)
  PROVE  /\ scan[s].at = "active" /\ rows' = rows /\ walker' = walker /\ clean' = clean /\ astray' = astray
         /\ queue' = queue
         /\ scan[s].kind = "rescan" => scan'[s] = Over
         /\ scan[s].kind # "rescan" /\ active => scan'[s] = [NewScan("catchup") EXCEPT !.at = "content", !.todo = File]
         /\ scan[s].kind # "rescan" /\ ~active => scan'[s] = [NewScan("catchup") EXCEPT !.at = "sweep"]
<1>1. scan \in [ScanId -> Scan]
  BY DEF TypeOK, Scan
<1> QED BY <1>1 DEF Active, elsewhere, others

LEMMA VisitIs ==
  ASSUME TypeOK, NEW s \in ScanId, NEW f \in File, Visit(s, f)
  PROVE  /\ scan[s].at = "content" /\ scan[s].rec = Nil
         /\ rows' = rows /\ walker' = walker /\ clean' = clean /\ astray' = astray /\ queue' = queue
         /\ f \in files /\ ~active => scan'[s] = Over
         /\ f \notin files \/ active =>
              /\ scan'[s].at = "content" /\ scan'[s].todo = scan[s].todo \ {f}
              /\ f \in files => scan'[s].rec = f
              /\ f \notin files => scan'[s].rec = Nil
              /\ scan'[s].kind = scan[s].kind /\ scan'[s].outbox = scan[s].outbox
              /\ scan'[s].completed = scan[s].completed /\ scan'[s].subs = scan[s].subs
              /\ scan'[s].aborted = scan[s].aborted /\ scan'[s].keep = scan[s].keep
<1> DEFINE c == scan[s]
<1>1. scan \in [ScanId -> Scan]
  BY DEF TypeOK, Scan
<1>2. CASE f \notin files
  <2>1. scan' = [scan EXCEPT ![s] = [c EXCEPT !.todo = @ \ {f}]]
    BY <1>2, Zenon DEF Visit
  <2> QED BY <1>1, <1>2, <2>1 DEF Visit, elsewhere, others, Scan
<1>3. CASE f \in files /\ active
  <2>1. scan' = [scan EXCEPT ![s] = [c EXCEPT !.todo = @ \ {f}, !.rec = f]]
    BY <1>3, Zenon DEF Visit
  <2> QED BY <1>1, <1>3, <2>1 DEF Visit, elsewhere, others, Scan
<1>4. CASE f \in files /\ ~active
  <2>1. scan' = [scan EXCEPT ![s] = Over]
    BY <1>4, Zenon DEF Visit
  <2> QED BY <1>1, <1>4, <2>1 DEF Visit, elsewhere, others
<1> QED BY <1>2, <1>3, <1>4

LEMMA OfferIs ==
  ASSUME TypeOK, NEW s \in ScanId, Offer(s)
  PROVE  /\ scan[s].at = "content" /\ scan[s].rec \in File /\ scan'[s].rec = Nil /\ scan'[s].at = "content"
         /\ queue' = Append(queue, [change |-> "created", path |-> scan[s].rec])
         /\ rows' = rows /\ walker' = walker /\ clean' = clean /\ astray' = astray
         /\ scan'[s].kind = scan[s].kind /\ scan'[s].todo = scan[s].todo /\ scan'[s].outbox = scan[s].outbox
         /\ scan'[s].completed = scan[s].completed /\ scan'[s].subs = scan[s].subs
         /\ scan'[s].aborted = scan[s].aborted /\ scan'[s].keep = scan[s].keep
<1>1. scan \in [ScanId -> Scan]
  BY DEF TypeOK, Scan
<1> QED BY <1>1 DEF Offer, Scan

LEMMA EndIs ==
  ASSUME TypeOK, NEW s \in ScanId
  PROVE  /\ Sweep(s) => /\ scan[s].at = "sweep" /\ scan'[s] = Over /\ rows' = {} /\ Writes(s) /\ walker' = walker
                        /\ astray' = (IF active THEN files ELSE {}) /\ queue' = queue
         /\ Finished(s) => /\ scan[s].at = "content" /\ scan[s].rec = Nil /\ scan[s].todo = {}
                           /\ scan'[s] = Over /\ walker' = walker
                           /\ rows' = rows /\ clean' = clean /\ astray' = astray /\ queue' = queue
<1>1. scan \in [ScanId -> Scan]
  BY DEF TypeOK, Scan
<1> QED BY <1>1 DEF Sweep, Finished, elsewhere, others

(* A step of a scan keeps the records, and is no step of another scan.     *)
LEMMA ScanTypes ==
  ASSUME TypeOK, NEW s \in ScanId, ScanStep(s)
  PROVE  /\ scan' \in [ScanId -> Scan] /\ scan[s].at # "none" /\ scan'[s].at # "none"
         /\ \A t \in ScanId \ {s} : scan'[t] = scan[t] /\ walker'[t] = walker[t]
         /\ walker' \in [ScanId -> [Dir -> Walker]]
<1> USE Universe
<1> DEFINE c == scan[s]
           Kept == /\ scan' \in [ScanId -> Scan] /\ scan[s].at # "none" /\ scan'[s].at # "none"
                   /\ \A t \in ScanId \ {s} : scan'[t] = scan[t] /\ walker'[t] = walker[t]
                   /\ walker' \in [ScanId -> [Dir -> Walker]]
<1> SUFFICES Kept
  OBVIOUS
<1>1. scan \in [ScanId -> Scan] /\ walker \in [ScanId -> [Dir -> Walker]] /\ c \in Scan
  BY DEF TypeOK, Scan, Walker
<1>2. ASSUME NEW e \in Scan, scan' = [scan EXCEPT ![s] = e], e.at # "none", scan[s].at # "none",
             walker' = walker
      PROVE  Kept
  BY <1>1, <1>2
<1>3. CASE Begin(s)
  <2>1. [c EXCEPT !.at = "top", !.todo = Dir \cup InDir(Top)] \in Scan
    BY <1>1 DEF Scan, InDir
  <2> QED BY SMTT(30), <1>1, <1>2, <1>3, <2>1, Records DEF Begin, Scan
<1>4. ASSUME NEW e \in Dir \cup InDir(Top), Entry(s, e) PROVE c.at = "top" /\ \E r \in Scan : scan' = [scan EXCEPT ![s] = r] /\ r.at # "none"
  <2>1. e \in Dir \cup File /\ (e \notin Dir => e \in File)
    BY DEF InDir
  <2>2. [c EXCEPT !.aborted = TRUE, !.at = "submit"] \in Scan
    BY <1>1 DEF Scan
  <2>3. e \in Dir => [c EXCEPT !.todo = @ \ {e}, !.subs = @ \cup {e}] \in Scan
    BY <1>1 DEF Scan
  <2>4. [c EXCEPT !.todo = @ \ {e}] \in Scan
    BY <1>1 DEF Scan
  <2>5. ASSUME NEW label \in {"topflush", "top"}, e \in File
        PROVE  [c EXCEPT !.todo = @ \ {e}, !.keep = @ \cup {e}, !.batch = @ \cup {e}, !.at = label] \in Scan
    BY ZenonT(60), <1>1, <2>5 DEF Scan
  <2>6. c.at = "top"
    BY <1>4 DEF Entry
  <2>7. CASE ShouldAbort(s)
    BY <1>1, <1>4, <2>2, <2>7 DEF Entry, Scan
  <2>8. CASE ~ShouldAbort(s) /\ e \in Dir
    <3>1. scan' = [scan EXCEPT ![s] = [c EXCEPT !.todo = @ \ {e}, !.subs = @ \cup {e}]]
      BY <1>4, <2>8, Zenon DEF Entry
    <3> QED BY <1>1, <2>3, <2>6, <2>8, <3>1 DEF Scan
  <2>9. CASE ~ShouldAbort(s) /\ e \notin Dir /\ e \notin files
    <3>1. scan' = [scan EXCEPT ![s] = [c EXCEPT !.todo = @ \ {e}]]
      BY <1>4, <2>9, Zenon DEF Entry
    <3> QED BY <1>1, <2>4, <2>6, <3>1 DEF Scan
  <2>10. CASE ~ShouldAbort(s) /\ e \notin Dir /\ e \in files
    <3> DEFINE label == IF Cardinality(scan[s].batch \cup {e}) >= Batch THEN "topflush" ELSE "top"
               r == [c EXCEPT !.todo = @ \ {e}, !.keep = @ \cup {e}, !.batch = @ \cup {e}, !.at = label]
    <3>1. scan' = [scan EXCEPT ![s] = r]
      BY <1>4, <2>10, Zenon DEF Entry
    <3>2. label \in {"topflush", "top"}
      OBVIOUS
    <3> HIDE DEF label
    <3>3. r \in Scan /\ r.at = label
      BY ZenonT(60), <2>1, <2>5, <2>10, <3>2, <1>1 DEF Scan
    <3> QED BY <2>6, <3>1, <3>2, <3>3
  <2> QED BY <2>7, <2>8, <2>9, <2>10
<1>5. ASSUME NEW label \in {"topflush", "flush"}, NEW next \in {"top", "collect"}, NEW abort \in {"submit", "join"},
             Flush(s, label, next, abort)
      PROVE  c.at = label /\ \E r \in Scan : scan' = [scan EXCEPT ![s] = r] /\ r.at # "none"
  <2>1. [c EXCEPT !.aborted = TRUE, !.at = abort] \in Scan /\ [c EXCEPT !.batch = {}, !.at = next] \in Scan
    BY <1>1 DEF Scan
  <2>2. \/ scan' = [scan EXCEPT ![s] = [c EXCEPT !.aborted = TRUE, !.at = abort]]
        \/ scan' = [scan EXCEPT ![s] = [c EXCEPT !.batch = {}, !.at = next]]
    BY <1>1, <1>5 DEF Flush
  <2> QED BY <1>1, <1>5, <2>1, <2>2 DEF Flush, Scan
<1>6. ASSUME Submit(s) PROVE Kept
  <2>1. [NoWalker EXCEPT !.at = "wait"] \in Walker
    BY Records DEF Walker
  <2> DEFINE ws == [d \in Dir |-> IF d \in c.subs THEN [NoWalker EXCEPT !.at = "wait"] ELSE NoWalker]
  <2>2. ws \in [Dir -> Walker]
    BY <2>1, Records
  <2>3. walker' = [walker EXCEPT ![s] = ws]
    BY <1>6 DEF Submit
  <2>4. [c EXCEPT !.at = "collect"] \in Scan
    BY <1>1 DEF Scan
  <2>5. scan' = [scan EXCEPT ![s] = [c EXCEPT !.at = "collect"]]
    BY <1>6, <1>1 DEF Submit, Goto, Scan
  <2>6. c.at # "none"
    BY <1>6 DEF Submit
  <2> HIDE DEF ws
  <2> QED BY ZenonT(60), <1>1, <2>2, <2>3, <2>4, <2>5, <2>6 DEF Scan
<1>7. ASSUME Collect(s) PROVE c.at = "collect" /\ \E r \in Scan : scan' = [scan EXCEPT ![s] = r] /\ r.at # "none"
  <2> DEFINE f == Head(c.outbox)
  <2>1. c.outbox \in Seq(File \cup {Done}) /\ c.outbox # <<>> /\ c.at = "collect"
    BY <1>1, <1>7 DEF Collect, Scan
  <2>2. f \in File \cup {Done} /\ Tail(c.outbox) \in Seq(File \cup {Done})
    BY <2>1
  <2>3. [c EXCEPT !.outbox = Tail(@), !.completed = @ + 1] \in Scan
    <3> DEFINE n == c.completed + 1
               t == Tail(c.outbox)
    <3>1. n \in Nat /\ t \in Seq(File \cup {Done})
      BY <1>1, <2>2 DEF Scan
    <3> HIDE DEF n, t
    <3>2. [c EXCEPT !.outbox = t, !.completed = n] \in Scan
      BY <1>1, <3>1 DEF Scan
    <3> QED BY <3>2 DEF n, t
  <2>4. [c EXCEPT !.outbox = Tail(@), !.aborted = TRUE] \in Scan
    BY <1>1, <2>2 DEF Scan
  <2>5. ASSUME NEW label \in {"flush", "collect"}, f # Done
        PROVE  [c EXCEPT !.outbox = Tail(@), !.keep = @ \cup {f}, !.batch = @ \cup {f}, !.at = label] \in Scan
    <3>1. f \in File
      BY <2>2, <2>5
    <3> HIDE DEF f
    <3> QED BY ZenonT(60), <1>1, <2>2, <3>1, <2>5 DEF Scan
  <2>6. CASE f = Done
    <3>1. scan' = [scan EXCEPT ![s] = [c EXCEPT !.outbox = Tail(@), !.completed = @ + 1]]
      BY <1>7, <2>6, Zenon DEF Collect
    <3> QED BY <1>1, <2>1, <2>3, <3>1 DEF Scan
  <2>7. CASE f # Done /\ ShouldAbort(s)
    <3>1. scan' = [scan EXCEPT ![s] = [c EXCEPT !.outbox = Tail(@), !.aborted = TRUE]]
      BY <1>7, <2>7, Zenon DEF Collect
    <3> QED BY <1>1, <2>1, <2>4, <3>1 DEF Scan
  <2>8. CASE f # Done /\ ~ShouldAbort(s)
    <3> DEFINE label == IF Cardinality(c.batch \cup {f}) >= Batch THEN "flush" ELSE "collect"
               r == [c EXCEPT !.outbox = Tail(@), !.keep = @ \cup {f}, !.batch = @ \cup {f}, !.at = label]
    <3>1. scan' = [scan EXCEPT ![s] = r]
      BY <1>7, <2>8, Zenon DEF Collect
    <3>2. label \in {"flush", "collect"}
      OBVIOUS
    <3> HIDE DEF label, f
    <3>3. r \in Scan /\ r.at = label
      BY ZenonT(60), <2>5, <2>8, <3>2, <1>1 DEF Scan
    <3> QED BY <2>1, <3>1, <3>2, <3>3
  <2> QED BY <2>6, <2>7, <2>8
<1>8. ASSUME Join(s) PROVE Kept
  <2> DEFINE r == [c EXCEPT !.at = "last", !.todo = {}, !.subs = {}, !.completed = 0, !.outbox = <<>>]
  <2> DEFINE none == <<>>
  <2>0. none \in Seq(File \cup {Done}) /\ 0 \in Nat
    OBVIOUS
  <2>1. r \in Scan /\ r.at = "last"
    <3> HIDE DEF none
    <3>1. [c EXCEPT !.at = "last", !.todo = {}, !.subs = {}, !.completed = 0, !.outbox = none] \in Scan
      BY <1>1, <2>0 DEF Scan
    <3> QED BY <1>1, <3>1 DEF Scan, none
  <2>2. scan' = [scan EXCEPT ![s] = r]
    BY <1>8, Zenon DEF Join
  <2>3. walker' = [walker EXCEPT ![s] = [d \in Dir |-> NoWalker]] /\ c.at \in {"join", "collect"}
    BY <1>8 DEF Join
  <2>4. [d \in Dir |-> NoWalker] \in [Dir -> Walker]
    BY Records
  <2> HIDE DEF r
  <2> QED BY <1>1, <2>1, <2>2, <2>3, <2>4
<1>9. ASSUME Last(s) PROVE c.at = "last" /\ \E r \in Scan : scan' = [scan EXCEPT ![s] = r] /\ r.at # "none"
  <2> DEFINE label == IF c.aborted THEN "active" ELSE "missing"
             r == [c EXCEPT !.batch = {}, !.at = label]
  <2>1. scan' = [scan EXCEPT ![s] = r] /\ c.at = "last"
    BY <1>9, Zenon DEF Last
  <2>2. label \in {"active", "missing"}
    OBVIOUS
  <2> HIDE DEF label
  <2>3. r \in Scan /\ r.at = label
    BY <1>1, <2>2 DEF Scan
  <2> QED BY <2>1, <2>2, <2>3
<1>10. ASSUME DeleteMissing(s) PROVE c.at = "missing" /\ \E r \in Scan : scan' = [scan EXCEPT ![s] = r] /\ r.at # "none"
  <2> DEFINE n == NewScan(c.kind)
             r == [n EXCEPT !.at = "active"]
  <2>1. scan' = [scan EXCEPT ![s] = r] /\ c.at = "missing"
    BY <1>10, Zenon DEF DeleteMissing
  <2>2. n \in Scan
    BY <1>1, Records DEF Scan
  <2> HIDE DEF n
  <2>3. r \in Scan /\ r.at = "active"
    BY <2>2 DEF Scan
  <2> QED BY <2>1, <2>3
<1>11. ASSUME Active(s) PROVE c.at = "active" /\ \E r \in Scan : scan' = [scan EXCEPT ![s] = r] /\ r.at # "none"
  <2> DEFINE n == NewScan("catchup")
  <2>1. \E r \in {Over, [n EXCEPT !.at = "content", !.todo = File], [n EXCEPT !.at = "sweep"]} :
          scan' = [scan EXCEPT ![s] = r]
    BY <1>11 DEF Active
  <2>2. n \in Scan /\ Over \in Scan /\ Over.at # "none" /\ c.at = "active"
    BY <1>11, Records DEF Active
  <2> HIDE DEF n
  <2>3. [n EXCEPT !.at = "content", !.todo = File] \in Scan /\ [n EXCEPT !.at = "sweep"] \in Scan
    BY <2>2 DEF Scan
  <2>4. [n EXCEPT !.at = "content", !.todo = File].at = "content" /\ [n EXCEPT !.at = "sweep"].at = "sweep"
    BY <2>2 DEF Scan
  <2> QED BY <2>1, <2>2, <2>3, <2>4
<1>12. ASSUME Sweep(s) \/ Finished(s) PROVE c.at \in {"sweep", "content"} /\ \E r \in Scan : scan' = [scan EXCEPT ![s] = r] /\ r.at # "none"
  BY <1>12, Records DEF Sweep, Finished
<1>13. ASSUME NEW f \in File, Visit(s, f) PROVE c.at = "content" /\ \E r \in Scan : scan' = [scan EXCEPT ![s] = r] /\ r.at # "none"
  <2>1. \E r \in {Over, [c EXCEPT !.todo = @ \ {f}], [c EXCEPT !.todo = @ \ {f}, !.rec = f]} :
          scan' = [scan EXCEPT ![s] = r]
    BY <1>13 DEF Visit
  <2>2. [c EXCEPT !.todo = @ \ {f}] \in Scan /\ [c EXCEPT !.todo = @ \ {f}, !.rec = f] \in Scan
    BY <1>1 DEF Scan
  <2>3. c.at = "content"
    BY <1>13 DEF Visit
  <2>4. [c EXCEPT !.todo = @ \ {f}].at = "content" /\ [c EXCEPT !.todo = @ \ {f}, !.rec = f].at = "content"
    BY <1>1, <2>3 DEF Scan
  <2> QED BY <2>1, <2>2, <2>3, <2>4, Records
<1>14. ASSUME Offer(s) PROVE c.at = "content" /\ \E r \in Scan : scan' = [scan EXCEPT ![s] = r] /\ r.at # "none"
  <2>1. [c EXCEPT !.rec = Nil] \in Scan
    BY <1>1 DEF Scan
  <2>2. scan' = [scan EXCEPT ![s] = [c EXCEPT !.rec = Nil]] /\ c.at = "content"
    BY <1>14, <1>1 DEF Offer, Scan
  <2> QED BY <1>1, <2>1, <2>2 DEF Scan
<1>15. \A e \in Dir \cup InDir(Top) : Entry(s, e) => walker' = walker
  BY DEF Entry
<1>16. \A f \in File : Visit(s, f) => walker' = walker
  BY DEF Visit, elsewhere
<1>17. Begin(s) \/ Flush(s, "topflush", "top", "submit") \/ Flush(s, "flush", "collect", "join") \/ Collect(s) \/ Last(s)
       => walker' = walker
  BY DEF Begin, Flush, Collect, Last
<1>18. DeleteMissing(s) \/ Active(s) \/ Sweep(s) \/ Offer(s) \/ Finished(s) => walker' = walker
  BY DEF DeleteMissing, Active, Sweep, Offer, Finished
<1>19. Flush(s, "topflush", "top", "submit") \/ Flush(s, "flush", "collect", "join") =>
         c.at \in {"topflush", "flush"} /\ \E r \in Scan : scan' = [scan EXCEPT ![s] = r] /\ r.at # "none"
  BY <1>5
<1> HIDE DEF Kept
<1>20. CASE Submit(s)
  BY <1>6, <1>20
<1>21. CASE Join(s)
  BY <1>8, <1>21
<1>22. CASE \E e \in Dir \cup InDir(Top) : Entry(s, e)
  BY <1>2, <1>4, <1>15, <1>22
<1>23. CASE \E f \in File : Visit(s, f)
  BY <1>2, <1>13, <1>16, <1>23
<1>24. CASE Flush(s, "topflush", "top", "submit") \/ Flush(s, "flush", "collect", "join")
  BY <1>2, <1>17, <1>19, <1>24
<1>25. CASE Collect(s) \/ Last(s) \/ DeleteMissing(s) \/ Active(s)
  BY <1>2, <1>7, <1>9, <1>10, <1>11, <1>17, <1>18, <1>25
<1>26. CASE Sweep(s) \/ Offer(s) \/ Finished(s)
  BY <1>2, <1>12, <1>14, <1>18, <1>26
<1> QED BY <1>3, <1>20, <1>21, <1>22, <1>23, <1>24, <1>25, <1>26 DEF ScanStep

(* A walker that looks at a file gives up, skips it or hands it on.        *)
LEMMA LookIs ==
  ASSUME Handing, walker \in [ScanId -> [Dir -> Walker]], NEW s \in ScanId, NEW d \in Dir,
         \E f \in File : Look(s, d, f)
  PROVE  /\ walker'[s][d].at \in {"fin", "walk", "put"}
         /\ walker'[s][d].todo \subseteq walker[s][d].todo
         /\ walker'[s][d].rec \in walker[s][d].todo \cup {Nil}
<1>1. PICK f \in File : Look(s, d, f)
  OBVIOUS
<1> DEFINE v == walker[s][d]
           x == [NoWalker EXCEPT !.at = "fin"]
           y == [v EXCEPT !.todo = v.todo \ {f}]
           z == [at |-> "put", todo |-> v.todo \ {f}, rec |-> f]
<1>2. /\ v.at = "walk" /\ f \in v.todo
      /\ walker' = [walker EXCEPT ![s][d] = IF ShouldAbort(s) THEN x ELSE IF f \notin files THEN y ELSE z]
  BY <1>1 DEF Look, SetWalker
<1>3. v \in Walker /\ v.rec = Nil
  BY <1>2 DEF Handing
<1>4. x.at = "fin" /\ x.todo = {} /\ x.rec = Nil
  BY DEF NoWalker
<1>5. y.at = "walk" /\ y.todo = v.todo \ {f} /\ y.rec = Nil
  BY <1>2, <1>3 DEF Walker
<1> HIDE DEF x, y, z
<1>6. walker'[s][d] = IF ShouldAbort(s) THEN x ELSE IF f \notin files THEN y ELSE z
  BY <1>2
<1>7. CASE walker'[s][d] = x  BY <1>4, <1>7
<1>8. CASE walker'[s][d] = y  BY <1>5, <1>8
<1>9. CASE walker'[s][d] = z  BY <1>2, <1>9 DEF z
<1> QED BY <1>6, <1>7, <1>8, <1>9


(* A step of a walker keeps the records, and puts at most one item.        *)
LEMMA WalkerTypes ==
  ASSUME TypeOK, Handing, NEW s \in ScanId, NEW d \in Dir, WalkerStep(s, d)
  PROVE  /\ scan' \in [ScanId -> Scan] /\ walker' \in [ScanId -> [Dir -> Walker]]
         /\ \A t \in ScanId \ {s} : scan'[t] = scan[t] /\ walker'[t] = walker[t]
         /\ \/ scan' = scan
            \/ \E item \in File \cup {Done} :
                 scan' = [scan EXCEPT ![s] = [@ EXCEPT !.outbox = Append(scan[s].outbox, item)]]
         /\ \E w \in Walker : /\ w.at = "put" <=> w.rec # Nil
                              /\ walker' = [walker EXCEPT ![s] = [@ EXCEPT ![d] = w]]
         /\ UNCHANGED elsewhere
<1> USE Universe
<1> DEFINE c == scan[s]
           v == walker[s][d]
<1>1. scan \in [ScanId -> Scan] /\ walker \in [ScanId -> [Dir -> Walker]] /\ c \in Scan /\ v \in Walker
      /\ files \subseteq File
  BY DEF TypeOK, Scan, Walker
<1>2. v.at = "put" <=> v.rec # Nil
  BY DEF Handing
<1>3. ASSUME NEW item \in File \cup {Done}, Put(s, item)
      PROVE  scan' = [scan EXCEPT ![s] = [@ EXCEPT !.outbox = Append(scan[s].outbox, item)]]
  BY <1>1, <1>3 DEF Put, Scan
<1>4. ASSUME NEW item \in File \cup {Done} PROVE [c EXCEPT !.outbox = Append(c.outbox, item)] \in Scan
  <2>1. Append(c.outbox, item) \in Seq(File \cup {Done})
    BY <1>1 DEF Scan
  <2> QED BY <1>1, <2>1 DEF Scan
<1>5. ASSUME NEW item \in File \cup {Done}, Put(s, item)
       PROVE  /\ scan' \in [ScanId -> Scan] /\ \A t \in ScanId \ {s} : scan'[t] = scan[t]
              /\ \E x \in File \cup {Done} :
                   scan' = [scan EXCEPT ![s] = [@ EXCEPT !.outbox = Append(scan[s].outbox, x)]]
  <2> DEFINE r == [c EXCEPT !.outbox = Append(c.outbox, item)]
  <2>1. scan' = [scan EXCEPT ![s] = r] /\ r \in Scan
    BY <1>3, <1>4, <1>5
  <2>2. \E x \in File \cup {Done} : scan' = [scan EXCEPT ![s] = [@ EXCEPT !.outbox = Append(scan[s].outbox, x)]]
    BY <1>3, <1>5
  <2> HIDE DEF r
  <2> QED BY <1>1, <2>1, <2>2
<1>6. /\ [NoWalker EXCEPT !.at = "fin"] \in Walker /\ [NoWalker EXCEPT !.at = "end"] \in Walker
      /\ [NoWalker EXCEPT !.at = "fin"].at = "fin" /\ [NoWalker EXCEPT !.at = "end"].at = "end"
      /\ [NoWalker EXCEPT !.at = "fin"].rec = Nil /\ [NoWalker EXCEPT !.at = "end"].rec = Nil
  BY DEF NoWalker, Walker
<1>7. ASSUME NEW w \in Walker, w.at = "put" <=> w.rec # Nil, SetWalker(s, d, w)
      PROVE  /\ walker' \in [ScanId -> [Dir -> Walker]] /\ \A t \in ScanId \ {s} : walker'[t] = walker[t]
             /\ \E x \in Walker : /\ x.at = "put" <=> x.rec # Nil
                                  /\ walker' = [walker EXCEPT ![s] = [@ EXCEPT ![d] = x]]
  <2>1. walker' = [walker EXCEPT ![s] = [@ EXCEPT ![d] = w]]
    BY <1>1, <1>7 DEF SetWalker
  <2> QED BY <1>1, <1>7, <2>1
<1>8. CASE List(s, d)
  <2>1. [at |-> "walk", todo |-> InDir(d) \cap files, rec |-> Nil] \in Walker
    BY DEF Walker, InDir
  <2>2. \E w \in Walker : (w.at = "put" <=> w.rec # Nil) /\ SetWalker(s, d, w)
    BY <1>6, <1>8, <2>1 DEF List
  <2> QED BY <1>1, <1>7, <1>8, <2>2 DEF List
<1>9. CASE \E f \in File : Look(s, d, f)
  <2>1. PICK f \in File : Look(s, d, f)
    BY <1>9
  <2>2. [v EXCEPT !.todo = @ \ {f}] \in Walker /\ [v EXCEPT !.todo = @ \ {f}].at = v.at
        /\ [v EXCEPT !.todo = @ \ {f}].rec = v.rec
    BY <1>1 DEF Walker
  <2>3. [at |-> "put", todo |-> v.todo \ {f}, rec |-> f] \in Walker
    BY <1>1 DEF Walker
  <2>4. \E w \in Walker : (w.at = "put" <=> w.rec # Nil) /\ SetWalker(s, d, w)
    BY <1>2, <1>6, <2>1, <2>2, <2>3 DEF Look
  <2>5. UNCHANGED elsewhere /\ scan' = scan
    BY <2>1 DEF Look
  <2> QED BY <1>1, <1>7, <2>4, <2>5
<1>10. CASE Hand(s, d)
  <2>1. v.rec \in File /\ Put(s, v.rec) /\ UNCHANGED elsewhere
    BY <1>1, <1>2, <1>10 DEF Hand, Walker
  <2>2. [v EXCEPT !.at = "walk", !.rec = Nil] \in Walker /\ [v EXCEPT !.at = "walk", !.rec = Nil].at = "walk"
        /\ [v EXCEPT !.at = "walk", !.rec = Nil].rec = Nil
    BY <1>1 DEF Walker
  <2>3. \E w \in Walker : (w.at = "put" <=> w.rec # Nil) /\ SetWalker(s, d, w)
    BY <1>10, <2>2 DEF Hand
  <2>4. v.rec \in File \cup {Done}
    BY <2>1
  <2> QED BY <1>7, <1>5, <2>1, <2>3, <2>4
<1>11. CASE Walked(s, d)
  <2>1. Put(s, Done) /\ UNCHANGED elsewhere
    BY <1>11 DEF Walked
  <2>2. \E w \in Walker : (w.at = "put" <=> w.rec # Nil) /\ SetWalker(s, d, w)
    BY <1>6, <1>11 DEF Walked
  <2>3. Done \in File \cup {Done}
    OBVIOUS
  <2> QED BY <1>7, <1>5, <2>1, <2>2, <2>3
<1> QED BY <1>8, <1>9, <1>10, <1>11 DEF WalkerStep

(* A step of a scan changes neither files nor settings, nor what the RPC   *)
(* thread is at.                                                           *)
LEMMA ScanFrame ==
  ASSUME NEW s \in ScanId, ScanStep(s)
  PROVE  /\ files' = files /\ active' = active /\ watching' = watching /\ rpc' = rpc
         /\ changes' = changes /\ calls' = calls
<1>1. CASE \/ Begin(s) \/ Flush(s, "topflush", "top", "submit") \/ Flush(s, "flush", "collect", "join")
           \/ Collect(s) \/ Last(s) \/ Submit(s) \/ Join(s)
  BY <1>1 DEF Begin, Flush, Collect, Last, Submit, Join, others, config, bounds
<1>2. CASE DeleteMissing(s) \/ Active(s) \/ Sweep(s) \/ Offer(s) \/ Finished(s)
  BY <1>2 DEF DeleteMissing, Active, Sweep, Offer, Finished, elsewhere, others, config, bounds
<1>3. CASE \E e \in Dir \cup InDir(Top) : Entry(s, e)
  BY <1>3 DEF Entry, others, config, bounds
<1>4. CASE \E f \in File : Visit(s, f)
  BY <1>4 DEF Visit, elsewhere, others, config, bounds
<1> QED BY <1>1, <1>2, <1>3, <1>4 DEF ScanStep

(* A step of a walker changes nothing of a scan but the outbox.            *)
LEMMA SameScan ==
  ASSUME TypeOK, Handing, NEW s \in ScanId, NEW d \in Dir, WalkerStep(s, d)
  PROVE  \A t \in ScanId :
           /\ scan'[t].at = scan[t].at /\ scan'[t].kind = scan[t].kind /\ scan'[t].todo = scan[t].todo
           /\ scan'[t].rec = scan[t].rec /\ scan'[t].subs = scan[t].subs /\ scan'[t].keep = scan[t].keep
           /\ scan'[t].batch = scan[t].batch /\ scan'[t].aborted = scan[t].aborted
           /\ scan'[t].completed = scan[t].completed
<1>1. scan \in [ScanId -> Scan]
  BY DEF TypeOK, Scan
<1>2. CASE scan' = scan
  BY <1>2
<1>3. CASE \E item \in File \cup {Done} :
                scan' = [scan EXCEPT ![s] = [@ EXCEPT !.outbox = Append(scan[s].outbox, item)]]
  BY <1>1, <1>3 DEF Scan
<1> QED BY <1>2, <1>3, WalkerTypes

(* A scan that begins: the record it gets, and the one number it takes.    *)
LEMMA SpawnTypes ==
  ASSUME TypeOK, Free # {}, NEW kind \in {"catchup", "rescan"}, Spawn(kind)
  PROVE  \E s \in ScanId :
           /\ scan[s].at = "none" /\ scan'[s] = NewScan(kind) /\ clean' = clean \cup {s} /\ walker' = walker
           /\ \A t \in ScanId \ {s} : scan'[t] = scan[t]
           /\ scan' \in [ScanId -> Scan] /\ Free' = Free \ {s}
<1>1. scan \in [ScanId -> Scan]
  BY DEF TypeOK, Scan
<1>2. PICK s \in Free : scan' = [scan EXCEPT ![s] = NewScan(kind)] /\ clean' = clean \cup {s} /\ walker' = walker
  BY SpawnIs
<1>3. s \in ScanId /\ scan[s].at = "none"
  BY DEF Free
<1>4. scan'[s] = NewScan(kind) /\ \A t \in ScanId \ {s} : scan'[t] = scan[t]
  BY <1>1, <1>2, <1>3
<1>5. NewScan(kind) \in Scan /\ NewScan(kind).at = "begin"
  BY Records DEF NewScan
<1>6. scan' \in [ScanId -> Scan]
  BY <1>1, <1>2, <1>5
<1>7. Free' = Free \ {s}
  BY <1>3, <1>4, <1>5 DEF Free
<1> QED BY <1>2, <1>3, <1>4, <1>6, <1>7

LEMMA TypeNext == TypeInv /\ [Next]_vars => TypeInv'
<1> SUFFICES ASSUME TypeInv, [Next]_vars PROVE TypeInv'
  OBVIOUS
<1> USE Universe, Bounds
<1>1. TypeOK /\ Config /\ Handing
  BY DEF TypeInv
<1>2. /\ scan \in [ScanId -> Scan] /\ walker \in [ScanId -> [Dir -> Walker]]
      /\ files \subseteq File /\ rows \subseteq File /\ astray \subseteq File
      /\ queue \in Seq(Item) /\ clean \subseteq ScanId /\ changes \in Nat /\ calls \in Nat
  BY <1>1 DEF TypeOK, Scan, Walker
<1>3. CASE \E f \in File : Create(f) \/ Remove(f)
  <2>1. PICK f \in File, change \in {"created", "deleted"} :
          Change(change, f) /\ (files' = files \cup {f} \/ files' = files \ {f})
    BY <1>3 DEF Create, Remove
  <2>2. queue' \in Seq(Item)
    <3>1. [change |-> change, path |-> f] \in Item
      BY DEF Item
    <3>2. queue' = queue \/ queue' = Append(queue, [change |-> change, path |-> f])
      BY <2>1 DEF Change
    <3> QED BY <1>2, <3>1, <3>2
  <2>3. /\ active' = active /\ watching' = watching /\ rpc' = rpc /\ scan' = scan /\ walker' = walker
        /\ rows' = rows /\ astray' = astray /\ clean' = {} /\ calls' = calls /\ changes' = changes + 1
    BY <2>1 DEF Change, config, threads
  <2>4. changes' \in Nat
    BY <1>2, <2>3
  <2>5. TypeOK'
    BY <1>1, <2>1, <2>2, <2>3, <2>4 DEF TypeOK
  <2>6. Config' /\ Handing'
    BY <1>1, <2>3 DEF Config, Handing, Free
  <2> QED BY <2>5, <2>6 DEF TypeInv
<1>4. CASE Mirror
  <2>1. Head(queue) \in Item /\ Tail(queue) \in Seq(Item)
    BY <1>2, <1>4 DEF Mirror
  <2>2. rows' \subseteq File /\ astray' \subseteq File
    BY <1>2, <1>4, <2>1 DEF Mirror, Item
  <2>3. /\ active' = active /\ watching' = watching /\ rpc' = rpc /\ scan' = scan /\ walker' = walker
        /\ clean' = {} /\ calls' = calls /\ changes' = changes /\ queue' = Tail(queue) /\ files' = files
    BY <1>4 DEF Mirror, config, threads, bounds
  <2>4. TypeOK'
    BY <1>1, <2>1, <2>2, <2>3 DEF TypeOK
  <2>5. Config' /\ Handing'
    BY <1>1, <2>3 DEF Config, Handing, Free
  <2> QED BY <2>4, <2>5 DEF TypeInv
<1>5. CASE RemoveRoot \/ AddRoot
  <2>1. /\ scan' = scan /\ walker' = walker /\ rows' = rows /\ astray' = astray /\ watching' = watching
        /\ queue' = queue /\ files' = files /\ changes' = changes /\ calls' = calls + 1 /\ calls' \in Nat
    BY <1>2, <1>5 DEF RemoveRoot, AddRoot, threads, Call
  <2>2. \/ active' = FALSE /\ rpc' = "unwatch" /\ clean' = {}
        \/ active' = TRUE /\ rpc' = "watch" /\ clean' = clean /\ Free # {}
    BY <1>5 DEF RemoveRoot, AddRoot
  <2>3. active' \in BOOLEAN
    BY <2>2, Zenon
  <2>4. TypeOK'
    BY <1>1, <2>1, <2>2, <2>3 DEF TypeOK
  <2>5. Config' /\ Handing'
    BY <1>1, <2>1, <2>2 DEF Config, Handing, Free
  <2> QED BY <2>4, <2>5 DEF TypeInv
<1>6. CASE Unwatch \/ PurgeRoot
  <2>1. /\ scan' = scan /\ walker' = walker /\ active' = active /\ rpc' \in {"purge", "idle"} /\ files' = files
        /\ queue' = queue /\ changes' = changes /\ calls' = calls /\ clean' \subseteq clean
        /\ rows' \subseteq rows /\ astray' \subseteq astray
    BY <1>6 DEF Unwatch, PurgeRoot, threads, bounds
  <2>2. watching' = FALSE \/ watching' = watching
    BY <1>6 DEF Unwatch, PurgeRoot
  <2>3. watching' \in BOOLEAN
    BY <1>1, <2>2, Zenon DEF TypeOK
  <2>4. ~active
    BY <1>1, <1>6 DEF Config, Unwatch, PurgeRoot
  <2>5. TypeOK'
    BY <1>1, <2>1, <2>3 DEF TypeOK
  <2>6. Config' /\ Handing'
    BY <1>1, <2>1, <2>4 DEF Config, Handing, Free
  <2> QED BY <2>5, <2>6 DEF TypeInv
<1>7. CASE Watch \/ Rescanned \/ Rescan
  <2>1. Free # {} /\ active /\ (Rescan => watching /\ \A s \in Free : Free \ {s} # {})
    <3>1. Rescan => \A s \in Free : Free \ {s} # {}
      <4> SUFFICES ASSUME Rescan, NEW s \in Free, Free \ {s} = {} PROVE FALSE
        OBVIOUS
      <4>1. Free = {s}
        OBVIOUS
      <4>2. Cardinality(Free) >= 2
        BY DEF Rescan
      <4>3. Cardinality({s}) = 1
        BY FS_Singleton
      <4>4. Cardinality(Free) = 1
        BY <4>1, <4>3, Zenon
      <4> QED BY <4>2, <4>4
    <3>2. Rescan => Free # {}
      BY FS_EmptySet DEF Rescan
    <3> QED BY <1>1, <1>7, <3>1, <3>2 DEF Config, Watch, Rescanned, Rescan, Call
  <2>2. PICK kind \in {"catchup", "rescan"} : Spawn(kind)
    BY <1>7 DEF Watch, Rescanned, Rescan
  <2>3. PICK s \in ScanId :
           /\ scan[s].at = "none" /\ scan'[s] = NewScan(kind) /\ clean' = clean \cup {s} /\ walker' = walker
           /\ \A t \in ScanId \ {s} : scan'[t] = scan[t]
           /\ scan' \in [ScanId -> Scan] /\ Free' = Free \ {s}
    BY <1>1, <2>1, <2>2, SpawnTypes
  <2>4. /\ active' = active /\ rows' = rows /\ astray' = astray /\ queue' = queue /\ files' = files
        /\ changes' = changes /\ calls' \in Nat
        /\ rpc' = "idle" \/ (rpc' = "rescan" /\ Rescan)
    BY <1>2, <1>7 DEF Watch, Rescanned, Rescan, bounds, Call
  <2>5. watching' = TRUE \/ (watching' = watching /\ watching)
    BY <1>1, <1>7, <2>1 DEF Watch, Rescanned, Rescan, Config
  <2>6. watching' \in BOOLEAN /\ watching'
    BY <2>5, Zenon
  <2>7. TypeOK'
    BY <1>1, <2>3, <2>4, <2>6 DEF TypeOK, Scan
  <2>8. Config'
    BY <1>1, <2>1, <2>3, <2>4, <2>6 DEF Config, Free
  <2>9. Handing'
    BY <1>1, <2>3 DEF Handing
  <2> QED BY <2>7, <2>8, <2>9 DEF TypeInv
<1>8. ASSUME NEW s \in ScanId, ScanStep(s) PROVE TypeInv'
  <2>1. /\ scan' \in [ScanId -> Scan] /\ scan[s].at # "none" /\ scan'[s].at # "none"
        /\ \A t \in ScanId \ {s} : scan'[t] = scan[t] /\ walker'[t] = walker[t]
        /\ walker' \in [ScanId -> [Dir -> Walker]]
    BY <1>1, <1>8, ScanTypes
  <2>2. /\ files' = files /\ active' = active /\ watching' = watching /\ rpc' = rpc
        /\ changes' = changes /\ calls' = calls
    BY <1>8, ScanFrame
  <2>3. clean' \subseteq clean /\ rows' \subseteq File /\ astray' \subseteq File
    <3>0. scan[s].batch \subseteq File
      BY <1>2 DEF Scan
    <3>1. CASE Begin(s) \/ Collect(s) \/ Submit(s) \/ Join(s) \/ Active(s) \/ Finished(s)
      BY <1>2, <3>1 DEF Begin, Collect, Submit, Join, Active, Finished, elsewhere
    <3>2. CASE Offer(s)
      BY <1>2, <3>2 DEF Offer
    <3>3. CASE \/ Flush(s, "topflush", "top", "submit") \/ Flush(s, "flush", "collect", "join")
               \/ Last(s) \/ DeleteMissing(s) \/ Sweep(s)
      BY <1>2, <3>0, <3>3 DEF Flush, Last, DeleteMissing, Sweep, Writes
    <3>4. CASE \E e \in Dir \cup InDir(Top) : Entry(s, e)
      BY <1>2, <3>4 DEF Entry
    <3>5. CASE \E f \in File : Visit(s, f)
      BY <1>2, <3>5 DEF Visit, elsewhere
    <3> QED BY <1>8, <3>1, <3>2, <3>3, <3>4, <3>5 DEF ScanStep
  <2>4. queue' \in Seq(Item)
    <3>1. CASE Offer(s)
      <4>1. [change |-> "created", path |-> scan[s].rec] \in Item
        BY <1>2, <3>1 DEF Offer, Item, Scan
      <4> QED BY <1>2, <3>1, <4>1 DEF Offer
    <3>2. CASE \/ Begin(s) \/ Flush(s, "topflush", "top", "submit") \/ Flush(s, "flush", "collect", "join")
               \/ Collect(s) \/ Last(s) \/ Submit(s) \/ Join(s)
      BY <1>2, <3>2 DEF Begin, Flush, Collect, Last, Submit, Join, others
    <3>3. CASE DeleteMissing(s) \/ Active(s) \/ Sweep(s) \/ Finished(s)
      BY <1>2, <3>3 DEF DeleteMissing, Active, Sweep, Finished, elsewhere, others
    <3>4. CASE \E e \in Dir \cup InDir(Top) : Entry(s, e)
      BY <1>2, <3>4 DEF Entry, others
    <3>5. CASE \E f \in File : Visit(s, f)
      BY <1>2, <3>5 DEF Visit, elsewhere, others
    <3> QED BY <1>8, <3>1, <3>2, <3>3, <3>4, <3>5 DEF ScanStep
  <2>5. TypeOK'
    BY <1>1, <1>2, <2>1, <2>2, <2>3, <2>4 DEF TypeOK, Scan, Walker
  <2>6. Free \subseteq Free'
    BY <2>1 DEF Free
  <2>7. Config'
    BY <1>1, <2>2, <2>3, <2>6 DEF Config
  <2>8. Handing'
    <3>1. \A d \in Dir : walker'[s][d].at = "put" <=> walker'[s][d].rec # Nil
      <4>1. CASE walker' = walker
        BY <1>1, <4>1 DEF Handing
      <4>2. CASE Submit(s)
        BY <1>2, <4>2, Records DEF Submit, NoWalker
      <4>3. CASE Join(s)
        BY <1>2, <4>3 DEF Join, NoWalker
      <4>4. \/ walker' = walker \/ Submit(s) \/ Join(s)
        <5>1. CASE \/ Begin(s) \/ Flush(s, "topflush", "top", "submit") \/ Flush(s, "flush", "collect", "join")
                   \/ Collect(s) \/ Last(s)
          BY <5>1 DEF Begin, Flush, Collect, Last
        <5>2. CASE DeleteMissing(s) \/ Active(s) \/ Sweep(s) \/ Offer(s) \/ Finished(s)
          BY <5>2 DEF DeleteMissing, Active, Sweep, Offer, Finished
        <5>3. CASE \E e \in Dir \cup InDir(Top) : Entry(s, e)
          BY <5>3 DEF Entry
        <5>4. CASE \E f \in File : Visit(s, f)
          BY <5>4 DEF Visit
        <5> QED BY <1>8, <5>1, <5>2, <5>3, <5>4 DEF ScanStep
      <4> QED BY <4>1, <4>2, <4>3, <4>4
    <3> QED BY <1>1, <2>1, <3>1 DEF Handing
  <2> QED BY <2>5, <2>7, <2>8 DEF TypeInv
<1>9. ASSUME NEW s \in ScanId, NEW d \in Dir, WalkerStep(s, d) PROVE TypeInv'
  <2>1. /\ scan' \in [ScanId -> Scan] /\ walker' \in [ScanId -> [Dir -> Walker]]
        /\ UNCHANGED elsewhere
    BY <1>1, <1>9, WalkerTypes
  <2>2. PICK w \in Walker : /\ w.at = "put" <=> w.rec # Nil
                            /\ walker' = [walker EXCEPT ![s] = [@ EXCEPT ![d] = w]]
    BY <1>1, <1>9, WalkerTypes
  <2>3. \A t \in ScanId : scan'[t].at = scan[t].at
    BY <1>1, <1>9, SameScan
  <2>4. TypeOK'
    BY <1>1, <2>1 DEF TypeOK, Scan, Walker, elsewhere, others, config, bounds
  <2>5. Config'
    BY <1>1, <2>1, <2>3 DEF Config, Free, elsewhere, others, config
  <2>6. Handing'
    BY <1>1, <1>2, <2>2 DEF Handing
  <2> QED BY <2>4, <2>5, <2>6 DEF TypeInv
<1>10. CASE UNCHANGED vars
  BY <1>1, <1>10 DEF vars, config, threads, bounds, TypeInv, TypeOK, Config, Handing, Free
<1> QED BY <1>3, <1>4, <1>5, <1>6, <1>7, <1>8, <1>9, <1>10 DEF Next, User, Rpc, System

(* Type correctness: what every variable holds in every reachable state;   *)
(* completed counts, and outbox, queue and batch hold what scan_root and   *)
(* the daemon put there (fast_scan.py).                                    *)
THEOREM TypeCorrect == Spec => []TypeOK
<1>1. TypeInv => TypeOK
  BY DEF TypeInv
<1> QED BY <1>1, TypeInit, TypeNext, PTL DEF Spec

-----------------------------------------------------------------------------
(* A removed root is clean.                                                *)

(* A scan is of the kind it was until it is over.                          *)
LEMMA Kinds ==
  ASSUME TypeOK, NEW s \in ScanId, ScanStep(s)
  PROVE  scan'[s].kind \in {scan[s].kind, "catchup"}
<1> DEFINE c == scan[s]
<1>1. scan \in [ScanId -> Scan] /\ c \in Scan /\ Over.kind = "catchup"
  BY DEF TypeOK, Scan, Over, NoScan, NewScan
<1>2. CASE Begin(s)
  BY <1>1, <1>2, BeginIs
<1>3. CASE \E e \in Dir \cup InDir(Top) : Entry(s, e)
  BY <1>3, EntryIs
<1>4. CASE Flush(s, "topflush", "top", "submit") \/ Flush(s, "flush", "collect", "join")
  BY <1>4, FlushIs
<1>5. CASE Submit(s) \/ Collect(s) \/ Join(s) \/ Last(s)
  BY <1>5, SubmitIs, CollectIs, JoinIs, LastIs
<1>6. CASE DeleteMissing(s)
  <2>1. NewScan(c.kind) \in Scan /\ NewScan(c.kind).kind = c.kind
    BY <1>1, Records DEF Scan
  <2> QED BY ZenonT(60), <1>6, <2>1, DeleteMissingIs DEF Scan
<1>7. CASE Active(s)
  <2>1. NewScan("catchup") \in Scan /\ NewScan("catchup").kind = "catchup"
    BY Records
  <2> DEFINE n == NewScan("catchup")
  <2>2. [n EXCEPT !.at = "content", !.todo = File].kind = "catchup" /\ [n EXCEPT !.at = "sweep"].kind = "catchup"
    <3> HIDE DEF n
    <3> QED BY <2>1 DEF n, Scan
  <2> QED BY <1>1, <1>7, <2>2, ActiveIs
<1>8. CASE Sweep(s) \/ Finished(s) \/ Offer(s) \/ \E f \in File : Visit(s, f)
  BY <1>1, <1>8, EndIs, OfferIs, VisitIs
<1> QED BY <1>2, <1>3, <1>4, <1>5, <1>6, <1>7, <1>8 DEF ScanStep

LEMMA RescanningNext == TypeInv /\ Rescanning /\ [Next]_vars => Rescanning'
<1> SUFFICES ASSUME TypeInv, Rescanning, [Next]_vars PROVE Rescanning'
  OBVIOUS
<1>1. TypeOK /\ Config /\ Handing /\ scan \in [ScanId -> Scan]
  BY DEF TypeInv, TypeOK, Scan
<1>2. ASSUME scan' = scan, rpc' = rpc \/ rpc # "rescan" PROVE Rescanning'
  BY <1>2 DEF Rescanning
<1>3. CASE User \/ Mirror \/ UNCHANGED vars
  BY <1>2, <1>3 DEF User, Create, Remove, Change, Mirror, vars, config, threads
<1>4. CASE RemoveRoot \/ AddRoot \/ Unwatch \/ PurgeRoot
  BY <1>2, <1>4 DEF RemoveRoot, AddRoot, Unwatch, PurgeRoot, Call, threads
<1>5. CASE Watch \/ Rescanned \/ Rescan
  <2>1. Free # {}
    BY <1>1, <1>5, FS_EmptySet DEF Config, Watch, Rescanned, Rescan
  <2>2. PICK kind \in {"catchup", "rescan"} : Spawn(kind) /\ (rpc' = "rescan" \/ kind = "catchup")
    BY <1>5 DEF Watch, Rescanned, Rescan
  <2>3. PICK s \in ScanId : /\ scan'[s] = NewScan(kind)
                            /\ \A t \in ScanId \ {s} : scan'[t] = scan[t]
    BY <1>1, <2>1, <2>2, SpawnTypes
  <2>4. scan'[s].kind = kind
    BY <2>3, Records
  <2>5. rpc' = "rescan" \/ \A t \in ScanId : scan[t].kind # "rescan"
    BY <1>5 DEF Watch, Rescanned, Rescan, Rescanning
  <2> QED BY <2>2, <2>3, <2>4, <2>5 DEF Rescanning
<1>6. ASSUME NEW s \in ScanId, ScanStep(s) PROVE Rescanning'
  <2>1. rpc' = rpc
    BY <1>1, <1>6, ScanFrame
  <2> QED BY <1>1, <1>6, <2>1, Kinds, ScanTypes DEF Rescanning
<1>7. ASSUME NEW s \in ScanId, NEW d \in Dir, WalkerStep(s, d) PROVE Rescanning'
  <2>1. rpc' = rpc
    BY <1>1, <1>7, WalkerTypes DEF elsewhere, others, config
  <2>2. \A t \in ScanId : scan'[t].kind = scan[t].kind
    BY <1>1, <1>7, SameScan
  <2> QED BY <2>1, <2>2 DEF Rescanning
<1> QED BY <1>3, <1>4, <1>5, <1>6, <1>7 DEF Next, Rpc, System

LEMMA SweptLaterNext == TypeInv /\ Rescanning /\ SweptLater /\ [Next]_vars => SweptLater'
<1> SUFFICES ASSUME TypeInv, Rescanning, SweptLater, [Next]_vars, ~active', rpc' = "idle",
                    ~(rows' \subseteq astray')
             PROVE  Sweeping'
  BY DEF SweptLater
<1>1. TypeOK /\ Config /\ Handing /\ scan \in [ScanId -> Scan]
  BY DEF TypeInv, TypeOK, Scan
<1>2. ASSUME scan' = scan, active' = active, rpc' = rpc, rows \subseteq astray => rows' \subseteq astray'
      PROVE  Sweeping'
  BY <1>2 DEF SweptLater, Sweeping
<1>3. CASE User \/ UNCHANGED vars
  BY <1>2, <1>3 DEF User, Create, Remove, Change, vars, config, threads
<1>4. CASE Mirror
  <2>1. scan' = scan /\ active' = active /\ rpc' = rpc
    BY <1>4 DEF Mirror, config, threads
  <2>2. rows \subseteq astray => rows' \subseteq astray'
    BY <1>4, <2>1 DEF Mirror
  <2> QED BY <1>2, <2>1, <2>2
<1>5. CASE RemoveRoot \/ AddRoot \/ Unwatch \/ PurgeRoot
  BY <1>5 DEF RemoveRoot, AddRoot, Unwatch, PurgeRoot
<1>6. CASE Watch \/ Rescanned \/ Rescan
  BY <1>1, <1>6 DEF Watch, Rescanned, Rescan, Config
<1>7. ASSUME NEW s \in ScanId, ScanStep(s) PROVE Sweeping'
  <2>1. active' = active /\ rpc' = rpc /\ \A t \in ScanId \ {s} : scan'[t] = scan[t]
    BY <1>1, <1>7, ScanFrame, ScanTypes
  <2>2. ShouldAbort(s) /\ scan[s].kind = "catchup" /\ ~active
    BY <1>1, <2>1 DEF ShouldAbort, Rescanning, Scan
  <2>3. ASSUME rows' = rows, astray' = astray, scan[s].at \notin {"missing", "active", "sweep"}
        PROVE  Sweeping'
    BY <2>1, <2>3 DEF SweptLater, Sweeping
  <2>4. CASE Begin(s) \/ Submit(s) \/ Collect(s) \/ Join(s) \/ Offer(s)
    BY ZenonT(60), <1>1, <2>3, <2>4, BeginIs, SubmitIs, CollectIs, JoinIs, OfferIs
  <2>5. CASE \E e \in Dir \cup InDir(Top) : Entry(s, e)
    BY <1>1, <2>3, <2>5, EntryIs
  <2>6. CASE \E f \in File : Visit(s, f)
    BY <1>1, <2>3, <2>6, VisitIs
  <2>7. CASE Flush(s, "topflush", "top", "submit") \/ Flush(s, "flush", "collect", "join")
    BY <1>1, <2>2, <2>3, <2>7, FlushIs
  <2>8. CASE Last(s)
    BY <1>1, <2>8, LastIs DEF Sweeping
  <2>9. CASE DeleteMissing(s)
    <3>1. NewScan("catchup") \in Scan
      BY Records
    <3> DEFINE n == NewScan("catchup")
    <3>2. [n EXCEPT !.at = "active"].at = "active"
      <4> HIDE DEF n
      <4> QED BY <3>1 DEF Scan, n
    <3> QED BY <1>1, <2>2, <2>9, <3>2, DeleteMissingIs DEF Sweeping
  <2>10. CASE Active(s)
    <3>1. NewScan("catchup") \in Scan
      BY Records
    <3> DEFINE n == NewScan("catchup")
    <3>2. [n EXCEPT !.at = "sweep"].at = "sweep"
      <4> HIDE DEF n
      <4> QED BY <3>1 DEF Scan, n
    <3> QED BY <1>1, <2>2, <2>10, <3>2, ActiveIs DEF Sweeping
  <2>11. CASE Sweep(s) \/ Finished(s)
    BY <1>1, <2>3, <2>11, EndIs
  <2> QED BY <1>7, <2>4, <2>5, <2>6, <2>7, <2>8, <2>9, <2>10, <2>11 DEF ScanStep
<1>8. ASSUME NEW s \in ScanId, NEW d \in Dir, WalkerStep(s, d) PROVE Sweeping'
  <2>1. rpc' = rpc /\ active' = active /\ rows' = rows /\ astray' = astray
    BY <1>1, <1>8, WalkerTypes DEF elsewhere, others, config
  <2>2. \A t \in ScanId : scan'[t].at = scan[t].at
    BY <1>1, <1>8, SameScan
  <2> QED BY <2>1, <2>2 DEF SweptLater, Sweeping
<1> QED BY <1>3, <1>4, <1>5, <1>6, <1>7, <1>8 DEF Next, Rpc, System

LEMMA RemovedInvHolds == Spec => []RemovedInv
<1>1. Init => RemovedInv
  <2>1. ASSUME Init PROVE Rescanning /\ SweptLater
    <3>1. \A s \in ScanId : scan[s].kind = "catchup"
      BY <2>1 DEF Init, NoScan, NewScan
    <3> QED BY <2>1, <3>1 DEF Init, Rescanning, SweptLater
  <2> QED BY <2>1, TypeInit DEF RemovedInv
<1>2. RemovedInv /\ [Next]_vars => RemovedInv'
  BY TypeNext, RescanningNext, SweptLaterNext DEF RemovedInv
<1> QED BY <1>1, <1>2, PTL DEF Spec

(* When no call, no scan and no item is under way, a root that was removed *)
(* has no row but those of items the worker took after the rows were       *)
(* dropped: a scan that has written late sweeps up (_catch_up_scan).       *)
THEOREM RemovedRootIsClean == Spec => []RemovedRootClean
<1>1. RemovedInv => RemovedRootClean
  BY DEF RemovedInv, SweptLater, Sweeping, RemovedRootClean, Quiet, Wedged
<1> QED BY <1>1, RemovedInvHolds, PTL

-----------------------------------------------------------------------------
(* No name is lost.                                                        *)

(* An item of the queue keeps its place behind another that is appended,   *)
(* and moves up when the worker takes the first.                           *)
LEMMA QueueGrows ==
  ASSUME queue \in Seq(Item), NEW f \in File, NEW item \in Item, item # Deletion(f),
         queue' = Append(queue, item)
  PROVE  /\ (\E i \in 1..Len(queue) : ComingFrom(f, i)) => \E i \in 1..Len(queue') : ComingFrom(f, i)'
         /\ (\A i \in 1..Len(queue) : queue[i] # Deletion(f)) => \A i \in 1..Len(queue') : queue'[i] # Deletion(f)
         /\ item = [change |-> "created", path |-> f] => \E i \in 1..Len(queue') : ComingFrom(f, i)'
<1>1. /\ Len(queue') = Len(queue) + 1 /\ queue'[Len(queue')] = item /\ Len(queue) \in Nat
      /\ \A i \in 1..Len(queue) : queue'[i] = queue[i]
  OBVIOUS
<1>2. ASSUME NEW i \in 1..Len(queue), ComingFrom(f, i) PROVE i \in 1..Len(queue') /\ ComingFrom(f, i)'
  BY <1>1, <1>2 DEF ComingFrom, Deletion
<1>3. ASSUME item = [change |-> "created", path |-> f], NEW n, n = Len(queue')
      PROVE  n \in 1..Len(queue') /\ ComingFrom(f, n)'
  BY <1>1, <1>3 DEF ComingFrom
<1>4. (\A i \in 1..Len(queue) : queue[i] # Deletion(f)) => \A i \in 1..Len(queue') : queue'[i] # Deletion(f)
  BY <1>1 DEF Deletion
<1> QED BY <1>2, <1>3, <1>4

LEMMA QueueShrinks ==
  ASSUME queue \in Seq(Item), NEW f \in File, queue # <<>>, queue' = Tail(queue)
  PROVE  /\ (\E i \in 2..Len(queue) : ComingFrom(f, i)) => \E i \in 1..Len(queue') : ComingFrom(f, i)'
         /\ (\A i \in 2..Len(queue) : queue[i] # Deletion(f)) <=> \A i \in 1..Len(queue') : queue'[i] # Deletion(f)
<1>1. /\ Len(queue') = Len(queue) - 1 /\ Len(queue) \in Nat
      /\ \A i \in 1..Len(queue') : queue'[i] = queue[i + 1]
  OBVIOUS
<1>2. ASSUME NEW i \in 2..Len(queue), ComingFrom(f, i), NEW k, k = i - 1
      PROVE  k \in 1..Len(queue') /\ ComingFrom(f, k)'
  <2>1. k \in 1..Len(queue') /\ queue'[k] = queue[i]
    BY <1>1, <1>2
  <2>2. \A j \in 1..Len(queue') : j > k => queue'[j] # Deletion(f)
    <3> TAKE j \in 1..Len(queue')
    <3>1. j + 1 \in 1..Len(queue) /\ queue'[j] = queue[j + 1] /\ (j > k => j + 1 > i)
      BY <1>1, <1>2
    <3> QED BY <1>2, <3>1 DEF ComingFrom
  <2>3. Deletion(f)' = Deletion(f)
    BY DEF Deletion
  <2> QED BY <1>2, <2>1, <2>2, <2>3 DEF ComingFrom
<1>3. (\A i \in 2..Len(queue) : queue[i] # Deletion(f))
                => \A i \in 1..Len(queue') : queue'[i] # Deletion(f)
  BY <1>1
<1>4. (\A i \in 1..Len(queue') : queue'[i] # Deletion(f)) => \A i \in 2..Len(queue) : queue[i] # Deletion(f)
  <2> SUFFICES ASSUME \A i \in 1..Len(queue') : queue'[i] # Deletion(f), NEW i \in 2..Len(queue)
               PROVE  queue[i] # Deletion(f)
    OBVIOUS
  <2>1. i - 1 \in 1..Len(queue') /\ queue'[i - 1] = queue[i]
    BY <1>1
  <2> QED BY <2>1
<1> QED BY <1>2, <1>3, <1>4

LEMMA NamesNext == RemovedInv /\ NamesComing /\ [Next]_vars => NamesComing'
<1> SUFFICES ASSUME RemovedInv, NamesComing, [Next]_vars, active', rpc' = "idle", NEW f \in files'
             PROVE  Coming(f)' \/ Stays(f)'
  BY DEF NamesComing
<1> USE Universe
<1>1. TypeInv /\ TypeOK /\ Config /\ Handing /\ Rescanning /\ scan \in [ScanId -> Scan]
      /\ files \subseteq File /\ queue \in Seq(Item)
  BY DEF RemovedInv, TypeInv, TypeOK, Scan
<1>2. TypeOK' /\ f \in File
  BY <1>1, TypeNext DEF TypeInv, TypeOK
<1> DEFINE Planned == \E s \in ScanId : WillQueue(s, f)
           Queued == \E i \in 1..Len(queue) : ComingFrom(f, i)
           Undeleted == \A i \in 1..Len(queue) : queue[i] # Deletion(f)
           Named == f \in rows \cup astray
<1>3. (Planned' \/ Queued' \/ (Named' /\ Undeleted')) => Coming(f)' \/ Stays(f)'
  BY DEF Coming, Stays, Deletion
<1>4. active /\ rpc = "idle" /\ f \in files => Planned \/ Queued \/ (Named /\ Undeleted)
  BY DEF Coming, Stays, NamesComing
<1>5. queue' = queue => (Queued' <=> Queued) /\ (Undeleted' <=> Undeleted)
  BY DEF ComingFrom, Deletion
<1>6. scan' = scan => (Planned' <=> Planned)
  BY DEF WillQueue
<1> HIDE DEF Planned, Queued, Undeleted, Named
<1>7. CASE \E g \in File : Create(g) \/ Remove(g)
  <2>1. PICK g \in File, change \in {"created", "deleted"} :
          /\ Change(change, g)
          /\ \/ change = "created" /\ g \notin files /\ files' = files \cup {g}
             \/ change = "deleted" /\ files' = files \ {g}
    BY <1>7 DEF Create, Remove
  <2> DEFINE item == [change |-> change, path |-> g]
  <2>2. /\ active /\ rpc = "idle" /\ scan' = scan /\ rows' = rows /\ astray' = astray
        /\ queue' = Append(queue, item) /\ item \in Item
    <3>1. active' = active /\ rpc' = rpc /\ scan' = scan /\ rows' = rows /\ astray' = astray
      BY <2>1 DEF Change, config, threads
    <3>2. watching
      BY <1>1, <3>1 DEF Config
    <3> QED BY <2>1, <3>1, <3>2 DEF Change, Item
  <2>3. item # Deletion(f)
    BY <2>1 DEF Deletion
  <2>4. /\ Queued => Queued'
        /\ Undeleted => Undeleted'
        /\ item = [change |-> "created", path |-> f] => Queued'
    BY <1>1, <1>2, <2>2, <2>3, QueueGrows DEF Queued, Undeleted, Deletion
  <2>5. Named => Named'
    BY <2>2 DEF Named
  <2> QED BY <1>3, <1>4, <1>6, <2>1, <2>2, <2>4, <2>5
<1>8. CASE Mirror
  <2> DEFINE g == Head(queue).path
  <2>1. /\ scan' = scan /\ files' = files /\ active' = active /\ rpc' = rpc /\ queue # <<>> /\ queue' = Tail(queue)
        /\ Head(queue).change = "deleted" => rows' = rows \ {g} /\ astray' = astray \ {g}
        /\ Head(queue).change # "deleted" => rows' = rows \cup {g} /\ (active => astray' = astray \ {g})
    BY <1>8 DEF Mirror, config, threads
  <2>2. queue[1] = Head(queue) /\ Head(queue) \in Item /\ Len(queue) \in Nat /\ Len(queue) # 0
    BY <1>1, <2>1
  <2>3. /\ (\E i \in 2..Len(queue) : ComingFrom(f, i)) => Queued'
        /\ (\A i \in 2..Len(queue) : queue[i] # Deletion(f)) => Undeleted'
    <3>1. /\ (\E i \in 2..Len(queue) : ComingFrom(f, i)) => \E i \in 1..Len(queue') : ComingFrom(f, i)'
          /\ (\A i \in 2..Len(queue) : queue[i] # Deletion(f)) <=> \A i \in 1..Len(queue') : queue'[i] # Deletion(f)
      BY <1>1, <1>2, <2>1, QueueShrinks
    <3> QED BY <3>1 DEF Queued, Undeleted, Deletion
  <2>4. CASE Planned
    BY <1>3, <1>6, <2>1, <2>4
  <2>5. CASE Queued /\ ~ComingFrom(f, 1)
    <3>1. \E i \in 2..Len(queue) : ComingFrom(f, i)
      BY <2>2, <2>5 DEF Queued
    <3> QED BY <1>3, <2>3, <3>1
  <2>6. CASE ComingFrom(f, 1)
    <3>1. Head(queue).change # "deleted" /\ g = f
      BY <2>2, <2>6 DEF ComingFrom
    <3>2. \A i \in 2..Len(queue) : queue[i] # Deletion(f)
      BY <2>2, <2>6 DEF ComingFrom
    <3> QED BY <1>3, <2>1, <2>3, <3>1, <3>2 DEF Named
  <2>7. CASE Named /\ Undeleted
    <3>1. \A i \in 2..Len(queue) : queue[i] # Deletion(f)
      BY <2>7 DEF Undeleted
    <3>2. Head(queue) # Deletion(f)
      BY <2>2, <2>7 DEF Undeleted
    <3>3. Head(queue).change = "deleted" => g # f
      BY <2>2, <3>2 DEF Item, Deletion
    <3>4. Named'
      BY <2>1, <2>7, <3>3 DEF Named
    <3> QED BY <1>3, <2>3, <3>1, <3>4
  <2> QED BY <1>4, <2>1, <2>4, <2>5, <2>6, <2>7
<1>9. CASE RemoveRoot \/ AddRoot \/ Unwatch \/ PurgeRoot \/ Rescan
  BY <1>1, <1>9 DEF RemoveRoot, AddRoot, Unwatch, PurgeRoot, Rescan, Config
<1>10. CASE Watch \/ Rescanned
  <2>1. Free # {} /\ Spawn("catchup")
    BY <1>1, <1>10 DEF Config, Watch, Rescanned
  <2>2. PICK s \in ScanId : scan'[s] = NewScan("catchup")
    BY <1>1, <2>1, SpawnTypes
  <2>3. WillQueue(s, f)'
    BY <2>2 DEF WillQueue, NewScan
  <2> QED BY <1>3, <2>3 DEF Planned
<1>11. ASSUME NEW s \in ScanId, ScanStep(s) PROVE Coming(f)' \/ Stays(f)'
  <2>1. /\ active /\ rpc = "idle" /\ f \in files /\ \A t \in ScanId \ {s} : scan'[t] = scan[t]
    BY <1>1, <1>11, ScanFrame, ScanTypes
  <2>2. ~ShouldAbort(s) /\ scan[s].kind = "catchup"
    BY <1>1, <2>1 DEF ShouldAbort, Rescanning, Scan
  <2>3. WillQueue(s, f)' => Planned'
    BY DEF Planned
  <2>4. (WillQueue(s, f) => WillQueue(s, f)') => (Planned => Planned')
    <3>1. \A t \in ScanId \ {s} : WillQueue(t, f) => WillQueue(t, f)'
      BY <2>1 DEF WillQueue
    <3> QED BY <3>1 DEF Planned
  <2>5. ASSUME rows \subseteq rows', astray \subseteq rows' \cup astray', queue' = queue,
               WillQueue(s, f) => WillQueue(s, f)'
        PROVE  Coming(f)' \/ Stays(f)'
    <3>1. Named => Named'
      BY <2>5 DEF Named
    <3> QED BY <1>3, <1>4, <1>5, <2>1, <2>4, <2>5, <3>1
  <2>6. CASE Begin(s)
    BY <1>1, <2>2, <2>5, <2>6, BeginIs DEF WillQueue
  <2>7. CASE \E e \in Dir \cup InDir(Top) : Entry(s, e)
    BY <1>1, <2>2, <2>5, <2>7, EntryIs DEF WillQueue
  <2>8. CASE Flush(s, "topflush", "top", "submit") \/ Flush(s, "flush", "collect", "join")
    BY <1>1, <2>2, <2>5, <2>8, FlushIs DEF WillQueue
  <2>9. CASE Submit(s) \/ Collect(s) \/ Join(s)
    BY <1>1, <2>2, <2>5, <2>9, SubmitIs, CollectIs, JoinIs DEF WillQueue
  <2>10. CASE Last(s)
    BY <1>1, <2>2, <2>5, <2>10, LastIs DEF WillQueue
  <2>11. CASE DeleteMissing(s)
    <3>1. scan'[s] = [NewScan("catchup") EXCEPT !.at = "active"]
      BY <1>1, <2>2, <2>11, DeleteMissingIs
    <3>2. WillQueue(s, f)'
      BY <3>1 DEF WillQueue, NewScan
    <3> QED BY <1>3, <2>3, <3>2
  <2>12. CASE Active(s)
    <3>1. scan'[s] = [NewScan("catchup") EXCEPT !.at = "content", !.todo = File]
      BY <1>1, <2>1, <2>2, <2>12, ActiveIs
    <3>2. WillQueue(s, f)'
      BY <1>2, <3>1 DEF WillQueue, NewScan
    <3> QED BY <1>3, <2>3, <3>2
  <2>13. CASE Sweep(s)
    <3>1. ~WillQueue(s, f) /\ queue' = queue /\ astray' = files
      BY <1>1, <2>1, <2>13, EndIs DEF WillQueue
    <3>2. Named'
      BY <2>1, <3>1 DEF Named
    <3> QED BY <1>3, <1>4, <1>5, <2>1, <2>4, <3>1, <3>2
  <2>14. CASE \E g \in File : Visit(s, g)
    <3>1. PICK g \in File : Visit(s, g)
      BY <2>14
    <3>2. /\ rows' = rows /\ astray' = astray /\ queue' = queue /\ scan[s].at = "content" /\ scan[s].rec = Nil
          /\ scan'[s].at = "content" /\ scan'[s].todo = scan[s].todo \ {g}
          /\ g \in files => scan'[s].rec = g
      BY <1>1, <2>1, <3>1, VisitIs
    <3>3. WillQueue(s, f) => WillQueue(s, f)'
      BY <1>2, <2>1, <3>2 DEF WillQueue
    <3> QED BY <2>5, <3>2, <3>3
  <2>15. CASE Offer(s)
    <3> DEFINE item == [change |-> "created", path |-> scan[s].rec]
    <3>1. /\ scan[s].at = "content" /\ scan'[s].at = "content" /\ scan[s].rec \in File /\ queue' = Append(queue, item)
          /\ rows' = rows /\ astray' = astray /\ scan'[s].todo = scan[s].todo
      BY <1>1, <2>15, OfferIs
    <3>2. item \in Item /\ item # Deletion(f)
      BY <3>1 DEF Item, Deletion
    <3>3. /\ Queued => Queued'
          /\ Undeleted => Undeleted'
          /\ item = [change |-> "created", path |-> f] => Queued'
      BY <1>1, <1>2, <3>1, <3>2, QueueGrows DEF Queued, Undeleted, Deletion
    <3>4. Named => Named'
      BY <3>1 DEF Named
    <3>5. WillQueue(s, f) /\ scan[s].rec # f => WillQueue(s, f)'
      BY <3>1 DEF WillQueue
    <3> QED BY <1>3, <1>4, <2>1, <2>4, <3>3, <3>4, <3>5
  <2>16. CASE Finished(s)
    <3>1. ~WillQueue(s, f) /\ rows' = rows /\ astray' = astray /\ queue' = queue
      BY <1>1, <1>2, <2>16, EndIs DEF WillQueue
    <3> QED BY <2>5, <3>1
  <2> QED BY <1>11, <2>6, <2>7, <2>8, <2>9, <2>10, <2>11, <2>12, <2>13, <2>14, <2>15, <2>16 DEF ScanStep
<1>12. ASSUME NEW s \in ScanId, NEW d \in Dir, WalkerStep(s, d) PROVE Coming(f)' \/ Stays(f)'
  <2>1. rpc' = rpc /\ active' = active /\ rows' = rows /\ astray' = astray /\ queue' = queue /\ files' = files
    BY <1>1, <1>12, WalkerTypes DEF elsewhere, others, config
  <2>2. Planned => Planned'
    BY <1>1, <1>12, SameScan DEF Planned, WillQueue
  <2>3. Named => Named'
    BY <2>1 DEF Named
  <2> QED BY <1>3, <1>4, <1>5, <2>1, <2>2, <2>3
<1>13. CASE UNCHANGED vars
  <2>1. rpc' = rpc /\ active' = active /\ rows' = rows /\ astray' = astray /\ queue' = queue /\ files' = files
        /\ scan' = scan
    BY <1>13 DEF vars, config, threads
  <2>2. Named => Named'
    BY <2>1 DEF Named
  <2> QED BY <1>3, <1>4, <1>5, <1>6, <2>1, <2>2
<1> QED BY <1>7, <1>8, <1>9, <1>10, <1>11, <1>12, <1>13 DEF Next, User, Rpc, System

LEMMA NamesInit == Init => NamesComing
<1> SUFFICES ASSUME Init, NEW f \in files PROVE Coming(f) \/ Stays(f)
  BY DEF NamesComing
<1>1. CASE scan = [s \in ScanId |-> IF s = 1 THEN NewScan("catchup") ELSE NoScan]
  <2>1. 1 \in ScanId /\ scan[1] = NewScan("catchup")
    BY <1>1, Bounds DEF ScanId
  <2>2. WillQueue(1, f)
    BY <2>1 DEF WillQueue, NewScan
  <2> QED BY <2>1, <2>2 DEF Coming
<1>2. CASE rows = files
  BY <1>2 DEF Init, Stays
<1> QED BY <1>1, <1>2 DEF Init

(* When no call, no scan and no item is under way, every file of a root    *)
(* that is registered has its name in the index, though scans delete the   *)
(* rows of files they have not met: scan_root deletes before the catch-up  *)
(* scan queues every file.                                                 *)
THEOREM NamesAreCaughtUp == Spec => []NamesCaughtUp
<1>1. Init => NamesInv
  <2>1. Init => Rescanning /\ SweptLater
    BY DEF Init, Rescanning, SweptLater, NoScan, NewScan
  <2> QED BY <2>1, TypeInit, NamesInit DEF NamesInv, RemovedInv
<1>2. NamesInv /\ [Next]_vars => NamesInv'
  BY TypeNext, RescanningNext, SweptLaterNext, NamesNext DEF NamesInv, RemovedInv
<1>3. NamesInv => NamesCaughtUp
  <2> SUFFICES ASSUME NamesComing, Quiet, active, NEW f \in files, f \notin astray PROVE f \in rows
    BY DEF NamesInv, NamesCaughtUp
  <2>1. queue = <<>> /\ rpc = "idle" /\ \A s \in ScanId : scan[s].at \in {"none", "end", "join"}
    BY DEF Quiet, Wedged
  <2>2. ~Coming(f)
    BY <2>1 DEF Coming, WillQueue
  <2> QED BY <2>1, <2>2 DEF NamesComing, Stays
<1> QED BY <1>1, <1>2, <1>3, PTL DEF Spec

-----------------------------------------------------------------------------
(* The walkers of a scan, its outbox and its count.                        *)

LEMMA WalkersNext == WalkersInv /\ [Next]_vars => WalkersInv'
<1> SUFFICES ASSUME WalkersInv, [Next]_vars PROVE \A s \in ScanId : InPlace(s)'
  BY TypeNext DEF WalkersInv
<1> USE Universe
<1>1. /\ TypeInv /\ TypeOK /\ Config /\ Handing /\ scan \in [ScanId -> Scan] /\ walker \in [ScanId -> [Dir -> Walker]]
      /\ \A s \in ScanId : InPlace(s)
  BY DEF WalkersInv, TypeInv, TypeOK, Scan, Walker
<1>2. TypeInv' /\ scan' \in [ScanId -> Scan] /\ walker' \in [ScanId -> [Dir -> Walker]]
  BY <1>1, TypeNext DEF TypeInv, TypeOK, Scan, Walker
<1>3. ASSUME NEW t \in ScanId, scan'[t] = scan[t], walker'[t] = walker[t] PROVE InPlace(t)'
  <2>1. Ended(t)' = Ended(t) /\ InPlace(t) /\ (Collecting(t)' <=> Collecting(t))
    BY <1>1, <1>3 DEF Ended, Collecting
  <2>2. scan'[t].completed + Count(scan'[t].outbox, Done) = Cardinality(Ended(t)')
    BY <1>3, <2>1 DEF InPlace
  <2> QED BY <1>3, <2>1, <2>2 DEF InPlace, InDir
<1>4. ASSUME NEW t \in ScanId, ~Collecting(t)', scan'[t].outbox = <<>>, scan'[t].completed = 0,
             \A d \in Dir : walker'[t][d] = NoWalker
      PROVE  InPlace(t)'
  <2>1. Count(scan'[t].outbox, Done) = 0 /\ Cardinality(Ended(t)') = 0
    <3>1. Ended(t)' = {}
      BY <1>4 DEF Ended, NoWalker
    <3>2. Positions(<<>>, Done) = {}
      BY DEF Positions
    <3> QED BY <1>4, <3>1, <3>2, FS_EmptySet DEF Count
  <2>2. scan'[t].completed + Count(scan'[t].outbox, Done) = Cardinality(Ended(t)')
    BY <1>4, <2>1
  <2>3. NoWalker.todo = {} /\ NoWalker.rec = Nil
    BY DEF NoWalker
  <2>4. scan'[t].at # "join"
    BY <1>4 DEF Collecting
  <2> QED BY <1>4, <2>2, <2>3, <2>4 DEF InPlace
<1>5. ASSUME NEW t \in ScanId, ~Collecting(t)
      PROVE  scan[t].outbox = <<>> /\ scan[t].completed = 0 /\ \A d \in Dir : walker[t][d] = NoWalker
  BY <1>1, <1>5 DEF InPlace
<1>6. CASE User \/ Mirror \/ RemoveRoot \/ AddRoot \/ Unwatch \/ PurgeRoot \/ UNCHANGED vars
  BY <1>3, <1>6 DEF User, Create, Remove, Change, Mirror, RemoveRoot, AddRoot, Unwatch, PurgeRoot, vars, threads
<1>7. CASE Watch \/ Rescanned \/ Rescan
  <2>0. Rescan => Free # {}
    BY FS_EmptySet DEF Rescan
  <2>1. Free # {}
    BY <1>1, <1>7, <2>0 DEF Config, Watch, Rescanned
  <2>2. PICK kind \in {"catchup", "rescan"} : Spawn(kind)
    BY <1>7 DEF Watch, Rescanned, Rescan
  <2>3. PICK s \in ScanId : /\ scan[s].at = "none" /\ scan'[s] = NewScan(kind) /\ walker' = walker
                            /\ \A t \in ScanId \ {s} : scan'[t] = scan[t]
    BY <1>1, <2>1, <2>2, SpawnTypes
  <2>4. ~Collecting(s) /\ ~Collecting(s)' /\ scan'[s].outbox = <<>> /\ scan'[s].completed = 0
    BY <2>3 DEF Collecting, NewScan
  <2>5. InPlace(s)'
    BY <1>4, <1>5, <2>3, <2>4
  <2> QED BY <1>3, <2>3, <2>5
<1>8. ASSUME NEW s \in ScanId, ScanStep(s) PROVE InPlace(s)'
  <2>1. CASE Begin(s)
    <3>0. Over.at = "end" /\ Over.outbox = <<>> /\ Over.completed = 0
      BY DEF Over, NoScan, NewScan
    <3>1. ~Collecting(s) /\ ~Collecting(s)' /\ walker' = walker
      BY <1>1, <2>1, <3>0, BeginIs DEF Collecting
    <3>2. scan'[s].outbox = <<>> /\ scan'[s].completed = 0
      BY <1>1, <1>5, <2>1, <3>0, <3>1, BeginIs
    <3> QED BY <1>4, <1>5, <3>1, <3>2
  <2>2. CASE (\E e \in Dir \cup InDir(Top) : Entry(s, e)) \/ Flush(s, "topflush", "top", "submit")
    <3>1. /\ scan[s].at \in {"top", "topflush"} /\ scan'[s].at \in {"top", "topflush", "submit"} /\ walker' = walker
          /\ scan'[s].outbox = scan[s].outbox /\ scan'[s].completed = scan[s].completed
      <4>1. CASE \E e \in Dir \cup InDir(Top) : Entry(s, e)
        <5>1. PICK e \in Dir \cup InDir(Top) : Entry(s, e)
          BY <4>1
        <5> QED BY <1>1, <5>1, EntryIs
      <4>2. CASE Flush(s, "topflush", "top", "submit")
        BY <1>1, <4>2, FlushIs
      <4> QED BY <2>2, <4>1, <4>2
    <3>2. ~Collecting(s) /\ ~Collecting(s)'
      BY <3>1 DEF Collecting
    <3> QED BY <1>4, <1>5, <3>1, <3>2
  <2>3. CASE Flush(s, "flush", "collect", "join")
    <3>1. /\ scan[s].at = "flush" /\ walker' = walker /\ scan'[s].subs = scan[s].subs
          /\ scan'[s].outbox = scan[s].outbox /\ scan'[s].completed = scan[s].completed
          /\ \/ scan'[s].at = "collect"
             \/ scan'[s].at = "join" /\ scan'[s].aborted
      BY <1>1, <2>3, FlushIs
    <3>2. Collecting(s)' /\ InPlace(s)
      BY <1>1, <3>1 DEF Collecting
    <3> QED BY <3>1, <3>2 DEF InPlace, Ended, InDir
  <2>4. CASE Submit(s)
    <3>1. /\ ~Collecting(s) /\ Collecting(s)' /\ scan'[s].at = "collect" /\ scan'[s].outbox = scan[s].outbox
          /\ scan'[s].completed = scan[s].completed /\ scan'[s].subs = scan[s].subs
          /\ \A d \in Dir : walker'[s][d] = IF d \in scan[s].subs THEN [NoWalker EXCEPT !.at = "wait"] ELSE NoWalker
      BY <1>1, <2>4, SubmitIs DEF Collecting
    <3>2. \A d \in Dir : walker'[s][d].at \in {"wait", "none"} /\ walker'[s][d].todo = {} /\ walker'[s][d].rec = Nil
      BY <3>1 DEF NoWalker
    <3>3. Ended(s)' = {} /\ Ended(s) = {} /\ InPlace(s)
      BY <1>1, <1>5, <3>1, <3>2 DEF Ended, NoWalker
    <3>4. scan'[s].completed + Count(scan'[s].outbox, Done) = Cardinality(Ended(s)')
      BY <3>1, <3>3 DEF InPlace
    <3> QED BY <3>1, <3>2, <3>4 DEF InPlace
  <2>5. CASE Collect(s)
    <3> DEFINE f == Head(scan[s].outbox)
    <3>1. /\ scan[s].at = "collect" /\ scan[s].outbox # <<>> /\ walker' = walker /\ scan'[s].subs = scan[s].subs
          /\ scan'[s].outbox = Tail(scan[s].outbox) /\ scan'[s].at \in {"collect", "flush"}
          /\ f = Done => scan'[s].completed = scan[s].completed + 1
          /\ f # Done => scan'[s].completed = scan[s].completed
      BY <1>1, <2>5, CollectIs
    <3>2. scan[s].outbox \in Seq(File \cup {Done}) /\ scan[s].completed \in Nat /\ InPlace(s)
      BY <1>1 DEF Scan
    <3>3. scan'[s].completed + Count(scan'[s].outbox, Done) = scan[s].completed + Count(scan[s].outbox, Done)
      BY <3>1, <3>2, CountTail, CountType
    <3>4. Ended(s)' = Ended(s) /\ Collecting(s)' /\ scan'[s].at # "join"
      BY <3>1 DEF Ended, Collecting
    <3> QED BY <3>1, <3>2, <3>3, <3>4 DEF InPlace, InDir
  <2>6. CASE Join(s)
    <3>1. ~Collecting(s)' /\ scan'[s].outbox = <<>> /\ scan'[s].completed = 0 /\ \A d \in Dir : walker'[s][d] = NoWalker
      BY <1>1, <2>6, JoinIs DEF Collecting
    <3> QED BY <1>4, <3>1
  <2>7. CASE Last(s)
    <3>1. /\ ~Collecting(s) /\ ~Collecting(s)' /\ walker' = walker
          /\ scan'[s].outbox = scan[s].outbox /\ scan'[s].completed = scan[s].completed
      BY <1>1, <2>7, LastIs DEF Collecting
    <3> QED BY <1>4, <1>5, <3>1
  <2>8. CASE DeleteMissing(s) \/ Active(s)
    <3>1. ~Collecting(s) /\ walker' = walker
      BY <1>1, <2>8, DeleteMissingIs, ActiveIs DEF Collecting
    <3>2. ~Collecting(s)' /\ scan'[s].outbox = <<>> /\ scan'[s].completed = 0
      <4>1. CASE DeleteMissing(s)
        <5>1. scan'[s] = [NewScan(scan[s].kind) EXCEPT !.at = "active"]
          BY <1>1, <4>1, DeleteMissingIs
        <5> QED BY <5>1 DEF NewScan, Collecting
      <4>2. CASE Active(s)
        <5>1. scan'[s] \in {Over, [NewScan("catchup") EXCEPT !.at = "content", !.todo = File],
                            [NewScan("catchup") EXCEPT !.at = "sweep"]}
          BY <1>1, <4>2, ActiveIs
        <5> QED BY <5>1 DEF NewScan, Over, NoScan, Collecting
      <4> QED BY <2>8, <4>1, <4>2
    <3> QED BY <1>4, <1>5, <3>1, <3>2
  <2>9. CASE Sweep(s) \/ Finished(s) \/ Offer(s) \/ \E f \in File : Visit(s, f)
    <3>1. ~Collecting(s) /\ walker' = walker
      BY <1>1, <2>9, EndIs, OfferIs, VisitIs DEF Collecting
    <3>2. \/ scan'[s] = Over
          \/ scan'[s].at = "content" /\ scan'[s].outbox = scan[s].outbox /\ scan'[s].completed = scan[s].completed
      BY <1>1, <2>9, EndIs, OfferIs, VisitIs
    <3>3. ~Collecting(s)' /\ scan'[s].outbox = <<>> /\ scan'[s].completed = 0
      BY <1>5, <3>1, <3>2 DEF Over, NoScan, NewScan, Collecting
    <3> QED BY <1>4, <1>5, <3>1, <3>3
  <2> QED BY <1>8, <2>1, <2>2, <2>3, <2>4, <2>5, <2>6, <2>7, <2>8, <2>9 DEF ScanStep
<1>9. ASSUME NEW s \in ScanId, NEW d \in Dir, WalkerStep(s, d) PROVE InPlace(s)'
  <2> DEFINE v == walker[s][d]
             c == scan[s]
  <2>0. v \in Walker /\ c \in Scan /\ c.outbox \in Seq(File \cup {Done}) /\ c.completed \in Nat /\ InPlace(s)
    BY <1>1 DEF Scan
  <2>1. PICK w \in Walker : /\ w.at = "put" <=> w.rec # Nil
                            /\ walker' = [walker EXCEPT ![s] = [@ EXCEPT ![d] = w]]
    BY <1>1, <1>9, WalkerTypes
  <2>2. walker'[s][d] = w /\ \A e \in Dir \ {d} : walker'[s][e] = walker[s][e]
    BY <1>1, <2>1
  <2>3. v.at \notin {"none", "end"} /\ Collecting(s) /\ d \in c.subs
    <3>1. v.at \in {"wait", "walk", "put", "fin"}
      BY <1>9 DEF WalkerStep, List, Look, Hand, Walked
    <3> QED BY <2>0, <3>1 DEF InPlace, NoWalker
  <2>4. Collecting(s)' /\ c.subs = scan'[s].subs /\ c.completed = scan'[s].completed
        /\ (scan'[s].at = "join" => scan'[s].aborted)
    BY <1>1, <1>9, <2>0, <2>3, SameScan DEF Collecting, InPlace
  <2>5. w.todo \subseteq InDir(d) /\ (w.rec # Nil => w.rec \in InDir(d))
    <3>1. v.todo \subseteq InDir(d)
      BY <2>0 DEF InPlace
    <3>2. CASE List(s, d)
      <4>1. w.todo \subseteq InDir(d) /\ w.rec = Nil
        BY <1>1, <2>2, <3>2 DEF List, SetWalker, NoWalker
      <4> QED BY <4>1
    <3>3. CASE \E f \in File : Look(s, d, f)
      <4>1. w.todo \subseteq v.todo /\ w.rec \in v.todo \cup {Nil}
        BY <1>1, <2>2, <3>3, LookIs
      <4> QED BY <3>1, <4>1
    <3>4. CASE Hand(s, d)
      <4>1. w = [v EXCEPT !.at = "walk", !.rec = Nil]
        BY <1>1, <2>2, <3>4 DEF Hand, SetWalker
      <4> QED BY <2>0, <3>1, <4>1 DEF Walker
    <3>5. CASE Walked(s, d)
      <4>1. w = [NoWalker EXCEPT !.at = "end"]
        BY <1>1, <2>2, <3>5 DEF Walked, SetWalker
      <4> QED BY <4>1 DEF NoWalker
    <3> QED BY <1>9, <3>2, <3>3, <3>4, <3>5 DEF WalkerStep
  <2>6. scan'[s].completed + Count(scan'[s].outbox, Done) = Cardinality(Ended(s)')
    <3>1. c.completed + Count(c.outbox, Done) = Cardinality(Ended(s)) /\ Count(c.outbox, Done) \in Nat
      BY <2>0, CountType DEF InPlace
    <3>2. CASE Walked(s, d)
      <4>1. w.at = "end" /\ scan'[s].outbox = Append(c.outbox, Done)
        BY <1>1, <2>0, <2>2, <3>2 DEF Walked, SetWalker, Put, NoWalker, Scan
      <4>2. Ended(s)' = Ended(s) \cup {d} /\ d \notin Ended(s) /\ IsFiniteSet(Ended(s))
        BY <2>2, <2>3, <4>1, FS_Subset DEF Ended
      <4>3. Cardinality(Ended(s)') = Cardinality(Ended(s)) + 1
        BY <4>2, FS_AddElement
      <4>4. Count(scan'[s].outbox, Done) = Count(c.outbox, Done) + 1
        BY <2>0, <4>1, CountAppend
      <4> QED BY <2>0, <2>4, <3>1, <4>3, <4>4
    <3>3. CASE ~Walked(s, d)
      <4>1. w.at # "end"
        <5>1. [NoWalker EXCEPT !.at = "fin"].at = "fin"
          BY DEF NoWalker
        <5>2. CASE List(s, d)
          BY <1>1, <2>2, <5>1, <5>2 DEF List, SetWalker
        <5>3. CASE \E f \in File : Look(s, d, f)
          <6>1. w.at \in {"fin", "walk", "put"}
            BY <1>1, <2>2, <5>3, LookIs
          <6> QED BY <6>1
        <5>4. CASE Hand(s, d)
          <6>1. w = [v EXCEPT !.at = "walk", !.rec = Nil]
            BY <1>1, <2>2, <5>4 DEF Hand, SetWalker
          <6> QED BY <2>0, <6>1 DEF Walker
        <5> QED BY <1>9, <3>3, <5>2, <5>3, <5>4 DEF WalkerStep
      <4>2. Ended(s)' = Ended(s)
        BY <2>2, <2>3, <4>1 DEF Ended
      <4>3. scan'[s].outbox = c.outbox \/ \E item \in File : scan'[s].outbox = Append(c.outbox, item)
        <5>1. CASE List(s, d) \/ \E f \in File : Look(s, d, f)
          BY <5>1 DEF List, Look
        <5>2. CASE Hand(s, d)
          <6>1. v.rec \in File
            BY <1>1, <2>0, <5>2 DEF Hand, Handing, Walker
          <6> QED BY <1>1, <5>2, <6>1 DEF Hand, Put, Scan
        <5> QED BY <1>9, <3>3, <5>1, <5>2 DEF WalkerStep
      <4>4. Count(scan'[s].outbox, Done) = Count(c.outbox, Done)
        <5>1. CASE scan'[s].outbox = c.outbox
          BY <5>1
        <5>2. CASE \E item \in File : scan'[s].outbox = Append(c.outbox, item)
          <6>1. PICK item \in File : scan'[s].outbox = Append(c.outbox, item)
            BY <5>2
          <6>2. item # Done /\ item \in File \cup {Done}
            OBVIOUS
          <6> QED BY <2>0, <6>1, <6>2, CountAppend
        <5> QED BY <4>3, <5>1, <5>2
      <4> QED BY <2>4, <3>1, <4>2, <4>4
    <3> QED BY <3>2, <3>3
  <2>7. \A e \in Dir : e \notin scan'[s].subs => walker'[s][e] = NoWalker
    BY <2>0, <2>2, <2>3, <2>4 DEF InPlace
  <2>8. \A e \in Dir : /\ walker'[s][e].todo \subseteq InDir(e)
                       /\ walker'[s][e].rec # Nil => walker'[s][e].rec \in InDir(e)
    BY <2>0, <2>2, <2>5 DEF InPlace
  <2> QED BY <2>4, <2>6, <2>7, <2>8 DEF InPlace, InDir
<1>10. ASSUME NEW s \in ScanId, ScanStep(s) \/ \E d \in Dir : WalkerStep(s, d) PROVE \A t \in ScanId : InPlace(t)'
  <2>1. \A t \in ScanId \ {s} : scan'[t] = scan[t] /\ walker'[t] = walker[t]
    BY <1>1, <1>10, ScanTypes, WalkerTypes
  <2> QED BY <1>3, <1>8, <1>9, <1>10, <2>1
<1> QED BY <1>6, <1>7, <1>10 DEF Next, Rpc, System

-----------------------------------------------------------------------------
(* A scan nobody interferes with is exact.                                 *)

(* Its walkers: no file is lost between a directory and the outbox.        *)
LEMMA BelowWalker ==
  ASSUME WalkersInv, NEW s \in ScanId, NEW d \in Dir, WalkerStep(s, d), ~ShouldAbort(s), Below(s),
         scan[s].at \in {"collect", "flush"}
  PROVE  Below(s)'
<1> USE Universe
<1> DEFINE v == walker[s][d]
           c == scan[s]
<1>1. /\ TypeOK /\ Handing /\ scan \in [ScanId -> Scan] /\ walker \in [ScanId -> [Dir -> Walker]]
      /\ v \in Walker /\ c \in Scan /\ InPlace(s) /\ files \subseteq File
      /\ c.outbox \in Seq(File \cup {Done}) /\ Len(c.outbox) \in Nat
  BY DEF WalkersInv, TypeInv, TypeOK, Scan, Walker
<1>2. PICK w \in Walker : walker' = [walker EXCEPT ![s] = [@ EXCEPT ![d] = w]]
  BY SMTT(30), <1>1, WalkerTypes
<1>3. walker'[s][d] = w /\ \A e \in Dir \ {d} : walker'[s][e] = walker[s][e]
  BY <1>1, <1>2
<1>4. /\ scan'[s].at = c.at /\ scan'[s].subs = c.subs /\ scan'[s].keep = c.keep /\ files' = files
  BY <1>1, SameScan, WalkerTypes DEF elsewhere, others
<1>5. /\ c.subs = Dir
      /\ \A e \in Dir : walker[s][e].at \notin {"fin", "none"} /\ walker[s][e].rec \in files \cup {Nil}
      /\ \A f \in files : f \in c.keep \/ (DirOf[f] \in Dir /\ OnItsWay(s, f))
      /\ \A i \in 1..Len(c.outbox) : c.outbox[i] # Done =>
           /\ c.outbox[i] \in files /\ DirOf[c.outbox[i]] \in Dir
           /\ walker[s][DirOf[c.outbox[i]]].at = "end" => \E j \in 1..Len(c.outbox) : j > i /\ c.outbox[j] = Done
  BY DEF Below
<1>6. ASSUME w.at \notin {"fin", "none"}, w.rec \in files \cup {Nil},
             \A f \in files : DirOf[f] = d /\ OnItsWay(s, f) => OnItsWay(s, f)',
             \/ scan'[s].outbox = c.outbox /\ w.at # "end"
             \/ scan'[s].outbox = Append(c.outbox, Done)
             \/ v.rec \in InDir(d) /\ scan'[s].outbox = Append(c.outbox, v.rec) /\ w.at # "end"
      PROVE  Below(s)'
  <2>1. /\ \A i \in 1..Len(c.outbox) : i \in 1..Len(scan'[s].outbox) /\ scan'[s].outbox[i] = c.outbox[i]
        /\ Len(scan'[s].outbox) \in Nat
    <3>1. CASE scan'[s].outbox = c.outbox
      BY <1>1, <3>1
    <3>2. CASE \E x \in File \cup {Done} : scan'[s].outbox = Append(c.outbox, x)
      <4>1. PICK x \in File \cup {Done} : scan'[s].outbox = Append(c.outbox, x)
        BY <3>2
      <4> QED BY <1>1, <4>1
    <3> QED BY <1>6, <3>1, <3>2 DEF InDir
  <2>2. ASSUME NEW f \in files PROVE f \in scan'[s].keep \/ (DirOf[f] \in Dir /\ OnItsWay(s, f)')
    <3>1. CASE f \in c.keep \/ DirOf[f] = d
      BY <1>4, <1>5, <1>6, <3>1
    <3>2. CASE f \notin c.keep /\ DirOf[f] # d
      BY SMTT(30), <1>3, <1>5, <2>1, <3>2 DEF OnItsWay
    <3> QED BY <3>1, <3>2
  <2>3. ASSUME NEW i \in 1..Len(scan'[s].outbox), scan'[s].outbox[i] # Done
        PROVE  /\ scan'[s].outbox[i] \in files /\ DirOf[scan'[s].outbox[i]] \in Dir
               /\ walker'[s][DirOf[scan'[s].outbox[i]]].at = "end" =>
                    \E j \in 1..Len(scan'[s].outbox) : j > i /\ scan'[s].outbox[j] = Done
    <3>1. CASE i \in 1..Len(c.outbox)
      <4> DEFINE x == c.outbox[i]
      <4>1. scan'[s].outbox[i] = x /\ x # Done /\ x \in files /\ DirOf[x] \in Dir
        BY <1>5, <2>1, <2>3, <3>1
      <4>2. CASE DirOf[x] # d
        <5>1. walker'[s][DirOf[x]] = walker[s][DirOf[x]]
          BY <1>3, <4>1, <4>2
        <5>2. CASE walker[s][DirOf[x]].at # "end"
          BY <4>1, <5>1, <5>2
        <5>3. CASE walker[s][DirOf[x]].at = "end"
          <6>1. PICK j \in 1..Len(c.outbox) : j > i /\ c.outbox[j] = Done
            BY <1>5, <3>1, <4>1, <5>3
          <6>2. j \in 1..Len(scan'[s].outbox) /\ scan'[s].outbox[j] = Done
            BY <2>1, <6>1
          <6> QED BY <4>1, <6>1, <6>2
        <5> QED BY <5>2, <5>3
      <4>3. CASE DirOf[x] = d /\ w.at # "end"
        BY <1>3, <4>1, <4>3
      <4>4. CASE DirOf[x] = d /\ scan'[s].outbox = Append(c.outbox, Done)
        <5>1. /\ Len(c.outbox) + 1 \in 1..Len(scan'[s].outbox) /\ Len(c.outbox) + 1 > i
              /\ scan'[s].outbox[Len(c.outbox) + 1] = Done
          BY <1>1, <3>1, <4>4
        <5> QED BY <4>1, <5>1
      <4> QED BY <1>6, <4>2, <4>3, <4>4
    <3>2. CASE i \notin 1..Len(c.outbox)
      <4>1. v.rec \in InDir(d) /\ scan'[s].outbox[i] = v.rec /\ w.at # "end"
        BY SMTT(30), <1>1, <1>6, <2>3, <3>2
      <4>2. v.rec \in File /\ DirOf[v.rec] = d /\ v.rec \in files
        BY <1>5, <4>1 DEF InDir
      <4> QED BY <1>3, <4>1, <4>2
    <3> QED BY <3>1, <3>2
  <2>4. \A e \in Dir : walker'[s][e].at \notin {"fin", "none"} /\ walker'[s][e].rec \in files \cup {Nil}
    BY <1>3, <1>5, <1>6
  <2> QED BY <1>4, <1>5, <2>2, <2>3, <2>4 DEF Below
<1>7. ASSUME NEW f \in files, DirOf[f] = d
      PROVE  /\ OnItsWay(s, f) <=> \/ v.at = "wait"
                                   \/ v.at = "walk" /\ f \in v.todo
                                   \/ v.at = "put" /\ (f \in v.todo \/ v.rec = f)
                                   \/ \E i \in 1..Len(c.outbox) : c.outbox[i] = f
             /\ OnItsWay(s, f)' <=> \/ w.at = "wait"
                                    \/ w.at = "walk" /\ f \in w.todo
                                    \/ w.at = "put" /\ (f \in w.todo \/ w.rec = f)
                                    \/ \E i \in 1..Len(scan'[s].outbox) : scan'[s].outbox[i] = f
  BY <1>3, <1>7 DEF OnItsWay
<1>8. CASE List(s, d)
  <2>1. w = [at |-> "walk", todo |-> InDir(d) \cap files, rec |-> Nil] /\ scan' = scan
    BY <1>1, <1>3, <1>8 DEF List, SetWalker
  <2>2. \A f \in files : DirOf[f] = d => f \in w.todo
    BY <1>1, <2>1 DEF InDir
  <2>3. w.at = "walk" /\ w.rec = Nil
    BY <2>1
  <2>4. \A f \in files : DirOf[f] = d /\ OnItsWay(s, f) => OnItsWay(s, f)'
    BY <1>7, <2>2, <2>3
  <2> QED BY <1>6, <2>1, <2>3, <2>4
<1>9. CASE \E f \in File : Look(s, d, f)
  <2>1. PICK f \in File : /\ v.at = "walk" /\ f \in v.todo /\ scan' = scan
                          /\ \/ f \notin files /\ w = [v EXCEPT !.todo = @ \ {f}]
                             \/ f \in files /\ w = [at |-> "put", todo |-> v.todo \ {f}, rec |-> f]
    BY <1>1, <1>3, <1>9 DEF Look, SetWalker
  <2>2. /\ w.todo = v.todo \ {f}
        /\ \/ f \notin files /\ w.at = "walk" /\ w.rec = v.rec
           \/ f \in files /\ w.at = "put" /\ w.rec = f
    <3>1. CASE f \notin files /\ w = [v EXCEPT !.todo = @ \ {f}]
      BY <1>1, <2>1, <3>1 DEF Walker
    <3>2. CASE f \in files /\ w = [at |-> "put", todo |-> v.todo \ {f}, rec |-> f]
      BY <3>2
    <3> QED BY <2>1, <3>1, <3>2
  <2>3. w.at \in {"walk", "put"} /\ w.rec \in files \cup {Nil}
    BY <1>5, <2>2
  <2>4. \A g \in files : DirOf[g] = d /\ OnItsWay(s, g) => OnItsWay(s, g)'
    BY <1>7, <2>1, <2>2
  <2> QED BY <1>6, <2>1, <2>3, <2>4
<1>10. CASE Hand(s, d)
  <2>1. /\ v.at = "put" /\ w = [v EXCEPT !.at = "walk", !.rec = Nil]
        /\ scan'[s].outbox = Append(c.outbox, v.rec)
    BY ZenonT(60), <1>1, <1>3, <1>10 DEF Hand, SetWalker, Put, Scan
  <2>2. w.at = "walk" /\ w.todo = v.todo /\ w.rec = Nil
    BY <1>1, <2>1 DEF Walker
  <2>3. v.rec \in InDir(d)
    BY <1>1, <2>1 DEF Handing, InPlace
  <2>4. ASSUME NEW f \in files, DirOf[f] = d, OnItsWay(s, f) PROVE OnItsWay(s, f)'
    <3>1. CASE v.rec = f
      <4>1. Len(c.outbox) + 1 \in 1..Len(scan'[s].outbox) /\ scan'[s].outbox[Len(c.outbox) + 1] = f
        BY <1>1, <2>1, <3>1
      <4> QED BY <1>7, <2>4, <4>1
    <3>2. CASE f \in v.todo
      BY <1>7, <2>2, <2>4, <3>2
    <3>3. CASE \E i \in 1..Len(c.outbox) : c.outbox[i] = f
      <4>1. \E i \in 1..Len(scan'[s].outbox) : scan'[s].outbox[i] = f
        BY <1>1, <2>1, <3>3
      <4> QED BY <1>7, <2>4, <4>1
    <3> QED BY <1>7, <2>1, <2>4, <3>1, <3>2, <3>3
  <2> QED BY <1>6, <2>1, <2>2, <2>3, <2>4
<1>11. CASE Walked(s, d)
  <2>1. /\ v.at = "walk" /\ v.todo = {} /\ w = [NoWalker EXCEPT !.at = "end"]
        /\ scan'[s].outbox = Append(c.outbox, Done)
    BY <1>1, <1>3, <1>5, <1>11 DEF Walked, SetWalker, Put, Scan
  <2>2. w.at = "end" /\ w.rec = Nil
    BY <2>1 DEF NoWalker
  <2>3. ASSUME NEW f \in files, DirOf[f] = d, OnItsWay(s, f) PROVE OnItsWay(s, f)'
    <3>1. \E i \in 1..Len(c.outbox) : c.outbox[i] = f
      BY <1>7, <2>1, <2>3
    <3>2. \E i \in 1..Len(scan'[s].outbox) : scan'[s].outbox[i] = f
      BY <1>1, <2>1, <3>1
    <3> QED BY <1>7, <2>3, <3>2
  <2> QED BY <1>6, <2>1, <2>2, <2>3
<1> QED BY <1>8, <1>9, <1>10, <1>11 DEF WalkerStep

(* Its collector: what has not been met is still on its way.               *)
LEMMA BelowCollect ==
  ASSUME WalkersInv, NEW s \in ScanId, Collect(s), ~ShouldAbort(s), Exact(s), files' = files
  PROVE  Below(s)' /\ scan'[s].keep \subseteq files
<1> USE Universe
<1> DEFINE c == scan[s]
           h == Head(c.outbox)
<1>1. /\ TypeOK /\ scan \in [ScanId -> Scan] /\ c \in Scan /\ c.outbox \in Seq(File \cup {Done})
      /\ c.at = "collect" /\ c.outbox # <<>> /\ walker' = walker /\ scan'[s].outbox = Tail(c.outbox)
      /\ scan'[s].subs = c.subs
      /\ h = Done => scan'[s].keep = c.keep
      /\ h # Done => scan'[s].keep = c.keep \cup {h}
  BY CollectIs DEF WalkersInv, TypeInv, TypeOK, Scan
<1>2. /\ c.subs = Dir
      /\ \A e \in Dir : walker[s][e].at \notin {"fin", "none"} /\ walker[s][e].rec \in files \cup {Nil}
      /\ \A f \in files : f \in c.keep \/ (DirOf[f] \in Dir /\ OnItsWay(s, f))
      /\ \A i \in 1..Len(c.outbox) : c.outbox[i] # Done =>
           /\ c.outbox[i] \in files /\ DirOf[c.outbox[i]] \in Dir
           /\ walker[s][DirOf[c.outbox[i]]].at = "end" => \E j \in 1..Len(c.outbox) : j > i /\ c.outbox[j] = Done
      /\ c.keep \subseteq files
  BY <1>1 DEF Exact, Below, Gathered
<1>3. /\ Len(c.outbox) \in Nat \ {0} /\ c.outbox[1] = h /\ Len(scan'[s].outbox) = Len(c.outbox) - 1
      /\ \A i \in 1..Len(scan'[s].outbox) : i + 1 \in 1..Len(c.outbox) /\ scan'[s].outbox[i] = c.outbox[i + 1]
      /\ \A i \in 1..Len(c.outbox) : i # 1 => i - 1 \in 1..Len(scan'[s].outbox) /\ scan'[s].outbox[i - 1] = c.outbox[i]
  BY <1>1
<1>4. h # Done => h \in files
  BY <1>2, <1>3
<1>5. scan'[s].keep \subseteq files /\ c.keep \subseteq scan'[s].keep /\ (h # Done => h \in scan'[s].keep)
  BY <1>1, <1>2, <1>4
<1>6. ASSUME NEW f \in files PROVE f \in scan'[s].keep \/ (DirOf[f] \in Dir /\ OnItsWay(s, f)')
  <2>1. CASE f \in c.keep \/ f = h
    <3>1. f # Done
      BY <1>1 DEF TypeOK
    <3> QED BY <1>5, <2>1, <3>1
  <2>2. CASE \E i \in 1..Len(c.outbox) : c.outbox[i] = f /\ f # h /\ f \notin c.keep
    <3>1. PICK i \in 1..Len(c.outbox) : c.outbox[i] = f /\ f # h /\ f \notin c.keep
      BY <2>2
    <3>2. i - 1 \in 1..Len(scan'[s].outbox) /\ scan'[s].outbox[i - 1] = f
      BY <1>3, <3>1
    <3> QED BY <1>2, <3>1, <3>2 DEF OnItsWay
  <2>3. CASE f \notin c.keep /\ ~\E i \in 1..Len(c.outbox) : c.outbox[i] = f
    BY <1>1, <1>2, <2>3 DEF OnItsWay
  <2> QED BY <2>1, <2>2, <2>3
<1>7. ASSUME NEW i \in 1..Len(scan'[s].outbox), scan'[s].outbox[i] # Done
      PROVE  /\ scan'[s].outbox[i] \in files /\ DirOf[scan'[s].outbox[i]] \in Dir
             /\ walker'[s][DirOf[scan'[s].outbox[i]]].at = "end" =>
                  \E j \in 1..Len(scan'[s].outbox) : j > i /\ scan'[s].outbox[j] = Done
  <2>1. i + 1 \in 1..Len(c.outbox) /\ scan'[s].outbox[i] = c.outbox[i + 1]
    BY <1>3
  <2>2. ASSUME walker[s][DirOf[c.outbox[i + 1]]].at = "end"
        PROVE  \E j \in 1..Len(scan'[s].outbox) : j > i /\ scan'[s].outbox[j] = Done
    <3>1. PICK k \in 1..Len(c.outbox) : k > i + 1 /\ c.outbox[k] = Done
      BY <1>2, <1>7, <2>1, <2>2
    <3>2. k - 1 \in 1..Len(scan'[s].outbox) /\ k - 1 > i /\ scan'[s].outbox[k - 1] = Done
      BY <1>3, <3>1
    <3> QED BY <3>2
  <2> QED BY <1>1, <1>2, <1>7, <2>1, <2>2
<1> QED BY <1>1, <1>2, <1>5, <1>6, <1>7 DEF Below

(* Once every walker has ended and been counted nothing is on its way.     *)
LEMMA AllMet ==
  ASSUME WalkersInv, NEW s \in ScanId, Join(s), Exact(s)
  PROVE  files \subseteq scan[s].keep
<1> USE Universe
<1> DEFINE c == scan[s]
<1>1. /\ TypeOK /\ InPlace(s) /\ c.at = "collect" /\ c.outbox \in Seq(File \cup {Done}) /\ Len(c.outbox) \in Nat
      /\ c.completed = Cardinality(c.subs) /\ \A d \in c.subs : walker[s][d].at = "end"
  BY JoinIs DEF WalkersInv, TypeInv, TypeOK, Exact, Gathered
<1>2. /\ c.subs = Dir
      /\ \A f \in files : f \in c.keep \/ (DirOf[f] \in Dir /\ OnItsWay(s, f))
      /\ \A i \in 1..Len(c.outbox) : c.outbox[i] # Done =>
           /\ c.outbox[i] \in files /\ DirOf[c.outbox[i]] \in Dir
           /\ walker[s][DirOf[c.outbox[i]]].at = "end" => \E j \in 1..Len(c.outbox) : j > i /\ c.outbox[j] = Done
  BY <1>1 DEF Exact, Below
<1>3. Ended(s) = Dir /\ Cardinality(Dir) \in Nat
  BY <1>1, <1>2, FS_CardinalityType DEF Ended
<1>4. Count(c.outbox, Done) \in Nat
  BY <1>1, CountType
<1>5. Count(c.outbox, Done) = 0
  BY <1>1, <1>2, <1>3, <1>4 DEF InPlace
<1>6. \A i \in 1..Len(c.outbox) : c.outbox[i] # Done
  BY <1>1, <1>5, CountType
<1>7. ~\E i \in 1..Len(c.outbox) : TRUE
  BY <1>1, <1>2, <1>6
<1> QED BY <1>1, <1>2, <1>7 DEF OnItsWay

LEMMA ExactNext == ExactInv /\ [Next]_vars => ExactInv'
<1> SUFFICES ASSUME ExactInv, [Next]_vars PROVE \A t \in clean' : Exact(t)'
  BY WalkersNext DEF ExactInv
<1> USE Universe
<1>1. /\ WalkersInv /\ TypeInv /\ TypeOK /\ Config /\ Handing /\ scan \in [ScanId -> Scan]
      /\ walker \in [ScanId -> [Dir -> Walker]] /\ clean \subseteq ScanId /\ files \subseteq File
      /\ \A t \in clean : Exact(t)
  BY DEF ExactInv, WalkersInv, TypeInv, TypeOK, Scan, Walker
<1>2. ASSUME NEW t \in clean, scan'[t] = scan[t], walker'[t] = walker[t], files' = files, rows' = rows
      PROVE  Exact(t)'
  <2>1. AtTop(t) => AtTop(t)'
    BY <1>2 DEF AtTop
  <2>2. Below(t) => Below(t)'
    <3>1. \A f : OnItsWay(t, f) => OnItsWay(t, f)'
      BY <1>2 DEF OnItsWay
    <3> QED BY <1>2, <3>1 DEF Below
  <2>3. Gathered(t) => Gathered(t)'
    BY <1>2 DEF Gathered
  <2> QED BY <1>1, <2>1, <2>2, <2>3 DEF Exact
<1>3. CASE User \/ Mirror \/ RemoveRoot \/ PurgeRoot
  <2>1. clean' = {}
    BY <1>3 DEF User, Create, Remove, Change, Mirror, RemoveRoot, PurgeRoot
  <2> QED BY <2>1
<1>4. CASE AddRoot \/ Unwatch \/ UNCHANGED vars
  <2>1. clean' = clean /\ scan' = scan /\ walker' = walker /\ files' = files /\ rows' = rows
    BY <1>4 DEF AddRoot, Unwatch, vars, threads
  <2> QED BY <1>2, <2>1
<1>5. CASE Watch \/ Rescanned \/ Rescan
  <2>0. Rescan => Free # {}
    BY FS_EmptySet DEF Rescan
  <2>1. Free # {} /\ files' = files /\ rows' = rows
    BY <1>1, <1>5, <2>0 DEF Config, Watch, Rescanned, Rescan
  <2>2. PICK kind \in {"catchup", "rescan"} : Spawn(kind)
    BY <1>5 DEF Watch, Rescanned, Rescan
  <2>3. PICK s \in ScanId : /\ scan'[s] = NewScan(kind) /\ clean' = clean \cup {s} /\ walker' = walker
                            /\ \A t \in ScanId \ {s} : scan'[t] = scan[t]
    BY <1>1, <2>1, <2>2, SpawnTypes
  <2>4. scan'[s].at = "begin" /\ ~scan'[s].aborted /\ scan'[s].keep = {}
    BY <2>3 DEF NewScan
  <2>5. Exact(s)'
    BY <2>4 DEF Exact, AtTop, Below, Gathered
  <2> QED BY <1>1, <1>2, <2>1, <2>3, <2>5
<1>6. ASSUME NEW s \in clean, ScanStep(s) PROVE Exact(s)'
  <2>1. /\ s \in ScanId /\ active /\ ~ShouldAbort(s) /\ Exact(s) /\ AtTop(s) /\ Below(s) /\ Gathered(s) /\ files' = files
        /\ InPlace(s)
    BY <1>1, <1>6, ScanFrame DEF Config, ShouldAbort, Exact, WalkersInv
  <2>2. ~scan[s].aborted /\ scan[s].keep \subseteq files /\ scan[s].at \notin {"submit", "join"}
        /\ (scan[s].at \notin {"active", "content", "end"} => scan[s].keep \subseteq rows \cup scan[s].batch)
    BY <2>1 DEF Gathered
  <2>3. CASE Begin(s)
    <3>1. /\ scan'[s].at = "top" /\ scan'[s].todo = Dir \cup InDir(Top) /\ scan'[s].keep = scan[s].keep
          /\ scan'[s].batch = scan[s].batch /\ scan'[s].aborted = scan[s].aborted /\ rows' = rows
          /\ scan[s].at = "begin"
      BY <1>1, <2>1, <2>3, BeginIs
    <3>2. AtTop(s)'
      BY <1>1, <2>1, <3>1 DEF AtTop, InDir
    <3>3. Below(s)' /\ Gathered(s)'
      BY <2>1, <2>2, <3>1 DEF Below, Gathered
    <3> QED BY <3>2, <3>3 DEF Exact
  <2>4. CASE \E e \in Dir \cup InDir(Top) : Entry(s, e)
    <3>1. PICK e \in Dir \cup InDir(Top) : Entry(s, e)
      BY <2>4
    <3>2. /\ scan[s].at = "top" /\ rows' = rows
          /\ scan'[s].at \in {"top", "topflush"} /\ scan'[s].todo = scan[s].todo \ {e}
          /\ scan'[s].aborted = scan[s].aborted
          /\ scan'[s].subs = IF e \in Dir THEN scan[s].subs \cup {e} ELSE scan[s].subs
          /\ scan'[s].keep = IF e \notin Dir /\ e \in files THEN scan[s].keep \cup {e} ELSE scan[s].keep
          /\ scan'[s].batch = IF e \notin Dir /\ e \in files THEN scan[s].batch \cup {e} ELSE scan[s].batch
      BY <1>1, <2>1, <3>1, EntryIs
    <3>3. AtTop(s)'
      BY <1>1, <2>1, <3>2 DEF AtTop
    <3>4. Below(s)' /\ Gathered(s)'
      <4>1. Below(s)'
        BY <3>2 DEF Below
      <4>2. Gathered(s)'
        BY <2>1, <2>2, <3>2 DEF Gathered
      <4> QED BY <4>1, <4>2
    <3> QED BY <3>3, <3>4 DEF Exact
  <2>5. CASE Flush(s, "topflush", "top", "submit")
    <3>1. /\ scan[s].at = "topflush" /\ scan'[s].at = "top" /\ scan'[s].todo = scan[s].todo /\ scan'[s].subs = scan[s].subs
          /\ scan'[s].keep = scan[s].keep /\ scan'[s].aborted = scan[s].aborted /\ rows' = rows \cup scan[s].batch
      BY <1>1, <2>1, <2>5, FlushIs
    <3>2. AtTop(s)'
      BY <2>1, <3>1 DEF AtTop
    <3>3. Below(s)' /\ Gathered(s)'
      BY <2>1, <2>2, <3>1 DEF Below, Gathered
    <3> QED BY <3>2, <3>3 DEF Exact
  <2>6. CASE Flush(s, "flush", "collect", "join")
    <3>1. /\ scan[s].at = "flush" /\ scan'[s].at = "collect" /\ scan'[s].subs = scan[s].subs
          /\ scan'[s].keep = scan[s].keep /\ scan'[s].aborted = scan[s].aborted /\ rows' = rows \cup scan[s].batch
          /\ walker' = walker /\ scan'[s].outbox = scan[s].outbox
      BY <1>1, <2>1, <2>6, FlushIs
    <3>2. Below(s)'
      <4>1. \A f : OnItsWay(s, f) => OnItsWay(s, f)'
        BY <2>1, <3>1 DEF OnItsWay
      <4>2. scan[s].at = "flush" /\ files' = files
        BY <2>1, <3>1
      <4>3. /\ scan[s].subs = Dir
            /\ \A d \in Dir : walker[s][d].at \notin {"fin", "none"} /\ walker[s][d].rec \in files \cup {Nil}
            /\ \A f \in files : f \in scan[s].keep \/ (DirOf[f] \in Dir /\ OnItsWay(s, f))
        BY <2>1, <4>2 DEF Below
      <4>4. \A i \in 1..Len(scan[s].outbox) : scan[s].outbox[i] # Done =>
               /\ scan[s].outbox[i] \in files /\ DirOf[scan[s].outbox[i]] \in Dir
               /\ walker[s][DirOf[scan[s].outbox[i]]].at = "end" =>
                    \E j \in 1..Len(scan[s].outbox) : j > i /\ scan[s].outbox[j] = Done
        BY <2>1, <4>2 DEF Below
      <4>5. \A f \in files' : f \in scan'[s].keep \/ (DirOf[f] \in Dir /\ OnItsWay(s, f)')
        BY <3>1, <4>1, <4>2, <4>3
      <4>6. \A i \in 1..Len(scan'[s].outbox) : scan'[s].outbox[i] # Done =>
               /\ scan'[s].outbox[i] \in files' /\ DirOf[scan'[s].outbox[i]] \in Dir
               /\ walker'[s][DirOf[scan'[s].outbox[i]]].at = "end" =>
                    \E j \in 1..Len(scan'[s].outbox) : j > i /\ scan'[s].outbox[j] = Done
        BY ZenonT(30), <3>1, <4>2, <4>4
      <4> QED BY <3>1, <4>2, <4>3, <4>5, <4>6 DEF Below
    <3>3. AtTop(s)' /\ Gathered(s)'
      BY <2>1, <2>2, <3>1 DEF AtTop, Gathered
    <3> QED BY <3>2, <3>3 DEF Exact
  <2>7. CASE Submit(s)
    <3>1. /\ scan[s].at = "top" /\ scan[s].todo = {} /\ rows' = rows /\ scan'[s].at = "collect"
          /\ scan'[s].subs = scan[s].subs /\ scan'[s].keep = scan[s].keep /\ scan'[s].batch = scan[s].batch
          /\ scan'[s].aborted = scan[s].aborted /\ scan'[s].outbox = scan[s].outbox
          /\ \A d \in Dir : walker'[s][d] = IF d \in scan[s].subs THEN [NoWalker EXCEPT !.at = "wait"] ELSE NoWalker
      BY <1>1, <2>1, <2>2, <2>7, SubmitIs
    <3>2. scan[s].subs = Dir /\ \A f \in files : DirOf[f] = Top => f \in scan[s].keep
      BY ZenonT(60), <1>1, <2>1, <3>1 DEF AtTop, Scan
    <3>3. \A d \in Dir : walker'[s][d].at = "wait" /\ walker'[s][d].rec = Nil
      BY <3>1, <3>2 DEF NoWalker
    <3>4. scan'[s].outbox = <<>>
      BY <2>1, <3>1 DEF InPlace, Collecting
    <3>5. Below(s)'
      BY <1>1, <2>1, <3>1, <3>2, <3>3, <3>4 DEF Below, OnItsWay
    <3>6. AtTop(s)' /\ Gathered(s)'
      BY <2>1, <2>2, <3>1 DEF AtTop, Gathered
    <3> QED BY <3>5, <3>6 DEF Exact
  <2>8. CASE Collect(s)
    <3>1. /\ scan[s].at = "collect" /\ scan'[s].at \in {"collect", "flush"} /\ rows' = rows
          /\ scan'[s].aborted = scan[s].aborted
          /\ \/ scan'[s].keep = scan[s].keep /\ scan'[s].batch = scan[s].batch
             \/ \E f \in File \cup {Done} : scan'[s].keep = scan[s].keep \cup {f} /\ scan'[s].batch = scan[s].batch \cup {f}
      <4>1. scan[s].outbox \in Seq(File \cup {Done}) /\ scan[s].outbox # <<>>
        BY <1>1, <2>1, <2>8, CollectIs DEF Scan
      <4>2. Head(scan[s].outbox) \in File \cup {Done}
        BY <4>1
      <4> QED BY <1>1, <2>1, <2>8, <4>2, CollectIs
    <3>2. Below(s)' /\ scan'[s].keep \subseteq files
      BY <1>1, <2>1, <2>8, BelowCollect
    <3>3. scan'[s].keep \subseteq rows' \cup scan'[s].batch
      BY <2>2, <3>1
    <3>4. AtTop(s)' /\ Gathered(s)'
      BY <2>1, <2>2, <3>1, <3>2, <3>3 DEF AtTop, Gathered
    <3> QED BY <3>2, <3>4 DEF Exact
  <2>9. CASE Join(s)
    <3>1. /\ scan[s].at = "collect" /\ scan'[s].at = "last" /\ rows' = rows /\ scan'[s].keep = scan[s].keep
          /\ scan'[s].batch = scan[s].batch /\ scan'[s].aborted = scan[s].aborted
      BY <1>1, <2>1, <2>2, <2>9, JoinIs
    <3>2. files \subseteq scan[s].keep
      BY <1>1, <2>1, <2>9, AllMet
    <3>3. AtTop(s)' /\ Below(s)' /\ Gathered(s)'
      BY <2>1, <2>2, <3>1, <3>2 DEF AtTop, Below, Gathered
    <3> QED BY <3>3 DEF Exact
  <2>10. CASE Last(s)
    <3>1. /\ scan[s].at = "last" /\ scan'[s].at = "missing" /\ scan'[s].batch = {} /\ scan'[s].keep = scan[s].keep
          /\ scan'[s].aborted = scan[s].aborted /\ scan[s].keep \subseteq rows'
      BY <1>1, <2>1, <2>2, <2>10, LastIs
    <3>2. files \subseteq scan[s].keep
      BY <2>1, <3>1 DEF Gathered
    <3>3. AtTop(s)' /\ Below(s)' /\ Gathered(s)'
      BY <2>1, <2>2, <3>1, <3>2 DEF AtTop, Below, Gathered
    <3> QED BY <3>3 DEF Exact
  <2>11. CASE DeleteMissing(s)
    <3>1. /\ scan[s].at = "missing" /\ rows' = rows \cap scan[s].keep
          /\ scan'[s] = [NewScan(scan[s].kind) EXCEPT !.at = "active"]
      BY <1>1, <2>1, <2>11, DeleteMissingIs
    <3>2. scan'[s].at = "active" /\ ~scan'[s].aborted /\ scan'[s].keep = {}
      BY <3>1 DEF NewScan
    <3>3. rows' = files
      BY <2>1, <2>2, <3>1 DEF Gathered
    <3>4. AtTop(s)' /\ Below(s)' /\ Gathered(s)'
      BY <2>1, <3>2, <3>3 DEF AtTop, Below, Gathered
    <3> QED BY <3>4 DEF Exact
  <2>12. CASE Active(s) \/ Sweep(s) \/ Finished(s)
    <3>1. scan'[s] \in {Over, [NewScan("catchup") EXCEPT !.at = "content", !.todo = File],
                        [NewScan("catchup") EXCEPT !.at = "sweep"]}
      BY <1>1, <2>1, <2>12, ActiveIs, EndIs
    <3>2. scan'[s].at \in {"content", "sweep", "end"} /\ ~scan'[s].aborted /\ scan'[s].keep = {}
      BY <3>1 DEF NewScan, Over, NoScan
    <3>3. AtTop(s)' /\ Below(s)' /\ Gathered(s)'
      BY <3>2 DEF AtTop, Below, Gathered
    <3> QED BY <3>3 DEF Exact
  <2>13. CASE Offer(s) \/ \E f \in File : Visit(s, f)
    <3>1. \/ scan'[s] = Over
          \/ /\ scan'[s].at = "content" /\ scan'[s].keep = scan[s].keep /\ scan'[s].aborted = scan[s].aborted
      BY <1>1, <2>1, <2>13, OfferIs, VisitIs
    <3>2. scan'[s].at \in {"content", "end"} /\ ~scan'[s].aborted /\ scan'[s].keep \subseteq files
      BY <2>2, <3>1 DEF NewScan, Over, NoScan
    <3>3. AtTop(s)' /\ Below(s)' /\ Gathered(s)'
      BY <2>1, <3>2 DEF AtTop, Below, Gathered
    <3> QED BY <3>3 DEF Exact
  <2> QED BY <1>6, <2>3, <2>4, <2>5, <2>6, <2>7, <2>8, <2>9, <2>10, <2>11, <2>12, <2>13 DEF ScanStep
<1>7. ASSUME NEW s \in ScanId, ScanStep(s) PROVE \A t \in clean' : Exact(t)'
  <2>1. files' = files /\ \A t \in ScanId \ {s} : scan'[t] = scan[t] /\ walker'[t] = walker[t]
    BY <1>1, <1>7, ScanFrame, ScanTypes
  <2>2. \/ clean' = clean /\ rows' = rows
        \/ clean' = clean \cap {s}
    <3>1. CASE Begin(s) \/ Submit(s) \/ Collect(s) \/ Join(s) \/ Active(s) \/ Finished(s) \/ Offer(s)
      BY <1>1, <3>1, BeginIs, SubmitIs, CollectIs, JoinIs, ActiveIs, EndIs, OfferIs
    <3>2. CASE (\E e \in Dir \cup InDir(Top) : Entry(s, e)) \/ (\E f \in File : Visit(s, f))
      BY <1>1, <3>2, EntryIs, VisitIs
    <3>3. CASE Flush(s, "topflush", "top", "submit") \/ Flush(s, "flush", "collect", "join")
      BY <1>1, <3>3, FlushIs DEF Writes
    <3>4. CASE Last(s) \/ DeleteMissing(s) \/ Sweep(s)
      BY <1>1, <3>4, LastIs, DeleteMissingIs, EndIs DEF Writes
    <3> QED BY <1>7, <3>1, <3>2, <3>3, <3>4 DEF ScanStep
  <2>3. ASSUME NEW t \in clean', t # s PROVE Exact(t)'
    BY <1>1, <1>2, <2>1, <2>2, <2>3
  <2>4. s \in clean' => Exact(s)'
    BY <1>6, <1>7, <2>2
  <2> QED BY <2>3, <2>4
<1>8. ASSUME NEW s \in ScanId, NEW d \in Dir, WalkerStep(s, d) PROVE \A t \in clean' : Exact(t)'
  <2>1. /\ clean' = clean /\ files' = files /\ rows' = rows
        /\ \A t \in ScanId \ {s} : scan'[t] = scan[t] /\ walker'[t] = walker[t]
    BY <1>1, <1>8, WalkerTypes DEF elsewhere, others
  <2>2. ASSUME s \in clean PROVE Exact(s)'
    <3>1. ~ShouldAbort(s) /\ InPlace(s) /\ Below(s) /\ AtTop(s) /\ Gathered(s)
      BY <1>1, <2>2 DEF Config, ShouldAbort, WalkersInv, Exact
    <3>2. Collecting(s)
      <4>1. walker[s][d].at \in {"wait", "walk", "put", "fin"}
        BY <1>8 DEF WalkerStep, List, Look, Hand, Walked
      <4> QED BY <3>1, <4>1 DEF InPlace, NoWalker
    <3>3. scan[s].at \in {"collect", "flush"}
      BY <3>1, <3>2 DEF Collecting, Gathered
    <3>4. Below(s)'
      BY <1>1, <1>8, <3>1, <3>3, BelowWalker
    <3>5. /\ scan'[s].at = scan[s].at /\ scan'[s].keep = scan[s].keep /\ scan'[s].batch = scan[s].batch
          /\ scan'[s].aborted = scan[s].aborted
      BY <1>1, <1>8, SameScan
    <3>6. AtTop(s)' /\ Gathered(s)'
      BY <2>1, <3>1, <3>3, <3>5 DEF AtTop, Gathered
    <3> QED BY <3>4, <3>6 DEF Exact
  <2> QED BY <1>1, <1>2, <2>1, <2>2
<1> QED BY <1>3, <1>4, <1>5, <1>7, <1>8 DEF Next, Rpc, System

LEMMA ExactInit == Init => ExactInv
<1> SUFFICES ASSUME Init PROVE ExactInv
  OBVIOUS
<1> USE Universe, Bounds
<1>1. TypeInv
  BY TypeInit
<1>2. \A s \in ScanId : /\ scan[s].outbox = <<>> /\ scan[s].completed = 0 /\ scan[s].at \in {"begin", "none"}
                        /\ ~scan[s].aborted /\ scan[s].keep = {}
                        /\ \A d \in Dir : walker[s][d] = NoWalker
  <2>1. \A s \in ScanId : scan[s] = NewScan("catchup") \/ scan[s] = NoScan
    BY DEF Init
  <2>2. NoScan.at = "none" /\ NoScan.outbox = <<>> /\ NoScan.completed = 0 /\ ~NoScan.aborted /\ NoScan.keep = {}
    BY DEF NoScan, NewScan
  <2>3. LET n == NewScan("catchup") IN
        n.at = "begin" /\ n.outbox = <<>> /\ n.completed = 0 /\ ~n.aborted /\ n.keep = {}
    BY DEF NewScan
  <2>4. \A s \in ScanId : \A d \in Dir : walker[s][d] = NoWalker
    BY DEF Init
  <2> QED BY <2>1, <2>2, <2>3, <2>4
<1>3. NoWalker.at = "none" /\ NoWalker.todo = {} /\ NoWalker.rec = Nil
  BY DEF NoWalker
<1>4. Count(<<>>, Done) = 0
  <2>1. Positions(<<>>, Done) = {}
    BY DEF Positions
  <2> QED BY <2>1, FS_EmptySet DEF Count
<1>5. ASSUME NEW s \in ScanId PROVE InPlace(s)
  <2>1. Ended(s) = {}
    BY <1>2, <1>3 DEF Ended
  <2>2. scan[s].completed + Count(scan[s].outbox, Done) = Cardinality(Ended(s))
    BY <1>2, <1>4, <2>1, FS_EmptySet
  <2> QED BY <1>2, <1>3, <2>2 DEF InPlace, Collecting
<1>6. ASSUME NEW s \in clean PROVE Exact(s)
  <2>1. s \in ScanId
    BY <1>1 DEF TypeInv, TypeOK
  <2>2. scan[s].at = "begin"
    BY <1>6, <2>1 DEF Init, NewScan
  <2> QED BY <1>2, <2>1, <2>2 DEF Exact, AtTop, Below, Gathered
<1> QED BY <1>1, <1>5, <1>6 DEF ExactInv, WalkersInv

(* A fast scan nobody interferes with leaves exactly the files: scan_root  *)
(* stops collecting when as many walkers as it has submitted are counted,  *)
(* and then nothing is left in the outbox or in a walker.                  *)
THEOREM ScansAreExact == Spec => []ExactScan
<1>1. ExactInv => ExactScan
  BY DEF ExactInv, Exact, Gathered, ExactScan
<1> QED BY <1>1, ExactInit, ExactNext, PTL DEF Spec

-----------------------------------------------------------------------------
(* Who waits for whom.                                                     *)

(* A step of a scan: the pool is the one it has submitted, and no scan of  *)
(* index.rescan aborts, for nobody asks it to.                             *)
LEMMA PoolScan ==
  ASSUME PoolInv, NEW s \in ScanId, ScanStep(s)
  PROVE  InPool(s)'
<1>1. /\ TypeOK /\ scan \in [ScanId -> Scan] /\ walker \in [ScanId -> [Dir -> Walker]]
      /\ InPool(s) /\ InPlace(s)
  BY DEF PoolInv, WalkersInv, TypeInv, TypeOK, Scan, Walker
<1>2. ShouldAbort(s) => scan[s].kind = "catchup"
  BY DEF ShouldAbort
<1>3. scan[s].kind # "rescan" => scan[s].kind = "catchup"
  BY <1>1 DEF Scan
<1>4. Over.kind = "catchup" /\ Over.at = "end"
  BY DEF Over, NoScan, NewScan
<1>5. CASE Begin(s)
  <2>1. ~Collecting(s)' /\ (scan'[s].kind = "rescan" => scan[s].kind = "rescan" /\ scan'[s].at = "top" /\ scan'[s].aborted = scan[s].aborted)
    BY <1>1, <1>2, <1>4, <1>5, BeginIs DEF Collecting
  <2> QED BY <1>1, <2>1 DEF InPool
<1>6. CASE \E e \in Dir \cup InDir(Top) : Entry(s, e)
  <2>1. PICK e \in Dir \cup InDir(Top) : Entry(s, e)
    BY <1>6
  <2>2. ~Collecting(s)' /\ scan'[s].at \notin {"none", "end"} /\ scan'[s].kind = scan[s].kind
        /\ (scan[s].kind = "rescan" => scan'[s].aborted = scan[s].aborted)
    BY <1>1, <1>2, <2>1, EntryIs DEF Collecting
  <2> QED BY <1>1, <2>2 DEF InPool
<1>7. CASE Flush(s, "topflush", "top", "submit") \/ Flush(s, "flush", "collect", "join")
  <2>1. /\ scan'[s].kind = scan[s].kind /\ scan'[s].subs = scan[s].subs /\ walker' = walker
        /\ scan'[s].at \notin {"none", "end"}
        /\ scan[s].kind = "rescan" => scan'[s].aborted = scan[s].aborted
        /\ Collecting(s)' => Collecting(s)
    BY <1>1, <1>2, <1>7, FlushIs DEF Collecting
  <2> QED BY <1>1, <2>1 DEF InPool
<1>8. CASE Submit(s)
  <2>1. /\ scan'[s].kind = scan[s].kind /\ scan'[s].subs = scan[s].subs /\ scan'[s].at = "collect"
        /\ scan'[s].aborted = scan[s].aborted
        /\ \A d \in Dir : d \in scan[s].subs => walker'[s][d] = [NoWalker EXCEPT !.at = "wait"]
    BY <1>1, <1>8, SubmitIs
  <2>2. [NoWalker EXCEPT !.at = "wait"].at = "wait" /\ scan[s].subs \subseteq Dir
    BY <1>1 DEF NoWalker, Scan
  <2> QED BY <1>1, <2>1, <2>2 DEF InPool
<1>9. CASE Collect(s)
  <2>1. /\ scan'[s].kind = scan[s].kind /\ scan'[s].subs = scan[s].subs /\ walker' = walker
        /\ scan'[s].at \in {"collect", "flush"} /\ scan[s].at = "collect"
        /\ scan[s].kind = "rescan" => scan'[s].aborted = scan[s].aborted
    BY <1>1, <1>2, <1>9, CollectIs
  <2> QED BY <1>1, <2>1 DEF InPool, Collecting
<1>10. CASE Join(s) \/ Last(s)
  <2>1. /\ scan'[s].kind = scan[s].kind /\ scan'[s].aborted = scan[s].aborted
        /\ scan'[s].at \in {"last", "active", "missing"}
    BY <1>1, <1>10, JoinIs, LastIs
  <2> QED BY <1>1, <2>1 DEF InPool, Collecting
<1>11. CASE DeleteMissing(s)
  <2> DEFINE n == NewScan(scan[s].kind)
  <2>1. n \in Scan /\ n.kind = scan[s].kind /\ ~n.aborted
    BY <1>1, Records DEF Scan, NewScan
  <2>2. scan'[s] = [n EXCEPT !.at = "active"]
    BY <1>1, <1>11, DeleteMissingIs
  <2> HIDE DEF n
  <2>3. scan'[s].at = "active" /\ ~scan'[s].aborted
    BY <2>1, <2>2 DEF Scan
  <2> QED BY <1>1, <2>3 DEF InPool, Collecting
<1>12. CASE Active(s)
  <2>1. scan'[s] \in {Over, [NewScan("catchup") EXCEPT !.at = "content", !.todo = File],
                      [NewScan("catchup") EXCEPT !.at = "sweep"]}
    BY <1>1, <1>12, ActiveIs
  <2>2. scan'[s].at \in {"end", "content", "sweep"} /\ scan'[s].kind = "catchup"
    BY <1>4, <2>1 DEF NewScan
  <2> QED BY <2>2 DEF InPool, Collecting
<1>13. CASE Sweep(s) \/ Finished(s) \/ Offer(s) \/ \E f \in File : Visit(s, f)
  <2>1. \/ scan'[s] = Over
        \/ scan'[s].at = "content" /\ scan'[s].kind = scan[s].kind /\ scan'[s].aborted = scan[s].aborted
    BY <1>1, <1>13, EndIs, OfferIs, VisitIs
  <2> QED BY <1>1, <1>4, <2>1 DEF InPool, Collecting
<1> QED BY <1>5, <1>6, <1>7, <1>8, <1>9, <1>10, <1>11, <1>12, <1>13 DEF ScanStep

LEMMA PoolNext == PoolInv /\ [Next]_vars => PoolInv'
<1> SUFFICES ASSUME PoolInv, [Next]_vars PROVE \A s \in ScanId : InPool(s)'
  BY WalkersNext DEF PoolInv
<1>1. /\ TypeOK /\ Config /\ Handing /\ scan \in [ScanId -> Scan] /\ walker \in [ScanId -> [Dir -> Walker]]
      /\ \A s \in ScanId : InPool(s)
  BY DEF PoolInv, WalkersInv, TypeInv, TypeOK, Scan, Walker
<1>2. ASSUME NEW t \in ScanId, scan'[t] = scan[t], walker'[t] = walker[t] PROVE InPool(t)'
  BY <1>1, <1>2 DEF InPool, Collecting
<1>3. CASE User \/ Mirror \/ RemoveRoot \/ AddRoot \/ Unwatch \/ PurgeRoot \/ UNCHANGED vars
  BY <1>2, <1>3 DEF User, Create, Remove, Change, Mirror, RemoveRoot, AddRoot, Unwatch, PurgeRoot, vars, threads
<1>4. CASE Watch \/ Rescanned \/ Rescan
  <2>0. Rescan => Free # {}
    BY FS_EmptySet DEF Rescan
  <2>1. Free # {}
    BY <1>1, <1>4, <2>0 DEF Config, Watch, Rescanned
  <2>2. PICK kind \in {"catchup", "rescan"} : Spawn(kind)
    BY <1>4 DEF Watch, Rescanned, Rescan
  <2>3. PICK s \in ScanId : /\ scan[s].at = "none" /\ scan'[s] = NewScan(kind) /\ walker' = walker
                            /\ \A t \in ScanId \ {s} : scan'[t] = scan[t]
    BY <1>1, <2>1, <2>2, SpawnTypes
  <2>4. InPool(s)'
    BY <2>3 DEF InPool, Collecting, NewScan
  <2> QED BY <1>2, <2>3, <2>4
<1>5. ASSUME NEW s \in ScanId, NEW d \in Dir, WalkerStep(s, d) PROVE InPool(s)'
  <2>1. /\ scan'[s].at = scan[s].at /\ scan'[s].kind = scan[s].kind
        /\ scan'[s].subs = scan[s].subs /\ scan'[s].aborted = scan[s].aborted
    BY <1>1, <1>5, SameScan
  <2>2. PICK w \in Walker : walker' = [walker EXCEPT ![s] = [@ EXCEPT ![d] = w]]
    BY <1>1, <1>5, WalkerTypes
  <2>3. walker'[s][d] = w /\ \A e \in Dir \ {d} : walker'[s][e] = walker[s][e]
    BY <1>1, <2>2
  <2>4. w.at # "none"
    <3>1. CASE List(s, d)
      <4>1. w \in {[NoWalker EXCEPT !.at = "fin"], [at |-> "walk", todo |-> InDir(d) \cap files, rec |-> Nil]}
        BY <1>1, <2>3, <3>1 DEF List, SetWalker
      <4> QED BY <4>1 DEF NoWalker
    <3>2. CASE \E f \in File : Look(s, d, f)
      <4>1. w.at \in {"fin", "walk", "put"}
        BY <1>1, <2>3, <3>2, LookIs
      <4> QED BY <4>1
    <3>3. CASE Hand(s, d)
      <4>1. w = [walker[s][d] EXCEPT !.at = "walk", !.rec = Nil]
        BY <1>1, <2>3, <3>3 DEF Hand, SetWalker
      <4> QED BY <1>1, <4>1 DEF Walker
    <3>4. CASE Walked(s, d)
      <4>1. w = [NoWalker EXCEPT !.at = "end"]
        BY <1>1, <2>3, <3>4 DEF Walked, SetWalker
      <4> QED BY <4>1 DEF NoWalker
    <3> QED BY <1>5, <3>1, <3>2, <3>3, <3>4 DEF WalkerStep
  <2>5. \A e \in scan[s].subs : e \in Dir /\ (walker[s][e].at # "none" => walker'[s][e].at # "none")
    BY <1>1, <2>3, <2>4 DEF Scan
  <2> QED BY <1>1, <2>1, <2>5 DEF InPool, Collecting
<1>6. ASSUME NEW s \in ScanId, ScanStep(s) \/ \E d \in Dir : WalkerStep(s, d) PROVE \A t \in ScanId : InPool(t)'
  <2>1. \A t \in ScanId \ {s} : scan'[t] = scan[t] /\ walker'[t] = walker[t]
    BY <1>1, <1>6, ScanTypes, WalkerTypes
  <2> QED BY <1>2, <1>5, <1>6, <2>1, PoolScan
<1> QED BY <1>3, <1>4, <1>6 DEF Next, Rpc, System

(* A collector that counts, while its walkers have nothing to wait for in  *)
(* an outbox that is empty: they have all ended, so it has counted them    *)
(* all, and what it waits for has happened.                                *)
LEMMA CollectorGoesOn ==
  ASSUME PoolInv, NEW s \in ScanId, scan[s].at = "collect",
         \A d \in Dir : WalkerWaits(s, d)
  PROVE  ~CollectorWaits(s)
<1>1. /\ scan[s].subs \subseteq Dir /\ scan[s].completed \in Nat /\ scan[s].outbox \in Seq(File \cup {Done})
      /\ InPlace(s) /\ InPool(s) /\ Collecting(s)
  BY DEF PoolInv, WalkersInv, TypeInv, TypeOK, Collecting
<1>2. IsFiniteSet(scan[s].subs) /\ Ended(s) \subseteq scan[s].subs
  BY <1>1, Universe, FS_Subset DEF InPlace, Ended, NoWalker
<1>3. scan[s].completed + Count(scan[s].outbox, Done) = Cardinality(Ended(s)) /\ Count(scan[s].outbox, Done) \in Nat
  BY <1>1, CountType DEF InPlace
<1>4. CASE AllDone(s)
  <2>1. Cardinality(Ended(s)) >= Cardinality(scan[s].subs)
    BY <1>1, <1>2, <1>3, <1>4, FS_CardinalityType DEF AllDone
  <2>2. /\ Cardinality(Ended(s)) <= Cardinality(scan[s].subs)
        /\ Cardinality(scan[s].subs) = Cardinality(Ended(s)) => scan[s].subs = Ended(s)
    BY <1>2, FS_Subset, Zenon
  <2>3. Ended(s) = scan[s].subs
    <3>1. Cardinality(Ended(s)) \in Nat /\ Cardinality(scan[s].subs) \in Nat
      BY <1>2, FS_CardinalityType, FS_Subset
    <3>2. Cardinality(scan[s].subs) = Cardinality(Ended(s))
      BY <2>1, <2>2, <3>1
    <3> QED BY <2>2, <3>2
  <2> QED BY <1>4, <2>3 DEF CollectorWaits, Ended
<1>5. CASE scan[s].outbox = <<>>
  <2>1. \A d \in scan[s].subs : walker[s][d].at = "end"
    <3>1. ~(Len(scan[s].outbox) >= OutMax)
      BY <1>5, Bounds
    <3> QED BY <1>1, <3>1 DEF InPool, WalkerWaits, WaitsForRoom
  <2>2. Ended(s) = scan[s].subs
    BY <1>1, <1>2, <2>1 DEF Ended
  <2>3. Count(scan[s].outbox, Done) = 0
    BY <1>5, FS_EmptySet DEF Count, Positions
  <2> QED BY <1>1, <1>3, <2>1, <2>2, <2>3 DEF CollectorWaits, AllDone
<1> QED BY <1>4, <1>5 DEF CollectorWaits

(* No ring of waits: a collector that counts never waits for walkers that  *)
(* wait for it, one that has aborted may, and the RPC thread never waits   *)
(* for such a scan.                                                        *)
THEOREM NobodyIsStuck == Spec => []NeverStuck
<1>1. Init => PoolInv
  <2> SUFFICES ASSUME Init PROVE \A s \in ScanId : InPool(s)
    BY ExactInit DEF ExactInv, PoolInv
  <2>1. \A s \in ScanId : scan[s] = NewScan("catchup") \/ scan[s] = NoScan
    BY DEF Init
  <2> QED BY <2>1 DEF InPool, Collecting, NewScan, NoScan
<1>2. PoolInv => NeverStuck
  <2> SUFFICES ASSUME PoolInv, RpcWaits, queue = <<>>,
                      \A s \in ScanId : CollectorWaits(s) /\ \A d \in Dir : WalkerWaits(s, d)
               PROVE  Quiet
    BY DEF NeverStuck
  <2>1. \A s \in ScanId : scan[s].subs \subseteq Dir /\ InPlace(s) /\ InPool(s)
    BY DEF PoolInv, WalkersInv, TypeInv, TypeOK
  <2>2. ASSUME NEW s \in ScanId PROVE scan[s].at \in {"none", "end"} \/ Wedged(s)
    <3>1. scan[s].at # "collect"
      BY CollectorGoesOn
    <3>2. CASE scan[s].at = "join" /\ \E d \in scan[s].subs : walker[s][d].at # "end"
      <4>1. scan[s].aborted /\ \A d \in scan[s].subs : walker[s][d].at # "none"
        BY <2>1, <3>2 DEF InPlace, InPool, Collecting
      <4>2. \A d \in scan[s].subs : walker[s][d].at = "end" \/ WaitsForRoom(s, d)
        BY <2>1, <4>1 DEF WalkerWaits
      <4> QED BY <3>2, <4>1, <4>2 DEF Wedged
    <3> QED BY <3>1, <3>2 DEF CollectorWaits
  <2>3. \A s \in ScanId : scan[s].kind # "rescan"
    BY <2>1, <2>2 DEF InPool, Wedged
  <2> QED BY <2>2, <2>3 DEF Quiet, RpcWaits
<1> QED BY <1>1, <1>2, PoolNext, PTL DEF Spec
=============================================================================
