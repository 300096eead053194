--------------------------- MODULE HandlersProofs ---------------------------
(***************************************************************************)
(* Proofs about Handlers: its types, and for every number of calls, roots, *)
(* servers and crashes that saves keep what they were not asked to change, *)
(* that names go only with their root, that registered roots stay apart,   *)
(* that the folders of a first launch are registered, that the daemon ends *)
(* up on what was saved, that connected servers are usable, and that the   *)
(* size shown and the version recorded are true.                           *)
(***************************************************************************)
EXTENDS Handlers, Counting, FunctionTheorems

\* What the operation of a thread says about where it can be.
Shaped(j) ==
  /\ j.op = "add" => j.root \in Roots
  /\ j.op = "role" => j.role \in AllRoles
  /\ j.at = "scan" => j.op \in {"connect", "reconnect"}
  /\ j.at \in {"wipe", "clear", "forget"} => j.op = "reset"
  /\ j.at = "purge" => j.op = "remove"

JobsShaped == \A c \in Threads : Shaped(job[c])

TypeInv == TypeOK /\ JobsShaped

\* A rebuilt layout is recorded only in the directory it was rebuilt in.
LayoutInv ==
  /\ version # "old" => layout # "old"
  /\ \A c \in Threads : job[c].gen <= gen
  /\ \A c \in Threads : job[c].at = "mark" /\ job[c].gen = gen => layout # "old"

\* A size of deleted files is about to be forgotten by the reset that deleted them.
Resetting == \E c \in Threads : job[c].op = "reset" /\ job[c].at \in {"clear", "start", "forget"}

SizeInv ==
  /\ \A c \in Threads : job[c].at = "store" /\ job[c].gen # gen => job[c].late \/ Resetting
  /\ cache.on /\ cache.gen # gen => cache.late \/ Resetting

\* What is saved, and what a handler holds and may save, is in order.
Sound(s) == Apart(s) /\ Usable(s)

SoundInv == Sound(file.has) /\ \A c \in Threads : Sound(job[c].seen)

\* What a handler holds is what is in the file but for what it was asked to change,
\* unless it has met another save; and whoever meets nobody finds the file as it left it.
Holding(j) == j.at \in {"scan", "open", "create", "write"}
Filling(j) == j.at \in {"create", "write"}

Faithful(j) ==
  /\ j.at = "scan" => j.seen = file.has
  /\ j.at \in {"open", "write"} => Keeps(j, {}, file.has, j.seen)
  /\ j.at \in {"open", "write"} /\ j.op = "remove" /\ ~j.late => j.root \notin file.has.roots
  /\ j.at = "create" => file.has = Default
  /\ Filling(j) => file.is = "empty"

SaveInv ==
  /\ file.is = "absent" => file.has = Default
  /\ \A c \in Threads : ~job[c].met => Faithful(job[c])
  /\ \A c, d \in Threads : c # d /\ Holding(job[c]) /\ Filling(job[d]) => job[c].met

\* What a handler holds is what is saved, but for what it was asked to change and for
\* what is news to it.
Behind(j, unread, s) ==
  /\ j.at = "create" => Changed(Default, s) \subseteq unread
  /\ j.at = "scan" => Changed(j.seen, s) \subseteq unread
  /\ j.at \in {"open", "write"} => Keeps(j, unread, s, j.seen)

BehindInv == \A c \in Threads : Behind(job[c], news[c], file.has)

\* A daemon that does not watch what is saved is about to be stopped.
SettledInv ==
  daemon.on /\ ~crossed =>
    /\ daemon.watched = Present(file.has) \/ \E c \in Threads : job[c].at = "stop"
    /\ daemon.gen = gen
    /\ \A c \in Threads : job[c].at # "wipe"

\* Whoever is to delete names has a reason: its root is saved, or was until it was dropped.
Known(r) == r \in file.has.roots \cup dropped

Removing(j) ==
  j.op = "remove" =>
    /\ j.at \in {"open", "write"} => (j.late => Known(j.root)) /\ j.root \notin j.seen.roots
    /\ j.at \in {"stop", "start", "purge"} => j.root \in dropped

GoneInv ==
  /\ \A c \in Threads : Removing(job[c])
  /\ \A w \in walks : Known(w.root)
  /\ \A w \in sweeps : w.blank \/ w.root \in dropped

\* A default folder is registered, or the launch has still to come to it.
Coming(j, i) ==
  \/ i \in j.todo
  \/ j.op = "add" /\ j.at \in {"load", "create", "open", "write"} /\ j.root = Places[i].root

Neat(j) ==
  /\ j.op # "add" => j.todo = {}
  /\ j.op = "add" => j.at \in {"load", "create", "open", "write", "stop", "start"}
  /\ j.op = "add" /\ j.at \in {"open", "write"} => j.root \in j.seen.roots

OfferInv ==
  LET b == job["boot"] IN
  /\ \A c \in Threads : Neat(job[c])
  /\ \A c \in Calls : job[c].op # "peek"
  /\ offered => b.op # "peek"
  /\ offered /\ ~crossed /\ dropped = {} =>
       \A i \in Defaults : Covered(Places[i].root, file.has.roots) \/ Coming(b, i)

(***************************************************************************)
(* What is picked                                                          *)
(***************************************************************************)
\* A set of numbers has a least one.
LEMMA MinIn == ASSUME NEW T \in SUBSET Nat, T # {} PROVE Min(T) \in T
<1>1. PICK x \in T : \A y \in T : x <= y  BY Least
<1> QED  BY <1>1 DEF Min

\* Of finitely many numbers there is a largest.
LEMMA Largest ==
  ASSUME NEW T \in SUBSET Nat, T # {}, IsFiniteSet(T)
  PROVE  \E x \in T : \A y \in T : y <= x
<1> DEFINE above(x) == {y \in T : x < y}
           sizes == {Cardinality(above(x)) : x \in T}
<1>1. \A x \in T : IsFiniteSet(above(x)) /\ Cardinality(above(x)) \in Nat
  <2> TAKE x \in T
  <2>1. above(x) \subseteq T  OBVIOUS
  <2> HIDE DEF above
  <2> QED  BY <2>1, FS_Subset, FS_CardinalityType
<1>2. sizes \subseteq Nat /\ sizes # {}  BY <1>1
<1>3. PICK n \in sizes : \A k \in sizes : n <= k  BY <1>2, Least
<1>4. PICK x \in T : n = Cardinality(above(x))  OBVIOUS
<1>5. ASSUME NEW y \in T, x < y PROVE FALSE
  <2>1. above(y) \subseteq above(x)
    <3> SUFFICES ASSUME NEW z \in T, y < z PROVE x < z  OBVIOUS
    <3>1. x \in Nat /\ y \in Nat /\ z \in Nat  OBVIOUS
    <3> QED  BY <1>5, <3>1
  <2>2. y \in above(x) /\ y \notin above(y)  BY <1>5
  <2>3. Cardinality(above(y)) < Cardinality(above(x))
    <3> HIDE DEF above
    <3>1. above(y) # above(x)  BY <2>2
    <3> QED  BY <1>1, <2>1, <3>1, FS_Subset, FS_CardinalityType
  <2>4. n <= Cardinality(above(y))  BY <1>3
  <2> QED  BY <1>1, <1>4, <2>3, <2>4
<1> QED  BY <1>5

\* A finite function takes finitely many values.
LEMMA FiniteRange ==
  ASSUME NEW S, NEW T, NEW f \in [S -> T], IsFiniteSet(S) PROVE IsFiniteSet(Range(f))
<1>1. f \in Surjection(S, Range(f))  BY Fun_RangeProperties
<1> QED  BY <1>1, FS_Surjection

\* The models at a port are finitely many, and their sizes are numbers.
LEMMA ShownModels ==
  ASSUME NEW i \in DOMAIN Ports
  PROVE  /\ Face[Ports[i]] \in Faces /\ Ports[i] \in Range(Ports)
         /\ IsFiniteSet(Range(Face[Ports[i]].models))
         /\ \A m \in Range(Face[Ports[i]].models) : m.size \in Nat
<1>1. Ports[i] \in Range(Ports)  BY DEF Range
<1>2. Face[Ports[i]] \in Faces  BY <1>1, Shown
<1> DEFINE ms == Face[Ports[i]].models
<1>3. ms \in Seq(Models)  BY <1>2 DEF Faces
<1> HIDE DEF ms
<1>4. ms \in [1..Len(ms) -> Models] /\ Len(ms) \in Nat  BY <1>3
<1>5. IsFiniteSet(1..Len(ms))  BY <1>4, FS_Interval
<1>6. IsFiniteSet(Range(ms))  BY <1>4, <1>5, FiniteRange
<1>7. \A m \in Range(ms) : m \in Models  BY <1>4 DEF Range
<1>8. \A m \in Range(ms) : m.size \in Nat  BY <1>7 DEF Models
<1> QED  BY <1>1, <1>2, <1>6, <1>8 DEF ms

\* What is listed for a role, on whatever servers run, has a best one.
LEMMA SizesFinite ==
  ASSUME NEW on, NEW fit \in SUBSET Candidates(on)
  PROVE  {c.model.size : c \in fit} \subseteq Nat /\ IsFiniteSet({c.model.size : c \in fit})
<1> DEFINE models(i) == Range(Face[Ports[i]].models)
           size(i) == [m \in models(i) |-> m.size]
           sizes == [i \in DOMAIN Ports |-> Range(size(i))]
<1>1. \A i \in DOMAIN Ports : IsFiniteSet(sizes[i]) /\ sizes[i] \subseteq Nat
  <2> TAKE i \in DOMAIN Ports
  <2>1. IsFiniteSet(models(i)) /\ \A m \in models(i) : m.size \in Nat  BY ShownModels
  <2> HIDE DEF models
  <2>2. size(i) \in [models(i) -> Nat]  BY <2>1
  <2>3. IsFiniteSet(Range(size(i))) /\ Range(size(i)) \subseteq Nat
    <3> HIDE DEF size
    <3>1. IsFiniteSet(Range(size(i)))  BY <2>1, <2>2, FiniteRange
    <3> QED  BY <2>2, <3>1 DEF Range
  <2> HIDE DEF size
  <2> QED  BY <2>3
<1>2. IsFiniteSet(Range(sizes))
  <2> HIDE DEF size
  <2>1. DOMAIN Ports = 1..Len(Ports) /\ Len(Ports) \in Nat  BY Shown
  <2>2. IsFiniteSet(DOMAIN Ports)  BY <2>1, FS_Interval
  <2>3. sizes \in [DOMAIN Ports -> {sizes[i] : i \in DOMAIN Ports}]  OBVIOUS
  <2> HIDE DEF sizes
  <2> QED  BY <2>2, <2>3, FiniteRange
<1>3. IsFiniteSet(UNION Range(sizes)) /\ UNION Range(sizes) \subseteq Nat
  <2>1. \A T \in Range(sizes) : IsFiniteSet(T) /\ T \subseteq Nat
    <3>1. DOMAIN sizes = DOMAIN Ports  OBVIOUS
    <3> HIDE DEF sizes
    <3> QED  BY <1>1, <3>1 DEF Range
  <2> HIDE DEF sizes
  <2>2. UNION Range(sizes) \subseteq Nat  BY <2>1
  <2> QED  BY <1>2, <2>1, <2>2, FS_UNION
<1>4. {c.model.size : c \in fit} \subseteq UNION Range(sizes)
  <2> SUFFICES ASSUME NEW c \in fit PROVE c.model.size \in UNION Range(sizes)  OBVIOUS
  <2>1. PICK i \in DOMAIN Ports : c \in [at : {i}, model : models(i)]
    BY DEF Candidates
  <2>2. c.model \in models(i)  BY <2>1
  <2> HIDE DEF models
  <2>3. size(i)[c.model] = c.model.size /\ c.model \in DOMAIN size(i)  BY <2>2
  <2>4. c.model.size \in Range(size(i))
    <3> HIDE DEF size
    <3> QED  BY <2>3 DEF Range
  <2>5. sizes[i] = Range(size(i)) /\ i \in DOMAIN sizes
    <3> HIDE DEF size
    <3> QED  OBVIOUS
  <2> HIDE DEF sizes, size
  <2>6. sizes[i] \in Range(sizes)  BY <2>5 DEF Range
  <2> QED  BY <2>4, <2>5, <2>6
<1> HIDE DEF sizes
<1> QED  BY <1>3, <1>4, FS_Subset

\* auto_connect connects a role to a server that serves it, or leaves it as it is.
LEMMA PickServes ==
  ASSUME NEW on \in SUBSET Range(Ports), NEW x \in AllRoles
  PROVE  Pick(on, x) = Unset \/ (Pick(on, x) \in Range(Ports) /\ Serves(Pick(on, x), x))
<1> DEFINE fit == {c \in Candidates(on) : ClassifyRole(c.model) = x}
           best == {c \in fit : x = "llm" => \A d \in fit : d.model.size <= c.model.size}
           places == {c.at : c \in best}
<1>1. CASE fit = {}  BY <1>1 DEF Pick, Unset
<1>2. CASE fit # {}
  <2>1. best # {}
    <3>1. PICK n \in {c.model.size : c \in fit} : \A k \in {c.model.size : c \in fit} : k <= n
      <4> DEFINE sizes == {c.model.size : c \in fit}
      <4>1. sizes \subseteq Nat /\ IsFiniteSet(sizes) /\ sizes # {}  BY <1>2, SizesFinite
      <4> HIDE DEF sizes
      <4>2. \E n \in sizes : \A k \in sizes : k <= n  BY <4>1, Largest
      <4> QED  BY <4>2 DEF sizes
    <3>2. PICK c \in fit : n = c.model.size  OBVIOUS
    <3>3. c \in best  BY <3>1, <3>2
    <3> QED  BY <3>3
  <2>2. \A c \in best : /\ c.at \in DOMAIN Ports /\ c.model \in Range(Face[Ports[c.at]].models)
                        /\ Probe(Face[Ports[c.at]]).reachable /\ ClassifyRole(c.model) = x
    <3> TAKE c \in best
    <3>1. c \in Candidates(on) /\ ClassifyRole(c.model) = x  OBVIOUS
    <3>2. PICK i \in {k \in DOMAIN Ports : Ports[k] \in Discovered(on) /\ Probe(Face[Ports[k]]).reachable} :
            c \in [at : {i}, model : Range(Face[Ports[i]].models)]
      BY <3>1 DEF Candidates
    <3>3. c.at = i /\ c.model \in Range(Face[Ports[i]].models)  BY <3>2
    <3> QED  BY <3>1, <3>2, <3>3
  <2>3. places \subseteq Nat /\ places # {}
    <3>1. DOMAIN Ports \subseteq Nat  BY Shown
    <3> HIDE DEF best
    <3> QED  BY <2>1, <2>2, <3>1
  <2>4. Min(places) \in places
    <3> HIDE DEF places
    <3> QED  BY <2>3, MinIn
  <2>5. PICK c \in best : c.at = Min(places)  BY <2>4
  <2>6. Pick(on, x) = Ports[c.at]  BY <1>2, <2>5 DEF Pick
  <2> DEFINE f == Face[Ports[c.at]]
  <2>7. f \in Faces /\ Ports[c.at] \in Range(Ports)  BY <2>2, ShownModels
  <2>8. f.get = "ok" /\ AuthProbe(f) = "none"  BY <2>2 DEF Probe
  <2>9. \/ f.chat \in {"ok", "slow", "4xx"}
        \/ f.chat = "404" /\ f.embeddings \in {"ok", "slow", "4xx"}
    <3>1. f.chat \in Posts /\ f.embeddings \in Posts
      <4> HIDE DEF f
      <4> QED  BY <2>7 DEF Faces
    <3> HIDE DEF f
    <3> QED  BY <2>8, <3>1 DEF AuthProbe, ClassifyPost, Posts
  <2> QED  BY <2>2, <2>6, <2>7, <2>8, <2>9 DEF Serves
<1> QED  BY <1>1, <1>2

(***************************************************************************)
(* Settings and jobs                                                       *)
(***************************************************************************)
LEMMA DefaultIs ==
  /\ Default \in Settings /\ Default.roots = {} /\ Default.ext = "default"
  /\ \A x \in AllRoles : Default.role[x] = Unset
BY Nested DEF Default, Settings, Connections

\* A settings object is its three parts.
LEMMA Whole ==
  ASSUME NEW s \in Settings, NEW t \in Settings,
         s.ext = t.ext, s.roots = t.roots, s.role = t.role
  PROVE  s = t
BY DEF Settings

LEMMA ConnectedIs ==
  ASSUME NEW s \in Settings, NEW force \in BOOLEAN, NEW on \in SUBSET Range(Ports)
  PROVE  LET t == Connected(s, force, on) IN
         /\ t \in Settings /\ t.ext = s.ext /\ t.roots = s.roots
         /\ \A x \in AllRoles : \/ t.role[x] = s.role[x]
                                \/ /\ force \/ s.role[x] = Unset
                                   /\ t.role[x] \in Range(Ports) /\ Serves(t.role[x], x)
<1> DEFINE Role == [r \in AllRoles |->
                      IF r \in Need(s, force) /\ Pick(on, r) # Unset THEN Pick(on, r) ELSE s.role[r]]
           t == Connected(s, force, on)
<1>1. t = [s EXCEPT !.role = Role]  BY DEF Connected
<1>2. \A x \in AllRoles : \/ Role[x] = s.role[x]
                          \/ /\ x \in Need(s, force)
                             /\ Role[x] \in Range(Ports) /\ Serves(Role[x], x)
  BY PickServes
<1>3. s.role \in [AllRoles -> Connections]  BY DEF Settings
<1>4. Role \in [AllRoles -> Connections]
  <2>1. DOMAIN Role = AllRoles /\ Role = [r \in AllRoles |-> Role[r]]  OBVIOUS
  <2> HIDE DEF Role
  <2>2. \A x \in AllRoles : Role[x] \in Connections  BY <1>2, <1>3 DEF Connections
  <2> QED  BY <2>1, <2>2
<1> HIDE DEF Role
<1>5. t \in Settings /\ t.ext = s.ext /\ t.roots = s.roots /\ t.role = Role
  BY <1>1, <1>4 DEF Settings
<1> HIDE DEF t
<1> QED  BY <1>2, <1>5 DEF Need, t

\* A record of the threads, part by part.
LEMMA JobIs ==
  ASSUME NEW j \in Jobs
  PROVE  /\ j.kind \in Kinds \cup {"none"} /\ j.op \in Kinds \cup {"none", "peek", "launch"}
         /\ j.root \in Roots \cup {"none"} /\ j.role \in AllRoles \cup {"none"}
         /\ j.seen \in Settings /\ j.met \in BOOLEAN /\ j.todo \in SUBSET Defaults
         /\ j.left \in SUBSET Folders /\ j.gen \in Nat /\ j.late \in BOOLEAN
BY DEF Jobs

LEMMA IdleIs ==
  /\ Idle \in Jobs /\ Done \in Jobs /\ Booting \in Jobs
  /\ Shaped(Idle) /\ Shaped(Done) /\ Shaped(Booting)
<1>1. Default \in Settings  BY DefaultIs
<1>2. Idle \in Jobs  BY <1>1 DEF Idle, Jobs, Points, Kinds
<1>3. Done = [Idle EXCEPT !.at = "done"]  BY DEF Done
<1>4. Done \in Jobs  BY <1>2, <1>3 DEF Jobs, Points
<1>5. Booting \in Jobs
  <2>1. "boot" \in Kinds  BY DEF Kinds
  <2>2. Booting = [Idle EXCEPT !.kind = "boot", !.op = "peek", !.at = "load"]  BY DEF Booting
  <2> QED  BY <1>2, <2>1, <2>2 DEF Jobs, Points
<1> QED  BY <1>2, <1>4, <1>5 DEF Shaped, Idle, Done, Booting

\* What a thread is at between two operations: it starts or ends, and holds nothing.
Fresh(n, j) ==
  /\ n \in Jobs /\ Shaped(n) /\ n.seen = Default
  /\ n.at \in {"load", "start", "done"} /\ n.op \in {"add", "connect", "launch", "none"}
  /\ n.at = "start" => n.op = "launch"
  /\ n.gen \in {0, j.gen}

LEMMA AddingIs ==
  ASSUME NEW j \in Jobs, NEW i \in Defaults
  PROVE  LET n == Adding(j, i) IN
         /\ Fresh(n, j) /\ n.op = "add" /\ n.at = "load" /\ n.root = Places[i].root
         /\ n.todo = j.todo \ {i} /\ n.kind = j.kind
<1> DEFINE n == Adding(j, i)
<1>1. Places[i].root \in Roots  BY Scope DEF Defaults, Offered
<1>2. Default \in Settings  BY DefaultIs
<1>3. n = [j EXCEPT !.op = "add", !.root = Places[i].root, !.todo = j.todo \ {i}, !.at = "load",
                    !.seen = Default, !.met = FALSE]
  BY DEF Adding, Jobs
<1>4. n \in Jobs
  <2>1. "add" \in Kinds  BY DEF Kinds
  <2>2. j.todo \ {i} \in SUBSET Defaults  BY JobIs
  <2> HIDE DEF n
  <2> QED  BY <1>1, <1>2, <1>3, <2>1, <2>2 DEF Jobs, Points
<1>5. /\ n.op = "add" /\ n.at = "load" /\ n.root = Places[i].root /\ n.seen = Default
      /\ n.todo = j.todo \ {i} /\ n.kind = j.kind /\ n.gen = j.gen
  BY <1>3 DEF Jobs
<1> HIDE DEF n
<1>6. Shaped(n)  BY <1>1, <1>5 DEF Shaped
<1> QED  BY <1>4, <1>5, <1>6 DEF Fresh, n

\* The parts of a launch that follow the folders.
LEMMA BootIs ==
  ASSUME NEW j \in Jobs
  PROVE  LET n == [Booting EXCEPT !.op = "connect"] IN
         /\ Fresh(n, j) /\ n.op = "connect" /\ n.at = "load" /\ n.todo = {} /\ n.kind = "boot"
         /\ Fresh(Launching, j) /\ Launching.op = "launch" /\ Launching.at = "start"
         /\ Launching.todo = {} /\ Launching.kind = "boot"
         /\ Fresh(Done, j) /\ Done.op = "none" /\ Done.at = "done" /\ Done.todo = {}
         /\ Done.kind = "none"
<1> DEFINE n == [Booting EXCEPT !.op = "connect"]
           l == [Booting EXCEPT !.op = "launch", !.at = "start"]
<1>1. Booting \in Jobs /\ Done \in Jobs  BY IdleIs
<1>2. /\ Booting.seen = Default /\ Booting.gen = 0 /\ Booting.todo = {}
      /\ Booting.kind = "boot" /\ Booting.at = "load"
      /\ Done.seen = Default /\ Done.gen = 0 /\ Done.todo = {} /\ Done.op = "none" /\ Done.at = "done"
      /\ Done.kind = "none"
  BY DEF Booting, Done, Idle
<1>3. "connect" \in Kinds  BY DEF Kinds
<1>4. n \in Jobs /\ l \in Jobs
  <2>1. n \in Jobs  BY <1>1, <1>3 DEF Jobs, Points
  <2>2. "launch" \in Kinds \cup {"none", "peek", "launch"}  OBVIOUS
  <2>3. l \in Jobs
    <3> DEFINE b == Booting
    <3>1. b \in Jobs  BY <1>1
    <3> HIDE DEF b
    <3>2. [b EXCEPT !.op = "launch", !.at = "start"] \in Jobs  BY ZenonT(60), <2>2, <3>1 DEF Jobs, Points
    <3> QED  BY <3>2 DEF b
  <2> QED  BY <2>1, <2>3
<1>5. /\ n.seen = Default /\ n.gen = 0 /\ n.todo = {} /\ n.kind = "boot" /\ n.op = "connect" /\ n.at = "load"
      /\ l.seen = Default /\ l.gen = 0 /\ l.todo = {} /\ l.kind = "boot" /\ l.op = "launch" /\ l.at = "start"
  BY <1>1, <1>2 DEF Jobs
<1>6. l = Launching  BY DEF Launching
<1> HIDE DEF n, l
<1>7. Shaped(n) /\ Shaped(l) /\ Shaped(Done)  BY <1>5, IdleIs DEF Shaped
<1>8. Fresh(n, j)  BY <1>4, <1>5, <1>7 DEF Fresh
<1>9. Fresh(l, j)  BY <1>4, <1>5, <1>7 DEF Fresh
<1>10. Fresh(Done, j)  BY <1>1, <1>2, <1>7 DEF Fresh
<1> QED  BY <1>2, <1>5, <1>6, <1>8, <1>9, <1>10 DEF n

LEMMA AddNextIs ==
  ASSUME NEW j \in Jobs
  PROVE  LET n == AddNext(j) IN
         /\ Fresh(n, j)
         /\ \/ /\ n.op = "add" /\ n.at = "load" /\ n.kind = j.kind
               /\ \E i \in j.todo : n.root = Places[i].root /\ n.todo = j.todo \ {i}
            \/ j.todo = {} /\ n.todo = {} /\ n.op = "connect" /\ n.at = "load" /\ n.kind = "boot"
            \/ j.todo = {} /\ n.todo = {} /\ n = Done
<1>1. CASE j.todo # {}
  <2>1. j.todo \in SUBSET Defaults  BY JobIs
  <2>2. Defaults \subseteq Nat
    <3>1. DOMAIN Places \subseteq Nat  BY Listed
    <3> QED  BY <3>1 DEF Defaults, CandidatePaths
  <2>3. Min(j.todo) \in j.todo  BY <1>1, <2>1, <2>2, MinIn
  <2>4. AddNext(j) = Adding(j, Min(j.todo))  BY <1>1 DEF AddNext
  <2>5. PICK i \in Defaults : i = Min(j.todo)  BY <2>1, <2>3
  <2> QED  BY <2>3, <2>4, <2>5, AddingIs
<1>2. CASE j.todo = {}
  <2>1. AddNext(j) = [Booting EXCEPT !.op = "connect"] \/ AddNext(j) = Done  BY <1>2 DEF AddNext
  <2> QED  BY <1>2, <2>1, BootIs
<1> QED  BY <1>1, <1>2

LEMMA OnwardIs ==
  ASSUME NEW j \in Jobs PROVE Fresh(Onward(j), j) /\ Fresh(Failed(j), j)
BY AddNextIs, BootIs DEF Onward, Failed

\* What a handler makes of the settings it has loaded, operation by operation.
LEMMA DecideIs ==
  ASSUME NEW j \in Jobs, NEW s \in Settings, Shaped(j), j.at \in {"load", "create"}
  PROVE  LET n == Decide(j, s) IN
         /\ n \in Jobs /\ Shaped(n) /\ n.gen \in {0, j.gen}
         /\ \/ /\ n.at = "open" /\ n.kind = j.kind /\ n.op = j.op /\ n.root = j.root
               /\ n.role = j.role /\ n.met = j.met /\ n.todo = j.todo
               /\ \/ /\ j.op = "add" /\ Addable(s, j.root)
                     /\ n.seen = [s EXCEPT !.roots = s.roots \cup {j.root}]
                  \/ /\ j.op = "remove" /\ n.late = (j.root \in s.roots)
                     /\ n.seen = [s EXCEPT !.roots = s.roots \ {j.root}]
                  \/ j.op = "role" /\ n.seen = [s EXCEPT !.role[j.role] = "user"]
                  \/ j.op = "ext" /\ n.seen = [s EXCEPT !.ext = "other"]
            \/ /\ n.at = "scan" /\ n.op = j.op /\ j.op \in {"connect", "reconnect"} /\ n.seen = s
               /\ n.met = j.met /\ n.todo = j.todo
            \/ /\ j.op = "peek" /\ Fresh(n, j)
               /\ n = AddNext([j EXCEPT !.todo = IF s.roots = {} THEN Defaults ELSE {}])
            \/ /\ j.op = "rescan" /\ n.at = "walk" /\ n.op = j.op /\ n.todo = j.todo /\ n.seen = j.seen
            \/ /\ Fresh(n, j) /\ n = Onward(j) /\ (j.op = "add" => ~Addable(s, j.root))
               /\ j.op \notin {"remove", "role", "ext", "peek", "rescan"}
<1> DEFINE n == Decide(j, s)
           opened(t, l) == [j EXCEPT !.seen = t, !.at = "open", !.late = l]
<1>1. \A t \in Settings, l \in BOOLEAN :
        /\ opened(t, l) \in Jobs /\ opened(t, l).at = "open" /\ opened(t, l).kind = j.kind
        /\ opened(t, l).op = j.op /\ opened(t, l).root = j.root /\ opened(t, l).role = j.role
        /\ opened(t, l).met = j.met /\ opened(t, l).todo = j.todo /\ opened(t, l).gen = j.gen
        /\ opened(t, l).seen = t /\ opened(t, l).late = l
  <2> TAKE t \in Settings, l \in BOOLEAN
  <2>1. opened(t, l) \in Jobs  BY DEF Jobs, Points
  <2> QED  BY <2>1 DEF Jobs
<1>2. \A t \in Settings, l \in BOOLEAN : Shaped(opened(t, l))
  <2> TAKE t \in Settings, l \in BOOLEAN
  <2> HIDE DEF opened
  <2> QED  BY <1>1 DEF Shaped
<1>3. [j EXCEPT !.seen = s, !.at = "open"] = opened(s, j.late) /\ j.late \in BOOLEAN  BY DEF Jobs
<1>4. \A t \in Settings : [j EXCEPT !.seen = t, !.at = "open"] = opened(t, j.late)  BY DEF Jobs
<1>5. CASE j.op = "add" /\ Addable(s, j.root)
  <2> DEFINE t == [s EXCEPT !.roots = s.roots \cup {j.root}]
  <2>1. t \in Settings  BY <1>5 DEF Shaped, Settings
  <2>2. n = [j EXCEPT !.seen = t, !.at = "open"]  BY <1>5 DEF Decide
  <2> HIDE DEF t, opened, n
  <2>3. n = opened(t, j.late)  BY <1>4, <2>1, <2>2
  <2> QED  BY <1>1, <1>2, <1>3, <1>5, <2>1, <2>3 DEF t, n
<1>6. CASE j.op = "remove"
  <2> DEFINE t == [s EXCEPT !.roots = s.roots \ {j.root}]
             l == j.root \in s.roots
  <2>1. t \in Settings /\ l \in BOOLEAN  BY DEF Settings
  <2>2. n = opened(t, l)  BY <1>6 DEF Decide
  <2> HIDE DEF t, opened, n, l
  <2>3. /\ n \in Jobs /\ n.at = "open" /\ n.kind = j.kind /\ n.op = j.op /\ n.root = j.root
        /\ n.role = j.role /\ n.met = j.met /\ n.todo = j.todo /\ n.gen = j.gen
        /\ n.seen = t /\ n.late = l /\ Shaped(n)
    BY <1>1, <1>2, <2>1, <2>2
  <2>4. n.late = (j.root \in s.roots)  BY <2>3, Zenon DEF l
  <2> QED  BY <1>6, <2>3, <2>4, Zenon DEF t, n
<1>7. CASE j.op = "role"
  <2> DEFINE t == [s EXCEPT !.role[j.role] = "user"]
  <2>1. t \in Settings  BY <1>7 DEF Settings, Connections, Shaped
  <2>2. n = [j EXCEPT !.seen = t, !.at = "open"]  BY <1>7 DEF Decide
  <2> HIDE DEF t, opened, n
  <2>3. n = opened(t, j.late)  BY <1>4, <2>1, <2>2
  <2> QED  BY <1>1, <1>2, <1>3, <1>7, <2>1, <2>3 DEF t, n
<1>8. CASE j.op = "ext"
  <2> DEFINE t == [s EXCEPT !.ext = "other"]
  <2>1. t \in Settings  BY Nested DEF Settings
  <2>2. n = [j EXCEPT !.seen = t, !.at = "open"]  BY <1>8 DEF Decide
  <2> HIDE DEF t, opened, n
  <2>3. n = opened(t, j.late)  BY <1>4, <2>1, <2>2
  <2> QED  BY <1>1, <1>2, <1>3, <1>8, <2>1, <2>3 DEF t, n
<1>9. CASE j.op \in {"connect", "reconnect"} /\ Need(s, j.op = "reconnect") # {}
  <2>1. n = [j EXCEPT !.seen = s, !.at = "scan"]  BY <1>9 DEF Decide
  <2>2. /\ n \in Jobs /\ n.at = "scan" /\ n.op = j.op /\ n.seen = s /\ n.met = j.met
        /\ n.todo = j.todo /\ n.gen = j.gen /\ n.root = j.root /\ n.role = j.role
    <3> HIDE DEF n
    <3> QED  BY <2>1 DEF Jobs, Points
  <2> HIDE DEF n
  <2>3. Shaped(n)  BY <1>9, <2>2 DEF Shaped
  <2> QED  BY <1>9, <2>2, <2>3 DEF n
<1>10. CASE j.op = "peek"
  <2> DEFINE T == IF s.roots = {} THEN Defaults ELSE {}
             k == [j EXCEPT !.todo = T]
  <2>1. k \in Jobs /\ k.gen = j.gen  BY DEF Jobs
  <2>2. n = AddNext(k)  BY <1>10 DEF Decide
  <2> HIDE DEF k, n
  <2>3. Fresh(n, j)  BY <2>1, <2>2, AddNextIs DEF Fresh
  <2>4. n \in Jobs /\ Shaped(n) /\ n.gen \in {0, j.gen}  BY <2>3 DEF Fresh
  <2> QED  BY <1>10, <2>2, <2>3, <2>4 DEF k, n
<1>11. CASE j.op = "rescan"
  <2>1. n = [j EXCEPT !.left = Present(s), !.at = "walk"]  BY <1>11 DEF Decide
  <2>2. /\ n \in Jobs /\ n.at = "walk" /\ n.op = j.op /\ n.seen = j.seen
        /\ n.todo = j.todo /\ n.gen = j.gen /\ n.root = j.root /\ n.role = j.role
    <3>1. Present(s) \in SUBSET Folders  BY DEF Present
    <3> HIDE DEF n
    <3> QED  BY <2>1, <3>1 DEF Jobs, Points
  <2> HIDE DEF n
  <2>3. Shaped(n)  BY <1>11, <2>2 DEF Shaped
  <2> QED  BY <1>11, <2>2, <2>3 DEF n
<1>12. CASE /\ ~(j.op = "add" /\ Addable(s, j.root))
            /\ ~(j.op \in {"connect", "reconnect"} /\ Need(s, j.op = "reconnect") # {})
            /\ j.op \notin {"remove", "role", "ext", "peek", "rescan"}
  <2>1. n = Onward(j)  BY <1>12 DEF Decide
  <2> HIDE DEF n
  <2>2. Fresh(n, j)  BY <2>1, OnwardIs
  <2>3. n \in Jobs /\ Shaped(n) /\ n.gen \in {0, j.gen}  BY <2>2 DEF Fresh
  <2> QED  BY <1>12, <2>1, <2>2, <2>3 DEF n
<1> QED  BY <1>5, <1>6, <1>7, <1>8, <1>9, <1>10, <1>11, <1>12

(***************************************************************************)
(* What a step does to the threads                                         *)
(***************************************************************************)
\* Thread c moves on, the others stay where they are.
Moves(c) ==
  /\ job' \in [Threads -> Jobs] /\ Shaped(job'[c])
  /\ \A d \in Threads \ {c} : job'[d] = job[d]

LEMMA Moved ==
  ASSUME TypeInv, NEW c \in Threads, NEW n \in Jobs, Shaped(n), job' = [job EXCEPT ![c] = n]
  PROVE  Moves(c) /\ job'[c] = n
<1>1. job \in [Threads -> Jobs]  BY DEF TypeInv, TypeOK
<1>2. job' \in [Threads -> Jobs] /\ job'[c] = n /\ \A d \in Threads \ {c} : job'[d] = job[d]
  BY <1>1
<1> QED  BY <1>2 DEF Moves

LEMMA ThreadIs ==
  ASSUME TypeInv, NEW c \in Threads
  PROVE  /\ job \in [Threads -> Jobs] /\ job[c] \in Jobs /\ Shaped(job[c]) /\ file.has \in Settings
         /\ file.is \in {"absent", "empty", "torn", "whole"} /\ file \in FileStates
BY DEF TypeInv, TypeOK, JobsShaped, FileStates

\* A job that only goes to another place, with what it holds.
Keeping(n, j) ==
  /\ n.kind = j.kind /\ n.op = j.op /\ n.root = j.root /\ n.role = j.role /\ n.seen = j.seen
  /\ n.todo = j.todo /\ n.met = j.met /\ n.late = j.late

LEMMA Going ==
  ASSUME TypeInv, NEW c \in Threads, NEW place \in Points, NEW g \in {job[c].gen, gen},
         job' = [job EXCEPT ![c] = [job[c] EXCEPT !.at = place, !.gen = g]],
         place \notin {"scan", "wipe", "clear", "forget", "purge"} \/ Shaped([job[c] EXCEPT !.at = place])
  PROVE  /\ Moves(c) /\ job'[c].at = place /\ job'[c].gen = g /\ Keeping(job'[c], job[c])
         /\ job'[c].left = job[c].left
<1> DEFINE j == job[c]
           n == [j EXCEPT !.at = place, !.gen = g]
           k == [j EXCEPT !.at = place]
<1>1. j \in Jobs /\ Shaped(j)  BY ThreadIs
<1>2. gen \in Nat  BY DEF TypeInv, TypeOK
<1> HIDE DEF j
<1>3. n \in Jobs /\ k \in Jobs
  <2>1. g \in Nat  BY <1>1, <1>2 DEF Jobs, j
  <2> QED  BY <1>1, <2>1 DEF Jobs
<1>4. /\ n.kind = j.kind /\ n.op = j.op /\ n.root = j.root /\ n.role = j.role /\ n.seen = j.seen
      /\ n.todo = j.todo /\ n.met = j.met /\ n.late = j.late /\ n.left = j.left
      /\ n.at = place /\ n.gen = g
      /\ k.at = place /\ k.op = j.op /\ k.root = j.root /\ k.role = j.role
  BY <1>1 DEF Jobs
<1>5. place \notin {"scan", "wipe", "clear", "forget", "purge"} \/ Shaped(k)  BY DEF j
<1> HIDE DEF n, k
<1>6. Shaped(n)  BY <1>1, <1>4, <1>5 DEF Shaped
<1>7. job' = [job EXCEPT ![c] = n]  BY DEF n, j
<1>8. Moves(c) /\ job'[c] = n  BY <1>3, <1>6, <1>7, Moved
<1> QED  BY <1>4, <1>8 DEF Keeping, j

LEMMA AtOnly ==
  ASSUME NEW j \in Jobs, NEW place \in Points
  PROVE  [j EXCEPT !.at = place] = [j EXCEPT !.at = place, !.gen = j.gen]
BY DEF Jobs

\* The steps that lead on to one place.
LEMMA GoingAt ==
  ASSUME TypeInv, NEW c \in Threads, NEW place \in Points, job' = [job EXCEPT ![c].at = place],
         place \notin {"scan", "wipe", "clear", "forget", "purge"} \/ Shaped([job[c] EXCEPT !.at = place])
  PROVE  /\ Moves(c) /\ job'[c].at = place /\ job'[c].gen = job[c].gen /\ Keeping(job'[c], job[c])
         /\ job'[c].left = job[c].left
<1>1. job[c] \in Jobs  BY ThreadIs
<1>2. job' = [job EXCEPT ![c] = [job[c] EXCEPT !.at = place]]  OBVIOUS
<1>3. job' = [job EXCEPT ![c] = [job[c] EXCEPT !.at = place, !.gen = job[c].gen]]
  BY <1>1, <1>2, AtOnly
<1> QED  BY <1>3, Going

LEMMA ResetPlaces ==
  ASSUME NEW j \in Jobs, j.op = "reset", NEW place \in {"wipe", "clear", "forget"}
  PROVE  Shaped([j EXCEPT !.at = place])
<1> DEFINE k == [j EXCEPT !.at = place]
<1>1. k.at = place /\ k.op = j.op  BY DEF Jobs
<1> HIDE DEF k
<1>2. Shaped(k)  BY <1>1 DEF Shaped
<1> QED  BY <1>2 DEF k

LEMMA DoneIs ==
  ASSUME TypeInv, NEW c \in Threads, job' = [job EXCEPT ![c] = Done]
  PROVE  Moves(c) /\ job'[c] = Done /\ Fresh(job'[c], job[c])
<1>1. Done \in Jobs /\ Shaped(Done)  BY IdleIs
<1>2. Moves(c) /\ job'[c] = Done  BY <1>1, Moved
<1>3. job[c] \in Jobs  BY ThreadIs
<1> QED  BY <1>2, <1>3, BootIs

\* A call of the page has begun.
Begun(n) ==
  /\ n.seen = Default /\ n.gen = 0 /\ n.op # "peek"
  /\ n.at \in {"load", "done", "stop", "size", "check", "launch"}
  /\ n.op \in {"add", "remove"} => n.at = "load"
  /\ n.op # "add" => n.todo = {}
  /\ n.at = "stop" => n.op = "reset"

LEMMA BeginIs ==
  ASSUME TypeInv, NEW c \in Calls,
         NEW k \in {"add", "remove", "role", "connect", "reconnect", "ext", "rescan", "reset", "size",
                    "record", "clear", "open"},
         NEW r \in Roots \cup {"none"}, NEW x \in AllRoles \cup {"none"},
         k = "add" => r \in Roots, k = "role" => x \in AllRoles, Begin(c, k, r, x)
  PROVE  Moves(c) /\ Begun(job'[c])
<1>1. c \in Threads  BY DEF Threads
<1>2. CASE k = "add" /\ r \notin Folders
  <2>1. job' = [job EXCEPT ![c] = Done]  BY <1>2 DEF Begin
  <2>2. Done.gen = 0 /\ Done.todo = {} /\ Done.seen = Default /\ Done.at = "done" /\ Done.op = "none"
    BY DEF Done, Idle
  <2> QED  BY <1>1, <2>1, <2>2, DoneIs DEF Begun
<1>3. CASE ~(k = "add" /\ r \notin Folders)
  <2> DEFINE n == [Idle EXCEPT !.kind = k, !.op = k, !.root = r, !.role = x, !.at = Started[k]]
  <2>1. job' = [job EXCEPT ![c] = n]  BY <1>3 DEF Begin
  <2>2. Started[k] \in Points /\ k \in Kinds  BY DEF Started, Points, Kinds
  <2>3. Idle \in Jobs /\ Idle.gen = 0 /\ Idle.todo = {} /\ Idle.seen = Default
    BY IdleIs DEF Idle
  <2>4. n \in Jobs  BY <2>2, <2>3 DEF Jobs
  <2>5. /\ n.op = k /\ n.root = r /\ n.role = x /\ n.at = Started[k] /\ n.gen = 0 /\ n.todo = {}
        /\ n.seen = Default
    BY <2>3 DEF Jobs
  <2>6. /\ Started[k] \in {"load", "stop", "size", "check", "launch"}
        /\ Started[k] = "stop" => k = "reset"
        /\ k \in {"add", "remove"} => Started[k] = "load"
    BY DEF Started
  <2> HIDE DEF n
  <2>7. Shaped(n)  BY <2>5, <2>6 DEF Shaped
  <2>8. Moves(c) /\ job'[c] = n  BY <1>1, <2>1, <2>4, <2>7, Moved
  <2> QED  BY <2>5, <2>6, <2>8 DEF Begun
<1> QED  BY <1>2, <1>3

LEMMA PageIs ==
  ASSUME TypeInv, NEW c \in Calls, Page(c)
  PROVE  /\ Moves(c) /\ Begun(job'[c]) /\ job[c] = Idle
         /\ UNCHANGED <<file, stores, live, ghosts>>
<1> USE DEF Begin, BeginDefaults, MayCall
<1>1. CASE \E r \in Typed, k \in {"add", "remove"} : Begin(c, k, r, "none")
  <2>1. PICK r \in Typed, k \in {"add", "remove"} : Begin(c, k, r, "none")  BY <1>1
  <2>2. r \in Roots  BY Scope
  <2>3. Moves(c) /\ Begun(job'[c])
    <3> HIDE DEF Begin
    <3> QED  BY <2>1, <2>2, BeginIs
  <2> QED  BY <2>1, <2>3
<1>2. CASE \E x \in Chosen : Begin(c, "role", "none", x)
  <2>1. PICK x \in Chosen : Begin(c, "role", "none", x)  BY <1>2
  <2>2. x \in AllRoles  BY Scope
  <2>3. Moves(c) /\ Begun(job'[c])
    <3> HIDE DEF Begin
    <3> QED  BY <2>1, <2>2, BeginIs
  <2> QED  BY <2>1, <2>3
<1>3. CASE \E k \in {"connect", "reconnect", "ext", "rescan", "reset", "size", "record", "clear", "open"} :
             Begin(c, k, "none", "none")
  <2>1. PICK k \in {"connect", "reconnect", "ext", "rescan", "reset", "size", "record", "clear", "open"} :
          Begin(c, k, "none", "none")
    BY <1>3
  <2>2. Moves(c) /\ Begun(job'[c])
    <3> HIDE DEF Begin
    <3> QED  BY <2>1, BeginIs
  <2> QED  BY <2>1, <2>2
<1>4. CASE BeginDefaults(c)
  <2> DEFINE j == [Idle EXCEPT !.kind = "defaults", !.todo = Defaults]
  <2>1. job' = [job EXCEPT ![c] = AddNext(j)]  BY <1>4
  <2>2. "defaults" \in Kinds  BY DEF Kinds
  <2>3. j \in Jobs /\ j.gen = 0  BY ZenonT(60), <2>2, IdleIs DEF Jobs, Idle
  <2> HIDE DEF j
  <2>4. Fresh(AddNext(j), j) /\ AddNext(j).at \in {"load", "done"}
    <3>1. Done.at = "done"  BY DEF Done, Idle
    <3> QED  BY <2>3, <3>1, AddNextIs
  <2>5. c \in Threads  BY DEF Threads
  <2>6. AddNext(j) \in Jobs /\ Shaped(AddNext(j))  BY <2>4 DEF Fresh
  <2>7. Moves(c) /\ job'[c] = AddNext(j)  BY <2>1, <2>5, <2>6, Moved
  <2>8. /\ AddNext(j).op = "add" => AddNext(j).at = "load"
        /\ AddNext(j).op # "add" => AddNext(j).todo = {}
    <3>1. Done.op = "none"  BY DEF Done, Idle
    <3> QED  BY <2>3, <3>1, AddNextIs
  <2>9. Begun(AddNext(j))  BY <2>3, <2>4, <2>8 DEF Fresh, Begun
  <2> QED  BY <1>4, <2>7, <2>9
<1> QED  BY <1>1, <1>2, <1>3, <1>4 DEF Page

\* load_settings has returned s to thread c.
LEMMA LoadIs ==
  ASSUME TypeInv, NEW c \in Threads, Load(c)
  PROVE  \E s \in Settings, j \in Jobs :
           /\ s \in {Default, file.has} /\ Reads(s)
           /\ j = [job[c] EXCEPT !.met = file.is = "empty" \/ Saving(c)]
           /\ j.kind = job[c].kind /\ j.op = job[c].op /\ j.root = job[c].root /\ j.role = job[c].role
           /\ j.seen = job[c].seen /\ j.todo = job[c].todo /\ j.gen = job[c].gen /\ j.late = job[c].late
           /\ j.at = "load" /\ j.met = (file.is = "empty" \/ Saving(c)) /\ Shaped(j)
           /\ Moves(c) /\ job'[c] = Decide(j, s)
           /\ news' = [news EXCEPT ![c] = Changed(s, file.has)]
           /\ offered' = (offered \/ (job[c].op = "peek" /\ s.roots = {}))
           /\ job[c].at = "load"
           /\ UNCHANGED <<file, stores, live, crossed, dropped, crashes, scenario>>
<1>1. PICK s \in {Default, file.has} : Reads(s) /\ Loaded(c, s)  BY DEF Load
<1>2. s \in Settings  BY ThreadIs, DefaultIs
<1> DEFINE b == file.is = "empty" \/ Saving(c)
           j == [job[c] EXCEPT !.met = b]
<1>3. b \in BOOLEAN  OBVIOUS
<1>4. job[c] \in Jobs /\ Shaped(job[c]) /\ job[c].at = "load"  BY ThreadIs DEF Load
<1> HIDE DEF b
<1>5. j \in Jobs  BY <1>3, <1>4 DEF Jobs
<1>6. /\ j.kind = job[c].kind /\ j.op = job[c].op /\ j.root = job[c].root /\ j.role = job[c].role
      /\ j.seen = job[c].seen /\ j.todo = job[c].todo /\ j.gen = job[c].gen /\ j.late = job[c].late
      /\ j.at = "load"
  BY <1>4 DEF Jobs
<1>7. j.met = b
  <2>1. DOMAIN job[c] = {"kind", "at", "op", "root", "role", "seen", "met", "todo", "left", "gen", "late"}
    BY <1>4, Zenon DEF Jobs
  <2> QED  BY <2>1, Zenon
<1>8. job' = [job EXCEPT ![c] = Decide(j, s)]  BY <1>1 DEF Loaded, b
<1> HIDE DEF j
<1>9. Shaped(j)  BY <1>4, <1>6 DEF Shaped
<1>10. Decide(j, s) \in Jobs /\ Shaped(Decide(j, s))  BY <1>2, <1>5, <1>6, <1>9, DecideIs
<1>11. Moves(c) /\ job'[c] = Decide(j, s)  BY <1>8, <1>10, Moved
<1>12. /\ news' = [news EXCEPT ![c] = Changed(s, file.has)]
       /\ offered' = (offered \/ (job[c].op = "peek" /\ s.roots = {}))
  BY <1>1 DEF Loaded
<1>13. UNCHANGED <<file, stores, live, crossed, dropped, crashes, scenario>>  BY DEF Load
<1>14. j = [job[c] EXCEPT !.met = file.is = "empty" \/ Saving(c)]
       /\ j.met = (file.is = "empty" \/ Saving(c))
  BY <1>7, Zenon DEF j, b
<1> QED  BY <1>1, <1>2, <1>4, <1>5, <1>6, <1>9, <1>11, <1>12, <1>13, <1>14, Zenon

LEMMA LoadFailsIs ==
  ASSUME TypeInv, NEW c \in Threads, LoadFails(c)
  PROVE  /\ Moves(c) /\ Fresh(job'[c], job[c]) /\ job'[c].op \in {"launch", "none"} /\ job'[c].todo = {}
         /\ crossed' = TRUE
         /\ UNCHANGED <<file, stores, live, dropped, offered, crashes, scenario>>
<1>1. job[c] \in Jobs  BY ThreadIs
<1>2. job' = [job EXCEPT ![c] = Failed(job[c])]  BY DEF LoadFails
<1>3. Fresh(Failed(job[c]), job[c])  BY <1>1, OnwardIs
<1>4. Moves(c) /\ job'[c] = Failed(job[c])  BY <1>2, <1>3, Moved DEF Fresh
<1>5. Failed(job[c]).op \in {"launch", "none"} /\ Failed(job[c]).todo = {}
  BY <1>1, BootIs DEF Failed
<1> QED  BY <1>3, <1>4, <1>5 DEF LoadFails

\* c has opened settings.toml for writing: everybody else who holds settings has met it.
LEMMA OpensIs ==
  ASSUME TypeInv, NEW c \in Threads, NEW place \in {"create", "write"}, Opens(c, place)
  PROVE  /\ job' \in [Threads -> Jobs] /\ JobsShaped'
         /\ \A d \in Threads :
              LET n == job'[d]
                  j == job[d] IN
              /\ n.kind = j.kind /\ n.op = j.op /\ n.root = j.root /\ n.role = j.role /\ n.seen = j.seen
              /\ n.todo = j.todo /\ n.left = j.left /\ n.gen = j.gen /\ n.late = j.late
              /\ n.at = IF d = c THEN place ELSE j.at
              /\ n.met <=> j.met \/ IF d = c THEN Saving(c) ELSE Holding(j)
         /\ file' = [file EXCEPT !.is = "empty"]
<1> DEFINE n(d) == IF d = c THEN [job[d] EXCEPT !.at = place, !.met = job[d].met \/ Saving(c)]
                   ELSE [job[d] EXCEPT !.met = job[d].met \/ Holding(job[d])]
<1>1. job' = [d \in Threads |-> n(d)]
  <2>1. \A d \in Threads : job[d] \in Jobs  BY ThreadIs
  <2>2. \A d \in Threads : n(d) = IF d = c THEN [job[d] EXCEPT !.at = place, !.met = @ \/ Saving(c)]
           ELSE [job[d] EXCEPT !.met = @ \/ job[d].at \in {"create", "scan", "open", "write"}]
    <3> TAKE d \in Threads
    <3>1. Holding(job[d]) <=> job[d].at \in {"create", "scan", "open", "write"}  BY DEF Holding
    <3>2. job[d] \in Jobs  BY <2>1
    <3> QED  BY <3>1, <3>2
  <2> QED  BY <2>2, Zenon DEF Opens
<1>2. ASSUME NEW d \in Threads
      PROVE  LET m == n(d)
                 j == job[d] IN
             /\ m \in Jobs
             /\ m.kind = j.kind /\ m.op = j.op /\ m.root = j.root /\ m.role = j.role /\ m.seen = j.seen
             /\ m.todo = j.todo /\ m.left = j.left /\ m.gen = j.gen /\ m.late = j.late
             /\ m.at = IF d = c THEN place ELSE j.at
             /\ m.met <=> j.met \/ IF d = c THEN Saving(c) ELSE Holding(j)
  <2>1. job[d] \in Jobs  BY ThreadIs
  <2>2. job[d].met \in BOOLEAN  BY <2>1 DEF Jobs
  <2>3. CASE d = c
    <3> DEFINE b == job[d].met \/ Saving(c)
    <3>1. b \in BOOLEAN /\ place \in Points  BY DEF Points
    <3>2. n(d) = [job[d] EXCEPT !.at = place, !.met = b]  BY <2>3
    <3> HIDE DEF b, n
    <3>3. n(d) \in Jobs  BY <2>1, <3>1, <3>2 DEF Jobs
    <3>4. n(d).met = b  BY <2>1, <3>2 DEF Jobs
    <3> QED  BY <2>1, <2>3, <3>2, <3>3, <3>4 DEF Jobs, b
  <2>4. CASE d # c
    <3> DEFINE b == job[d].met \/ Holding(job[d])
    <3>1. b \in BOOLEAN  OBVIOUS
    <3>2. n(d) = [job[d] EXCEPT !.met = b]  BY <2>4
    <3> HIDE DEF b, n
    <3>3. n(d) \in Jobs  BY <2>1, <3>1, <3>2 DEF Jobs
    <3>4. n(d).met = b  BY <2>1, <3>2 DEF Jobs
    <3> QED  BY <2>1, <2>4, <3>2, <3>3, <3>4 DEF Jobs, b
  <2> QED  BY <2>3, <2>4
<1> HIDE DEF n
<1>3. job' \in [Threads -> Jobs] /\ \A d \in Threads : job'[d] = n(d)  BY <1>1, <1>2
<1>4. JobsShaped'
  <2>1. ASSUME NEW d \in Threads PROVE Shaped(job'[d])
    <3>1. Shaped(job[d])  BY ThreadIs
    <3>2. /\ job'[d].op = job[d].op /\ job'[d].root = job[d].root /\ job'[d].role = job[d].role
          /\ job'[d].at = IF d = c THEN place ELSE job[d].at
      BY <1>2, <1>3
    <3> QED  BY <3>1, <3>2 DEF Shaped
  <2> QED  BY <2>1 DEF JobsShaped
<1>5. file' = [file EXCEPT !.is = "empty"]  BY DEF Opens, Truncate
<1> QED  BY <1>2, <1>3, <1>4, <1>5

LEMMA CreateIs ==
  ASSUME TypeInv, NEW c \in Threads, Create(c)
  PROVE  /\ Moves(c) /\ job'[c] = Decide(job[c], Default) /\ job[c].at = "create" /\ Dump(Default)
         /\ crossed' = (crossed \/ job[c].met) /\ dropped' = dropped \cup file.has.roots
         /\ offered' = (offered \/ job[c].op = "peek")
         /\ UNCHANGED <<stores, live, crashes, scenario>>
<1> DEFINE n == Decide(job[c], Default)
<1>1. job[c] \in Jobs /\ Shaped(job[c]) /\ job[c].at = "create" /\ Default \in Settings
  BY ThreadIs, DefaultIs DEF Create
<1>2. n \in Jobs /\ Shaped(n)  BY <1>1, DecideIs
<1>3. job' = [job EXCEPT ![c] = n]  BY DEF Create
<1> HIDE DEF n
<1>4. Moves(c) /\ job'[c] = n  BY <1>2, <1>3, Moved
<1> QED  BY <1>1, <1>4 DEF Create, n

LEMMA ScanIs ==
  ASSUME TypeInv, NEW c \in Threads, Scan(c)
  PROVE  /\ Moves(c) /\ job[c].at = "scan" /\ UNCHANGED <<file, stores, live, ghosts>>
         /\ \/ /\ Fresh(job'[c], job[c]) /\ job'[c] \in {Failed(job[c]), Onward(job[c])}
            \/ \E on \in SUBSET Range(Ports) :
                 /\ job'[c].at = "open" /\ job'[c].op = job[c].op /\ job'[c].met = job[c].met
                 /\ job'[c].todo = job[c].todo /\ job'[c].gen = job[c].gen
                 /\ job'[c].kind = job[c].kind
                 /\ job'[c].seen = Connected(job[c].seen, job[c].op = "reconnect", on)
<1> DEFINE j == job[c]
           force == j.op = "reconnect"
<1>1. j \in Jobs /\ Shaped(j) /\ j.at = "scan"  BY ThreadIs DEF Scan
<1>2. PICK on \in SUBSET Range(Ports) :
        job' = [job EXCEPT ![c] =
             IF \E p \in on : Raises(Face[p]) THEN Failed(j)
             ELSE IF WorthSaving(j.seen, force, on)
             THEN [j EXCEPT !.seen = Connected(j.seen, force, on), !.at = "open"]
             ELSE Onward(j)]
  BY DEF Scan
<1>3. UNCHANGED <<file, stores, live, ghosts>>  BY DEF Scan
<1>4. CASE job' = [job EXCEPT ![c] = Failed(j)]
  <2>1. Fresh(Failed(j), j)  BY <1>1, OnwardIs
  <2>2. Moves(c) /\ job'[c] = Failed(j)  BY <1>4, <2>1, Moved DEF Fresh
  <2> QED  BY <1>1, <1>3, <2>1, <2>2
<1>5. CASE job' = [job EXCEPT ![c] = Onward(j)]
  <2>1. Fresh(Onward(j), j)  BY <1>1, OnwardIs
  <2>2. Moves(c) /\ job'[c] = Onward(j)  BY <1>5, <2>1, Moved DEF Fresh
  <2> QED  BY <1>1, <1>3, <2>1, <2>2
<1>6. CASE job' = [job EXCEPT ![c] = [j EXCEPT !.seen = Connected(j.seen, force, on), !.at = "open"]]
  <2> DEFINE t == Connected(j.seen, force, on)
             n == [j EXCEPT !.seen = t, !.at = "open"]
  <2>1. j.seen \in Settings /\ force \in BOOLEAN  BY <1>1, JobIs
  <2>2. t \in Settings
    <3> HIDE DEF j, force
    <3> QED  BY <2>1, ConnectedIs
  <2>3. job' = [job EXCEPT ![c] = n]  BY <1>6
  <2> HIDE DEF t, j
  <2>4. n \in Jobs  BY <1>1, <2>2 DEF Jobs, Points
  <2>5. /\ n.at = "open" /\ n.op = j.op /\ n.met = j.met /\ n.todo = j.todo /\ n.gen = j.gen
        /\ n.kind = j.kind /\ n.seen = t /\ n.root = j.root /\ n.role = j.role
    BY <1>1 DEF Jobs
  <2> HIDE DEF n
  <2>6. Shaped(n)  BY <1>1, <2>5 DEF Shaped
  <2>7. Moves(c) /\ job'[c] = n  BY <2>3, <2>4, <2>6, Moved
  <2> QED  BY <1>1, <1>3, <2>5, <2>7 DEF t, j
<1> QED  BY <1>2, <1>4, <1>5, <1>6, Zenon

LEMMA SavedIs ==
  ASSUME NEW j \in Jobs, Shaped(j)
  PROVE  LET n == Saved(j) IN
         /\ n \in Jobs /\ Shaped(n) /\ n.seen = Default /\ n.gen \in {0, j.gen}
         /\ \/ /\ n.at = "stop" /\ n.op = j.op /\ n.root = j.root /\ n.todo = j.todo /\ n.kind = j.kind
               /\ Refreshes(j)
            \/ Fresh(n, j) /\ n = Onward(j) /\ ~Refreshes(j)
<1>1. CASE Refreshes(j)
  <2> DEFINE n == [j EXCEPT !.at = "stop", !.seen = Default, !.met = FALSE, !.late = FALSE]
  <2>1. Saved(j) = n  BY <1>1 DEF Saved
  <2>2. n \in Jobs  BY DefaultIs DEF Jobs, Points
  <2>3. /\ n.at = "stop" /\ n.op = j.op /\ n.root = j.root /\ n.todo = j.todo /\ n.gen = j.gen
        /\ n.kind = j.kind /\ n.seen = Default /\ n.role = j.role
    BY DEF Jobs
  <2> HIDE DEF n
  <2>4. Shaped(n)  BY <2>3 DEF Shaped
  <2> QED  BY <1>1, <2>1, <2>2, <2>3, <2>4
<1>2. CASE ~Refreshes(j)
  <2>1. Saved(j) = Onward(j)  BY <1>2 DEF Saved
  <2> QED  BY <1>2, <2>1, OnwardIs DEF Fresh
<1> QED  BY <1>1, <1>2

LEMMA WriteIs ==
  ASSUME TypeInv, NEW c \in Threads, Write(c)
  PROVE  /\ Moves(c) /\ job'[c] = Saved(job[c]) /\ job[c].at = "write" /\ Dump(job[c].seen)
         /\ crossed' = (crossed \/ job[c].met)
         /\ dropped' = dropped \cup (file.has.roots \ job[c].seen.roots)
         /\ UNCHANGED <<stores, live, offered, crashes, scenario>>
<1>1. job[c] \in Jobs /\ Shaped(job[c])  BY ThreadIs
<1>2. job' = [job EXCEPT ![c] = Saved(job[c])]  BY DEF Write
<1>3. Moves(c) /\ job'[c] = Saved(job[c])  BY <1>1, <1>2, SavedIs, Moved
<1> QED  BY <1>3 DEF Write

LEMMA RunningIs ==
  ASSUME TypeInv, NEW c \in Threads, job[c].at = "start", job' = [job EXCEPT ![c] = Running(@)]
  PROVE  /\ Moves(c)
         /\ \/ /\ job[c].op = "reset" /\ job'[c].at = "forget" /\ job'[c].gen = job[c].gen
               /\ Keeping(job'[c], job[c])
            \/ /\ job[c].op = "remove" /\ job'[c].at = "purge" /\ job'[c].gen = job[c].gen
               /\ Keeping(job'[c], job[c])
            \/ job[c].op = "launch" /\ job'[c] = Done /\ Fresh(job'[c], job[c])
            \/ /\ job[c].op \notin {"reset", "remove", "launch"}
               /\ job'[c] = Onward(job[c]) /\ Fresh(job'[c], job[c])
<1> DEFINE j == job[c]
<1>1. j \in Jobs /\ Shaped(j)  BY ThreadIs
<1>2. CASE j.op = "reset"
  <2>1. job' = [job EXCEPT ![c].at = "forget"]  BY <1>2 DEF Running
  <2>2. Shaped([job[c] EXCEPT !.at = "forget"]) /\ "forget" \in Points
    BY <1>1, <1>2, ResetPlaces DEF Points
  <2> QED  BY <1>2, <2>1, <2>2, GoingAt
<1>3. CASE j.op = "remove"
  <2>1. job' = [job EXCEPT ![c].at = "purge"]  BY <1>3 DEF Running
  <2> DEFINE k == [j EXCEPT !.at = "purge"]
  <2>2. k.at = "purge" /\ k.op = j.op  BY <1>1 DEF Jobs
  <2>3. Shaped(k)
    <3> HIDE DEF k
    <3> QED  BY <1>3, <2>2 DEF Shaped
  <2>4. Shaped([job[c] EXCEPT !.at = "purge"]) /\ "purge" \in Points
    BY <2>3 DEF Points
  <2> QED  BY <1>3, <2>1, <2>4, GoingAt
<1>4. CASE j.op = "launch"
  <2>1. job' = [job EXCEPT ![c] = Done]  BY <1>4 DEF Running
  <2> QED  BY <1>4, <2>1, DoneIs
<1>5. CASE j.op \notin {"reset", "remove", "launch"}
  <2>1. job' = [job EXCEPT ![c] = Onward(j)]  BY <1>5 DEF Running
  <2>2. Fresh(Onward(j), j)  BY <1>1, OnwardIs
  <2>3. Moves(c) /\ job'[c] = Onward(j)  BY <2>1, <2>2, Moved DEF Fresh
  <2> QED  BY <1>5, <2>2, <2>3
<1> QED  BY <1>2, <1>3, <1>4, <1>5

LEMMA StopIs ==
  ASSUME TypeInv, NEW c \in Threads, Stop(c)
  PROVE  /\ Moves(c) /\ job[c].at = "stop" /\ Keeping(job'[c], job[c]) /\ job'[c].gen = job[c].gen
         /\ job'[c].at = IF job[c].op = "reset" THEN "wipe" ELSE "start"
         /\ daemon'.on = FALSE /\ UNCHANGED <<file, stores, walks, sweeps, names, ghosts>>
<1> DEFINE place == IF job[c].op = "reset" THEN "wipe" ELSE "start"
<1>1. job[c] \in Jobs /\ Shaped(job[c])  BY ThreadIs
<1>2. job' = [job EXCEPT ![c].at = place]  BY DEF Stop
<1>3. place \in Points  BY DEF Points
<1>4. place \notin {"scan", "wipe", "clear", "forget", "purge"} \/ Shaped([job[c] EXCEPT !.at = place])
  BY <1>1, ResetPlaces
<1> HIDE DEF place
<1>5. Moves(c) /\ job'[c].at = place /\ job'[c].gen = job[c].gen /\ Keeping(job'[c], job[c])
  BY <1>2, <1>3, <1>4, GoingAt
<1>6. daemon'.on = FALSE
  <2>1. daemon \in [on : BOOLEAN, watched : SUBSET Folders, gen : Nat]  BY DEF TypeInv, TypeOK
  <2> QED  BY <2>1 DEF Stop
<1> QED  BY <1>5, <1>6 DEF Stop, place

LEMMA RewalkIs ==
  ASSUME TypeInv, NEW c \in Threads, Rewalk(c)
  PROVE  /\ Moves(c) /\ job[c].at = "walk" /\ job'[c].at \in {"walk", "reload"}
         /\ Keeping(job'[c], job[c]) /\ job'[c].gen = job[c].gen
         /\ names \subseteq names' /\ names' \subseteq names \cup Folders
         /\ UNCHANGED <<file, stores, daemon, walks, sweeps, ghosts>>
<1>1. job[c] \in Jobs /\ Shaped(job[c]) /\ job[c].at = "walk"  BY ThreadIs DEF Rewalk
<1>2. CASE job' = [job EXCEPT ![c].at = "reload"] /\ UNCHANGED names
  <2>1. "reload" \in Points  BY DEF Points
  <2>2. Moves(c) /\ job'[c].at = "reload" /\ job'[c].gen = job[c].gen /\ Keeping(job'[c], job[c])
    BY <1>2, <2>1, GoingAt
  <2> QED  BY <1>1, <1>2, <2>2 DEF Rewalk
<1>3. CASE \E r \in job[c].left : /\ names' = names \cup ({r} \cap Walked)
                                  /\ job' = [job EXCEPT ![c].left = @ \ {r}]
  <2>1. PICK r \in job[c].left : /\ names' = names \cup ({r} \cap Walked)
                                 /\ job' = [job EXCEPT ![c].left = @ \ {r}]
    BY <1>3
  <2> DEFINE l == job[c].left \ {r}
             n == [job[c] EXCEPT !.left = l]
  <2>2. l \in SUBSET Folders /\ r \in Folders  BY <1>1, JobIs
  <2>3. job' = [job EXCEPT ![c] = n]  BY <2>1
  <2> HIDE DEF l
  <2>4. n \in Jobs  BY <1>1, <2>2 DEF Jobs
  <2>5. /\ n.at = job[c].at /\ n.op = job[c].op /\ n.root = job[c].root /\ n.role = job[c].role
        /\ n.gen = job[c].gen /\ n.kind = job[c].kind /\ n.seen = job[c].seen
        /\ n.todo = job[c].todo /\ n.met = job[c].met /\ n.late = job[c].late
    BY <1>1 DEF Jobs
  <2> HIDE DEF n
  <2>6. Shaped(n)  BY <1>1, <2>5 DEF Shaped
  <2>7. Moves(c) /\ job'[c] = n  BY <2>3, <2>4, <2>6, Moved
  <2>8. names \subseteq names' /\ names' \subseteq names \cup Folders  BY <2>1, <2>2
  <2> QED  BY <1>1, <2>5, <2>7, <2>8 DEF Rewalk, Keeping
<1> QED  BY <1>2, <1>3 DEF Rewalk

LEMMA ResetIs ==
  ASSUME TypeInv, NEW c \in Threads, Reset(c)
  PROVE  /\ job' \in [Threads -> Jobs] /\ JobsShaped' /\ job'[c] = Done /\ job[c].at = "forget"
         /\ \A d \in Threads \ {c} :
              LET n == job'[d]
                  j == job[d] IN
              /\ n.kind = j.kind /\ n.op = j.op /\ n.root = j.root /\ n.role = j.role /\ n.seen = j.seen
              /\ n.todo = j.todo /\ n.met = j.met /\ n.gen = j.gen /\ n.at = j.at
              /\ n.late <=> j.late \/ j.at = "store"
         /\ ForgetSize /\ UNCHANGED <<file, live, ghosts>>
<1> DEFINE n(d) == [job[d] EXCEPT !.late = job[d].late \/ job[d].at = "store"]
<1>1. job' = [d \in Threads |-> IF d = c THEN Done ELSE n(d)]
  <2>1. \A d \in Threads : job[d] \in Jobs  BY ThreadIs
  <2>2. \A d \in Threads : n(d) = [job[d] EXCEPT !.late = @ \/ job[d].at = "store"]
    <3> TAKE d \in Threads
    <3>1. job[d] \in Jobs  BY <2>1
    <3> QED  BY <3>1
  <2> QED  BY <2>2, Zenon DEF Reset, Answered
<1>2. ASSUME NEW d \in Threads
      PROVE  LET m == n(d)
                 j == job[d] IN
             /\ m \in Jobs /\ Shaped(m)
             /\ m.kind = j.kind /\ m.op = j.op /\ m.root = j.root /\ m.role = j.role /\ m.seen = j.seen
             /\ m.todo = j.todo /\ m.met = j.met /\ m.gen = j.gen /\ m.at = j.at
             /\ m.late <=> j.late \/ j.at = "store"
  <2> DEFINE b == job[d].late \/ job[d].at = "store"
  <2>1. job[d] \in Jobs /\ Shaped(job[d])  BY ThreadIs
  <2>2. b \in BOOLEAN  BY <2>1 DEF Jobs
  <2>3. n(d) = [job[d] EXCEPT !.late = b]  OBVIOUS
  <2> HIDE DEF b, n
  <2>4. n(d) \in Jobs  BY <2>1, <2>2, <2>3 DEF Jobs
  <2>5. n(d).late = b  BY <2>1, <2>3 DEF Jobs
  <2>6. LET m == n(d)
            j == job[d] IN
        /\ m.kind = j.kind /\ m.op = j.op /\ m.root = j.root /\ m.role = j.role /\ m.seen = j.seen
        /\ m.todo = j.todo /\ m.met = j.met /\ m.gen = j.gen /\ m.at = j.at
    BY <2>1, <2>3 DEF Jobs
  <2>7. Shaped(n(d))  BY <2>1, <2>6 DEF Shaped
  <2> QED  BY <2>4, <2>5, <2>6, <2>7 DEF b
<1> HIDE DEF n
<1>3. Done \in Jobs /\ Shaped(Done)  BY IdleIs
<1>4. /\ job' \in [Threads -> Jobs] /\ job'[c] = Done /\ \A d \in Threads \ {c} : job'[d] = n(d)
  BY <1>1, <1>2, <1>3
<1>5. JobsShaped'
  <2>1. ASSUME NEW d \in Threads PROVE Shaped(job'[d])  BY <1>2, <1>3, <1>4
  <2> QED  BY <2>1 DEF JobsShaped
<1> QED  BY <1>2, <1>4, <1>5 DEF Reset, Finally

LEMMA CrashIs ==
  ASSUME TypeInv, Crash
  PROVE  /\ job' \in [Threads -> Jobs] /\ JobsShaped'
         /\ \A d \in Threads : /\ job'[d].at \in {"load", "idle", "done"} /\ job'[d].seen = Default
                               /\ job'[d].gen = 0 /\ job'[d].todo = {} /\ job'[d].op \in {"none", "peek"}
         /\ job'["boot"].kind = "boot"
<1>1. job' = [c \in Threads |-> IF c = "boot" THEN Booting ELSE IF job[c] = Idle THEN Idle ELSE Done]
  BY DEF Crash
<1>2. \A c \in Threads : job'[c] \in {Booting, Idle, Done}  BY <1>1
<1>3. job'["boot"] = Booting  BY <1>1 DEF Threads
<1>4. job' \in [Threads -> Jobs]  BY <1>1, <1>2, IdleIs
<1>5. \A n \in {Booting, Idle, Done} :
        /\ n.at \in {"load", "idle", "done"} /\ n.seen = Default
        /\ n.gen = 0 /\ n.todo = {} /\ n.op \in {"none", "peek"}
  <2>1. /\ Booting.at = "load" /\ Booting.seen = Default /\ Booting.gen = 0 /\ Booting.todo = {}
        /\ Booting.op = "peek"
    BY DEF Booting, Idle
  <2>2. Idle.at = "idle" /\ Idle.seen = Default /\ Idle.gen = 0 /\ Idle.todo = {} /\ Idle.op = "none"
    BY DEF Idle
  <2>3. Done.at = "done" /\ Done.seen = Default /\ Done.gen = 0 /\ Done.todo = {} /\ Done.op = "none"
    BY DEF Done, Idle
  <2> QED  BY <2>1, <2>2, <2>3
<1>6. Booting.kind = "boot"  BY DEF Booting, Idle
<1>7. \A c \in Threads : Shaped(job'[c])  BY <1>2, IdleIs
<1> QED  BY <1>2, <1>3, <1>4, <1>5, <1>6, <1>7 DEF JobsShaped

LEMMA SizeIs ==
  ASSUME TypeInv, NEW c \in Threads, Size(c)
  PROVE  /\ Moves(c) /\ job[c].at = "size" /\ UNCHANGED <<file, stores, live, ghosts>>
         /\ \/ job'[c] = Done
            \/ job'[c].at = "store" /\ job'[c].gen = gen /\ Keeping(job'[c], job[c])
<1>1. job[c].at = "size" /\ UNCHANGED <<file, stores, live, ghosts>>  BY DEF Size
<1>2. CASE cache.on
  <2>1. job' = [job EXCEPT ![c] = Done]  BY <1>2 DEF Size
  <2> QED  BY <1>1, <2>1, DoneIs
<1>3. CASE ~cache.on
  <2>1. job' = [job EXCEPT ![c] = [job[c] EXCEPT !.at = "store", !.gen = gen]]
    BY <1>3 DEF Size
  <2>2. "store" \in Points  BY DEF Points
  <2> QED  BY <1>1, <2>1, <2>2, Going
<1> QED  BY <1>2, <1>3

LEMMA LaunchIs ==
  ASSUME TypeInv, NEW c \in Threads, Launch(c)
  PROVE  /\ Moves(c) /\ job[c].at = "launch" /\ UNCHANGED <<file, stores, live, ghosts>>
         /\ \/ job'[c] = Done
            \/ job'[c].at = "check" /\ job'[c].gen = job[c].gen /\ Keeping(job'[c], job[c])
<1>1. job[c].at = "launch" /\ UNCHANGED <<file, stores, live, ghosts>>  BY DEF Launch
<1>2. PICK ok \in BOOLEAN : job' = [job EXCEPT ![c] = IF ok THEN [@ EXCEPT !.at = "check"] ELSE Done]
  BY DEF Launch
<1>3. CASE ~ok
  <2>1. job' = [job EXCEPT ![c] = Done]  BY <1>2, <1>3
  <2> QED  BY <1>1, <2>1, DoneIs
<1>4. CASE ok
  <2>1. job' = [job EXCEPT ![c].at = "check"]  BY <1>2, <1>4
  <2>2. "check" \in Points  BY DEF Points
  <2> QED  BY <1>1, <2>1, <2>2, GoingAt
<1> QED  BY <1>3, <1>4

LEMMA CheckIs ==
  ASSUME TypeInv, NEW c \in Threads, Check(c)
  PROVE  /\ Moves(c) /\ job[c].at = "check" /\ UNCHANGED <<file, live, ghosts>>
         /\ job'[c].at \in {"rebuild", "use"} /\ job'[c].gen = gen /\ Keeping(job'[c], job[c])
         /\ Checked(version)
<1>1. PICK v \in {"none", "old", "new"} :
        /\ Checked(v)
        /\ job' = [job EXCEPT ![c].at = IF v = "old" THEN "rebuild" ELSE "use", ![c].gen = gen]
  BY DEF Check
<1> DEFINE place == IF v = "old" THEN "rebuild" ELSE "use"
<1>2. job \in [Threads -> Jobs]  BY ThreadIs
<1>3. job' = [job EXCEPT ![c] = [job[c] EXCEPT !.at = place, !.gen = gen]]
  BY <1>1, <1>2
<1>4. place \in Points /\ place \in {"rebuild", "use"}  BY DEF Points
<1> HIDE DEF place
<1>5. /\ Moves(c) /\ job'[c].at = place /\ job'[c].gen = gen /\ Keeping(job'[c], job[c])
  BY <1>3, <1>4, Going
<1>6. v = version  BY <1>1 DEF Checked
<1> QED  BY <1>1, <1>4, <1>5, <1>6 DEF Check

(***************************************************************************)
(* Types                                                                   *)
(***************************************************************************)
LEMMA OtherMoves ==
  ASSUME TypeInv, NEW c \in Threads
  PROVE  /\ Purge(c) => Moves(c) /\ job'[c] = Done
         /\ Reload(c) => Moves(c) /\ job'[c] = Done
         /\ KeepSize(c) => Moves(c) /\ job'[c] = Done
         /\ UseStore(c) => Moves(c) /\ job'[c] = Done
         /\ Wipe(c) => Moves(c) /\ job'[c].at = "clear" /\ job'[c].gen = job[c].gen /\ Keeping(job'[c], job[c])
         /\ ClearSize(c) => Moves(c) /\ job'[c].at = "start" /\ job'[c].gen = job[c].gen /\ Keeping(job'[c], job[c])
         /\ RebuildStore(c) => Moves(c) /\ job'[c].at = "mark" /\ job'[c].gen = job[c].gen /\ Keeping(job'[c], job[c])
         /\ Mark(c) => Moves(c) /\ job'[c].at = "use" /\ job'[c].gen = job[c].gen /\ Keeping(job'[c], job[c])
<1>1. job[c] \in Jobs /\ Shaped(job[c])  BY ThreadIs
<1>2. Purge(c) => Moves(c) /\ job'[c] = Done  BY DoneIs DEF Purge
<1>3. Reload(c) => Moves(c) /\ job'[c] = Done  BY DoneIs DEF Reload
<1>4. KeepSize(c) => Moves(c) /\ job'[c] = Done  BY DoneIs DEF KeepSize
<1>5. UseStore(c) => Moves(c) /\ job'[c] = Done  BY DoneIs DEF UseStore
<1>6. ASSUME Wipe(c)
      PROVE  Moves(c) /\ job'[c].at = "clear" /\ job'[c].gen = job[c].gen /\ Keeping(job'[c], job[c])
  <2>1. job' = [job EXCEPT ![c].at = "clear"] /\ job[c].at = "wipe"  BY <1>6 DEF Wipe
  <2>2. job[c].op = "reset"  BY <1>1, <2>1 DEF Shaped
  <2>3. "clear" \in Points  BY DEF Points
  <2> QED  BY <1>1, <2>1, <2>2, <2>3, ResetPlaces, GoingAt
<1>7. ASSUME ClearSize(c)
      PROVE  Moves(c) /\ job'[c].at = "start" /\ job'[c].gen = job[c].gen /\ Keeping(job'[c], job[c])
  <2>1. job' = [job EXCEPT ![c].at = "start"] /\ "start" \in Points  BY <1>7 DEF ClearSize, Points
  <2> QED  BY <2>1, GoingAt
<1>8. ASSUME RebuildStore(c)
      PROVE  Moves(c) /\ job'[c].at = "mark" /\ job'[c].gen = job[c].gen /\ Keeping(job'[c], job[c])
  <2>1. job' = [job EXCEPT ![c].at = "mark"] /\ "mark" \in Points  BY <1>8 DEF RebuildStore, Points
  <2> QED  BY <2>1, GoingAt
<1>9. ASSUME Mark(c)
      PROVE  Moves(c) /\ job'[c].at = "use" /\ job'[c].gen = job[c].gen /\ Keeping(job'[c], job[c])
  <2>1. job' = [job EXCEPT ![c].at = "use"] /\ "use" \in Points  BY <1>9 DEF Mark, Points
  <2> QED  BY <2>1, GoingAt
<1> QED  BY <1>2, <1>3, <1>4, <1>5, <1>6, <1>7, <1>8, <1>9

LEMMA MovesShaped ==
  ASSUME TypeInv, NEW c \in Threads, Moves(c)
  PROVE  job' \in [Threads -> Jobs] /\ JobsShaped'
<1>1. ASSUME NEW d \in Threads PROVE Shaped(job'[d])
  <2>1. CASE d = c  BY <2>1 DEF Moves
  <2>2. CASE d # c  BY <2>2, ThreadIs DEF Moves
  <2> QED  BY <2>1, <2>2
<1> QED  BY <1>1 DEF Moves, JobsShaped

\* The steps of the threads, by name, and all the other steps.
LEMMA JobsType ==
  ASSUME TypeInv, [Next]_vars
  PROVE  job' \in [Threads -> Jobs] /\ JobsShaped'
<1>1. ASSUME job' = job PROVE job' \in [Threads -> Jobs] /\ JobsShaped'
  BY <1>1 DEF TypeInv, TypeOK, JobsShaped
<1>2. ASSUME NEW c \in Calls, Page(c) PROVE job' \in [Threads -> Jobs] /\ JobsShaped'
  <2>1. c \in Threads /\ Moves(c)  BY <1>2, PageIs DEF Threads
  <2> QED  BY <2>1, MovesShaped
<1>3. ASSUME NEW c \in Threads, Step(c) PROVE job' \in [Threads -> Jobs] /\ JobsShaped'
  <2>1. CASE Load(c)  BY <2>1, LoadIs, MovesShaped
  <2>2. CASE LoadFails(c)  BY <2>2, LoadFailsIs, MovesShaped
  <2>3. CASE LoadCreates(c) \/ Open(c)  BY <2>3, OpensIs DEF LoadCreates, Open
  <2>4. CASE Create(c)  BY <2>4, CreateIs, MovesShaped
  <2>5. CASE Scan(c)  BY <2>5, ScanIs, MovesShaped
  <2>6. CASE Write(c)  BY <2>6, WriteIs, MovesShaped
  <2>7. CASE Stop(c)  BY <2>7, StopIs, MovesShaped
  <2>8. CASE Start(c) \/ StartAgain(c)  BY <2>8, RunningIs, MovesShaped DEF Start, StartAgain
  <2>9. CASE Rewalk(c)  BY <2>9, RewalkIs, MovesShaped
  <2>10. CASE Reset(c)  BY <2>10, ResetIs
  <2>11. CASE Size(c)  BY <2>11, SizeIs, MovesShaped
  <2>12. CASE Launch(c)  BY <2>12, LaunchIs, MovesShaped
  <2>13. CASE Check(c)  BY <2>13, CheckIs, MovesShaped
  <2>14. CASE Purge(c) \/ Reload(c) \/ Wipe(c) \/ ClearSize(c) \/ KeepSize(c) \/ RebuildStore(c)
              \/ Mark(c) \/ UseStore(c)
    BY <2>14, OtherMoves, MovesShaped
  <2> QED  BY <1>3, <2>1, <2>2, <2>3, <2>4, <2>5, <2>6, <2>7, <2>8, <2>9, <2>10, <2>11, <2>12, <2>13,
              <2>14 DEF Step
<1>4. CASE \E w \in walks : Thread(w)  BY <1>1, <1>4 DEF Thread, Found, GiveUp, Condemn
<1>5. CASE \E w \in sweeps : Sweep(w)  BY <1>1, <1>5 DEF Sweep
<1>6. CASE Expire  BY <1>1, <1>6 DEF Expire
<1>7. CASE Crash  BY <1>7, CrashIs
<1>8. CASE UNCHANGED vars  BY <1>1, <1>8 DEF vars
<1> QED  BY <1>2, <1>3, <1>4, <1>5, <1>6, <1>7, <1>8 DEF Next

\* Who changes what.
LEMMA Changes ==
  ASSUME [Next]_vars
  PROVE  /\ file' = file \/ \E c \in Threads : LoadCreates(c) \/ Create(c) \/ Open(c) \/ Write(c) \/ Start(c)
         /\ stores' = stores \/ Expire \/ Crash \/ \E c \in Threads :
              Wipe(c) \/ ClearSize(c) \/ Reset(c) \/ KeepSize(c) \/ Check(c) \/ RebuildStore(c) \/ Mark(c) \/ UseStore(c)
         /\ daemon' = daemon \/ Crash \/ \E c \in Threads : Stop(c) \/ Start(c)
         /\ walks' = walks \/ Crash \/ (\E c \in Threads : Start(c) \/ Reload(c)) \/ \E w \in walks : Thread(w)
         /\ sweeps' = sweeps \/ Crash \/ (\E w \in walks : Condemn(w)) \/ \E w \in sweeps : Sweep(w)
         /\ names' = names \/ (\E c \in Threads : Purge(c) \/ Rewalk(c) \/ Wipe(c))
              \/ (\E w \in walks : Found(w)) \/ \E w \in sweeps : Sweep(w)
         /\ UNCHANGED <<crossed, dropped>> \/ Crash \/ \E c \in Threads :
              LoadFails(c) \/ Create(c) \/ Write(c) \/ Start(c)
         /\ offered' = offered \/ Crash \/ \E c \in Threads : Load(c) \/ Create(c)
         /\ news' = news \/ Crash \/ \E c \in Threads : Load(c) \/ LoadCreates(c) \/ Create(c) \/ Write(c)
         /\ scenario' = scenario /\ (crashes' = crashes \/ Crash)
<1> USE DEF live, stores, ghosts
<1>1. ASSUME NEW c \in Calls, Page(c) PROVE UNCHANGED <<file, stores, live, ghosts>>
  BY <1>1 DEF Page, Begin, BeginDefaults
<1>2. ASSUME NEW c \in Threads, Step(c)
      PROVE  /\ file' = file \/ LoadCreates(c) \/ Create(c) \/ Open(c) \/ Write(c) \/ Start(c)
             /\ stores' = stores \/ Wipe(c) \/ ClearSize(c) \/ Reset(c) \/ KeepSize(c) \/ Check(c)
                  \/ RebuildStore(c) \/ Mark(c) \/ UseStore(c)
             /\ daemon' = daemon \/ Stop(c) \/ Start(c)
             /\ walks' = walks \/ Start(c) \/ Reload(c)
             /\ sweeps' = sweeps
             /\ names' = names \/ Purge(c) \/ Rewalk(c) \/ Wipe(c)
             /\ UNCHANGED <<crossed, dropped>> \/ LoadFails(c) \/ Create(c) \/ Write(c) \/ Start(c)
             /\ offered' = offered \/ Load(c) \/ Create(c)
             /\ news' = news \/ Load(c) \/ LoadCreates(c) \/ Create(c) \/ Write(c)
             /\ scenario' = scenario /\ crashes' = crashes
  <2>1. CASE Load(c)  BY <2>1 DEF Load
  <2>2. CASE LoadFails(c)  BY <2>2 DEF LoadFails
  <2>3. CASE LoadCreates(c)  BY <2>3 DEF LoadCreates
  <2>4. CASE Create(c)  BY <2>4 DEF Create
  <2>5. CASE Scan(c)  BY <2>5 DEF Scan
  <2>6. CASE Open(c)  BY <2>6 DEF Open
  <2>7. CASE Write(c)  BY <2>7 DEF Write
  <2>8. CASE Stop(c)  BY <2>8 DEF Stop
  <2>9. CASE Start(c)  BY <2>9 DEF Start
  <2>10. CASE StartAgain(c)  BY <2>10 DEF StartAgain
  <2>11. CASE Purge(c)  BY <2>11 DEF Purge
  <2>12. CASE Rewalk(c)  BY <2>12 DEF Rewalk
  <2>13. CASE Reload(c)  BY <2>13 DEF Reload
  <2>14. CASE Wipe(c)  BY <2>14 DEF Wipe
  <2>15. CASE ClearSize(c)  BY <2>15 DEF ClearSize
  <2>16. CASE Reset(c)  BY <2>16 DEF Reset
  <2>17. CASE Size(c)  BY <2>17 DEF Size
  <2>18. CASE KeepSize(c)  BY <2>18 DEF KeepSize
  <2>19. CASE Launch(c)  BY <2>19 DEF Launch
  <2>20. CASE Check(c)  BY <2>20 DEF Check
  <2>21. CASE RebuildStore(c)  BY <2>21 DEF RebuildStore
  <2>22. CASE Mark(c)  BY <2>22 DEF Mark
  <2>23. CASE UseStore(c)  BY <2>23 DEF UseStore
  <2> QED  BY <1>2, <2>1, <2>2, <2>3, <2>4, <2>5, <2>6, <2>7, <2>8, <2>9, <2>10, <2>11, <2>12, <2>13,
              <2>14, <2>15, <2>16, <2>17, <2>18, <2>19, <2>20, <2>21, <2>22, <2>23, Zenon DEF Step
<1>3. ASSUME NEW w \in walks, Thread(w)
      PROVE  /\ UNCHANGED <<file, stores, daemon, ghosts>>
             /\ sweeps' = sweeps \/ Condemn(w)
             /\ names' = names \/ Found(w)
  BY <1>3 DEF Thread, Found, GiveUp, Condemn
<1>4. ASSUME NEW w \in sweeps, Sweep(w) PROVE UNCHANGED <<file, stores, daemon, walks, ghosts>>
  BY <1>4 DEF Sweep
<1>5. CASE Expire  BY <1>5 DEF Expire
<1>6. CASE Crash  BY <1>6 DEF Crash
<1>7. CASE UNCHANGED vars  BY <1>7 DEF vars
<1>8. CASE \E c \in Calls : Page(c)  BY <1>1, <1>8
<1>9. CASE \E c \in Threads : Step(c)  BY <1>2, <1>9, Zenon
<1>10. CASE \E w \in walks : Thread(w)  BY <1>3, <1>10
<1>11. CASE \E w \in sweeps : Sweep(w)  BY <1>4, <1>11
<1> QED  BY <1>5, <1>6, <1>7, <1>8, <1>9, <1>10, <1>11 DEF Next

LEMMA FileType ==
  ASSUME TypeInv, [Next]_vars PROVE file' \in FileStates
<1>1. file \in FileStates  BY DEF TypeInv, TypeOK
<1>2. \A s \in Settings : Dump(s) => file' \in FileStates  BY <1>1 DEF Dump, FileStates
<1>3. Truncate => file' \in FileStates  BY <1>1 DEF Truncate, FileStates
<1>4. ASSUME NEW c \in Threads, LoadCreates(c) \/ Create(c) \/ Open(c) \/ Write(c) \/ Start(c)
      PROVE  file' \in FileStates
  <2>1. CASE LoadCreates(c) \/ Open(c)  BY <1>3, <2>1 DEF LoadCreates, Open, Opens
  <2>2. CASE Create(c)  BY <1>2, <2>2, DefaultIs DEF Create
  <2>3. CASE Write(c)
    <3>1. job[c].seen \in Settings  BY ThreadIs, JobIs
    <3> QED  BY <1>2, <2>3, <3>1 DEF Write
  <2>4. CASE Start(c)  BY <1>1, <2>4 DEF Start, FileStates
  <2> QED  BY <1>4, <2>1, <2>2, <2>3, <2>4
<1> QED  BY <1>1, <1>4, Changes

LEMMA StoresType ==
  ASSUME TypeInv, [Next]_vars
  PROVE  /\ gen' \in Nat /\ gen <= gen'
         /\ version' \in {"none", "old", "new"} /\ layout' \in {"none", "old", "new"} /\ cache' \in Caches
<1>1. gen \in Nat /\ version \in {"none", "old", "new"} /\ layout \in {"none", "old", "new"} /\ cache \in Caches
  BY DEF TypeInv, TypeOK
<1> DEFINE Typed2 == /\ gen' \in Nat /\ gen <= gen' /\ version' \in {"none", "old", "new"}
                     /\ layout' \in {"none", "old", "new"} /\ cache' \in Caches
<1> SUFFICES Typed2  OBVIOUS
<1>2. Nothing \in Caches  BY DEF Nothing, Caches
<1>3. UNCHANGED stores => Typed2  BY <1>1 DEF stores
<1>4. ForgetSize => Typed2  BY <1>1, <1>2 DEF ForgetSize
<1>5. ASSUME NEW c \in Threads,
             Wipe(c) \/ ClearSize(c) \/ Reset(c) \/ KeepSize(c) \/ Check(c) \/ RebuildStore(c) \/ Mark(c) \/ UseStore(c)
      PROVE  Typed2
  <2>1. CASE Wipe(c)  BY <1>1, <2>1 DEF Wipe, Wiped
  <2>2. CASE ClearSize(c) \/ Reset(c)  BY <1>4, <2>2 DEF ClearSize, Reset, Finally
  <2>3. CASE KeepSize(c)
    <3>1. job[c].gen \in Nat /\ job[c].late \in BOOLEAN  BY ThreadIs, JobIs
    <3> QED  BY <1>1, <2>3, <3>1 DEF KeepSize, Store, Caches
  <2>4. CASE Check(c)  BY <1>1, <2>4 DEF Check, Checked
  <2>5. CASE RebuildStore(c)  BY <1>1, <2>5 DEF RebuildStore, Rebuild
  <2>6. CASE Mark(c)  BY <1>1, <2>6 DEF Mark, Recorded
  <2>7. CASE UseStore(c)  BY <1>1, <2>7 DEF UseStore, Use, Created
  <2> HIDE DEF Typed2
  <2> QED  BY <1>5, <2>1, <2>2, <2>3, <2>4, <2>5, <2>6, <2>7
<1>6. CASE Expire  BY <1>4, <1>6 DEF Expire
<1>7. CASE Crash  BY <1>1, <1>2, <1>7 DEF Crash
<1> HIDE DEF Typed2
<1> QED  BY <1>3, <1>5, <1>6, <1>7, Changes

LEMMA DaemonType ==
  ASSUME TypeInv, [Next]_vars
  PROVE  /\ daemon' \in [on : BOOLEAN, watched : SUBSET Folders, gen : Nat]
         /\ walks' \subseteq [root : Folders, gen : Nat] /\ sweeps' \subseteq [root : Folders, blank : BOOLEAN]
         /\ names' \subseteq Roots
<1>1. /\ gen \in Nat /\ daemon \in [on : BOOLEAN, watched : SUBSET Folders, gen : Nat]
      /\ walks \subseteq [root : Folders, gen : Nat] /\ sweeps \subseteq [root : Folders, blank : BOOLEAN]
      /\ names \subseteq Roots
  BY DEF TypeInv, TypeOK
<1>2. \A s : Present(s) \subseteq Folders /\ Walking(s) \subseteq [root : Folders, gen : Nat]
  BY <1>1 DEF Present, Walking
<1>3. daemon' \in [on : BOOLEAN, watched : SUBSET Folders, gen : Nat]
  <2>1. ASSUME NEW c \in Threads, Stop(c) PROVE daemon' \in [on : BOOLEAN, watched : SUBSET Folders, gen : Nat]
    BY <1>1, <2>1 DEF Stop
  <2>2. ASSUME NEW c \in Threads, Start(c) PROVE daemon' \in [on : BOOLEAN, watched : SUBSET Folders, gen : Nat]
    <3> DEFINE s == IF file.is = "whole" THEN file.has ELSE Default
    <3>1. daemon' = [on |-> TRUE, watched |-> Present(s), gen |-> gen]  BY <2>2 DEF Start
    <3>2. Present(s) \in SUBSET Folders  BY <1>2
    <3> HIDE DEF s
    <3> QED  BY <1>1, <3>1, <3>2
  <2>3. Crash => daemon' \in [on : BOOLEAN, watched : SUBSET Folders, gen : Nat]  BY DEF Crash, Off
  <2> QED  BY <1>1, <2>1, <2>2, <2>3, Changes
<1>4. walks' \subseteq [root : Folders, gen : Nat]
  <2>1. ASSUME NEW c \in Threads, Start(c) PROVE walks' \subseteq [root : Folders, gen : Nat]
    <3> DEFINE s == IF file.is = "whole" THEN file.has ELSE Default
    <3>1. walks' = walks \cup Walking(s)  BY <2>1 DEF Start
    <3> HIDE DEF s
    <3> QED  BY <1>1, <1>2, <3>1
  <2>2. ASSUME NEW c \in Threads, Reload(c) PROVE walks' \subseteq [root : Folders, gen : Nat]
    BY <1>1, <1>2, <2>2 DEF Reload
  <2>3. ASSUME NEW w \in walks, Thread(w) PROVE walks' \subseteq [root : Folders, gen : Nat]
    BY <1>1, <2>3 DEF Thread, Found, GiveUp, Condemn
  <2>4. Crash => walks' \subseteq [root : Folders, gen : Nat]  BY DEF Crash
  <2> QED  BY <1>1, <2>1, <2>2, <2>3, <2>4, Changes
<1>5. sweeps' \subseteq [root : Folders, blank : BOOLEAN]
  <2>1. ASSUME NEW w \in walks, Condemn(w) PROVE sweeps' \subseteq [root : Folders, blank : BOOLEAN]
    <3>1. sweeps' = sweeps \cup {[root |-> w.root, blank |-> file.is = "empty"]}  BY <2>1 DEF Condemn
    <3>2. w.root \in Folders  BY <1>1
    <3>3. (file.is = "empty") \in BOOLEAN  OBVIOUS
    <3>4. [root |-> w.root, blank |-> file.is = "empty"] \in [root : Folders, blank : BOOLEAN]
      BY <3>2, <3>3, Zenon
    <3> QED  BY <1>1, <3>1, <3>4
  <2>2. ASSUME NEW w \in sweeps, Sweep(w) PROVE sweeps' \subseteq [root : Folders, blank : BOOLEAN]
    BY <1>1, <2>2 DEF Sweep
  <2>3. Crash => sweeps' \subseteq [root : Folders, blank : BOOLEAN]  BY DEF Crash
  <2> QED  BY <1>1, <2>1, <2>2, <2>3, Changes
<1>6. names' \subseteq Roots
  <2>1. ASSUME NEW c \in Threads, Purge(c) \/ Rewalk(c) \/ Wipe(c) PROVE names' \subseteq Roots
    BY <1>1, <2>1, RewalkIs, Scope DEF Purge, Wipe, Without
  <2>2. ASSUME NEW w \in walks, Found(w) PROVE names' \subseteq Roots
    BY <1>1, <2>2, Scope DEF Found
  <2>3. ASSUME NEW w \in sweeps, Sweep(w) PROVE names' \subseteq Roots
    BY <1>1, <2>3 DEF Sweep, Without
  <2> QED  BY <1>1, <2>1, <2>2, <2>3, Changes
<1> QED  BY <1>3, <1>4, <1>5, <1>6

LEMMA GhostsType ==
  ASSUME TypeInv, [Next]_vars
  PROVE  /\ scenario' \in Scenarios /\ news' \in [Threads -> SUBSET Parts]
         /\ crossed' \in BOOLEAN /\ dropped' \subseteq Roots
         /\ offered' \in BOOLEAN /\ crashes' \in Nat
<1>1. /\ scenario \in Scenarios /\ crossed \in BOOLEAN /\ dropped \subseteq Roots
      /\ offered \in BOOLEAN /\ crashes \in Nat
  BY DEF TypeInv, TypeOK
<1>2. file.has.roots \subseteq Roots
  <2>1. file \in FileStates  BY DEF TypeInv, TypeOK
  <2> QED  BY <2>1 DEF FileStates, Settings
<1>3. crossed' \in BOOLEAN /\ dropped' \subseteq Roots
  <2>1. ASSUME NEW c \in Threads, LoadFails(c) \/ Create(c) \/ Write(c) \/ Start(c)
        PROVE  crossed' \in BOOLEAN /\ dropped' \subseteq Roots
    <3>1. CASE LoadFails(c)  BY <1>1, <3>1 DEF LoadFails
    <3>2. CASE Create(c)
      <4>1. crossed' = (crossed \/ job[c].met) /\ dropped' = dropped \cup file.has.roots  BY <3>2 DEF Create
      <4>2. crossed' \in BOOLEAN  BY <4>1, Zenon
      <4> QED  BY <1>1, <1>2, <4>1, <4>2
    <3>3. CASE Write(c)
      <4>1. /\ crossed' = (crossed \/ job[c].met)
            /\ dropped' = dropped \cup (file.has.roots \ job[c].seen.roots)
        BY <3>3 DEF Write
      <4>2. crossed' \in BOOLEAN  BY <4>1, Zenon
      <4> QED  BY <1>1, <1>2, <4>1, <4>2
    <3>4. CASE Start(c)
      <4>1. /\ crossed' = (crossed \/ file.is \in {"empty", "torn"} \/ \E d \in Threads : job[d].at = "wipe")
            /\ dropped' = dropped
        BY <3>4 DEF Start
      <4>2. crossed' \in BOOLEAN  BY <4>1, Zenon
      <4> QED  BY <1>1, <4>1, <4>2
    <3> QED  BY <2>1, <3>1, <3>2, <3>3, <3>4
  <2>2. Crash => crossed' \in BOOLEAN /\ dropped' \subseteq Roots  BY <1>1 DEF Crash
  <2> QED  BY <1>1, <2>1, <2>2, Changes
<1>4. offered' \in BOOLEAN
  <2>1. ASSUME NEW c \in Threads, Load(c) \/ Create(c) PROVE offered' \in BOOLEAN
    BY <1>1, <2>1, Zenon DEF Load, Loaded, Create
  <2>2. Crash => offered' \in BOOLEAN  BY DEF Crash
  <2> QED  BY <1>1, <2>1, <2>2, Changes
<1>5. crashes' \in Nat
  <2>1. crashes' = crashes \/ Crash  BY Changes
  <2>2. Crash => crashes' = crashes + 1  BY DEF Crash
  <2> QED  BY <1>1, <2>1, <2>2
<1>6. scenario' \in Scenarios  BY <1>1, Changes
<1>7. news' \in [Threads -> SUBSET Parts]
  <2>1. news \in [Threads -> SUBSET Parts]  BY DEF TypeInv, TypeOK
  <2>2. \A s, t : Changed(s, t) \in SUBSET Parts  BY DEF Changed
  <2>3. ASSUME NEW c \in Threads, Load(c) PROVE news' \in [Threads -> SUBSET Parts]
    <3>1. PICK s : news' = [news EXCEPT ![c] = Changed(s, file.has)]  BY <2>3, LoadIs
    <3> QED  BY <2>1, <2>2, <3>1
  <2>4. ASSUME NEW c \in Threads, LoadCreates(c) PROVE news' \in [Threads -> SUBSET Parts]
    BY <2>1, <2>4 DEF LoadCreates
  <2>5. ASSUME NEW c \in Threads, NEW own \in SUBSET Parts, news' = NewsAfter(c, own)
        PROVE  news' \in [Threads -> SUBSET Parts]
    <3> DEFINE more == Changed(file.has, file'.has)
    <3>1. more \in SUBSET Parts  BY <2>2
    <3>2. news' = [d \in Threads |-> IF d = c THEN own
                     ELSE IF job[d].at \in {"create", "scan", "open", "write"}
                     THEN news[d] \cup more ELSE {}]
      BY <2>5 DEF NewsAfter
    <3> HIDE DEF more
    <3> QED  BY <2>1, <3>1, <3>2
  <2>6. ASSUME NEW c \in Threads, Create(c) \/ Write(c) PROVE news' \in [Threads -> SUBSET Parts]
    <3>1. news' = NewsAfter(c, Changed(Default, file'.has)) \/ news' = NewsAfter(c, {})
      BY <2>6 DEF Create, Write
    <3> QED  BY <2>2, <2>5, <3>1
  <2>7. Crash => news' \in [Threads -> SUBSET Parts]  BY DEF Crash
  <2> QED  BY <2>1, <2>3, <2>4, <2>6, <2>7, Changes
<1> QED  BY <1>3, <1>4, <1>5, <1>6, <1>7

LEMMA TypeInit == Init => TypeInv
<1> SUFFICES ASSUME Init PROVE TypeInv  OBVIOUS
<1>1. Default \in Settings /\ Earlier \subseteq Settings  BY DefaultIs, Scope
<1>2. file \in FileStates  BY <1>1 DEF Init, FileStates
<1>3. /\ gen \in Nat /\ version \in {"none", "old", "new"} /\ layout \in {"none", "old", "new"}
      /\ cache \in Caches
  BY DEF Init, StoresInit, Nothing, Caches
<1>4. /\ job = [c \in Threads |-> IF c = "boot" THEN Booting ELSE Idle]
      \/ job = [c \in Threads |-> IF c = "boot" THEN Done ELSE Idle]
  BY DEF Init
<1>5. job \in [Threads -> Jobs]  BY <1>4, IdleIs
<1>6. JobsShaped  BY <1>4, IdleIs DEF JobsShaped
<1>7. daemon \in [on : BOOLEAN, watched : SUBSET Folders, gen : Nat]
  <2>1. daemon = Off \/ daemon = [on |-> TRUE, watched |-> Present(file.has), gen |-> 0]  BY DEF Init
  <2>2. Present(file.has) \in SUBSET Folders  BY DEF Present
  <2>3. Off \in [on : BOOLEAN, watched : SUBSET Folders, gen : Nat]  BY DEF Off
  <2> DEFINE W == Present(file.has)
  <2>4. W \in SUBSET Folders  BY <2>2
  <2> HIDE DEF W
  <2>5. [on |-> TRUE, watched |-> W, gen |-> 0] \in [on : BOOLEAN, watched : SUBSET Folders, gen : Nat]
    BY <2>4
  <2> QED  BY <2>1, <2>3, <2>5 DEF W
<1>8. /\ walks = {} /\ sweeps = {} /\ names = {} /\ scenario \in Scenarios
      /\ news \in [Threads -> SUBSET Parts]
      /\ crossed = FALSE /\ dropped = {} /\ offered = FALSE /\ crashes = 0
  BY DEF Init
<1> QED  BY <1>2, <1>3, <1>5, <1>6, <1>7, <1>8 DEF TypeInv, TypeOK

LEMMA TypeStep == TypeInv /\ [Next]_vars => TypeInv'
<1> SUFFICES ASSUME TypeInv, [Next]_vars PROVE TypeInv'  OBVIOUS
<1>1. file' \in FileStates  BY FileType
<1>2. job' \in [Threads -> Jobs] /\ JobsShaped'  BY JobsType
<1> QED  BY <1>1, <1>2, StoresType, DaemonType, GhostsType DEF TypeInv, TypeOK

\* However many calls run beside each other, every variable has its type: what a handler
\* saves is a settings object, and what it is asked for is known where it is used.
THEOREM TypeCorrect == Spec => []TypeOK
<1>1. Spec => []TypeInv  BY TypeInit, TypeStep, PTL DEF Spec
<1>2. TypeInv => TypeOK  BY DEF TypeInv
<1> QED  BY <1>1, <1>2, PTL

(***************************************************************************)
(* Versions and sizes                                                      *)
(***************************************************************************)
\* How a thread comes to, and leaves, the places where it holds something of the directory.
InReset(j) == j.op = "reset" /\ j.at \in {"clear", "start", "forget"}

Hop(d) ==
  LET n == job'[d]
      j == job[d] IN
  /\ n.gen \in {0, j.gen, gen}
  /\ n.at = "mark" => (j.at = "mark" /\ n.gen = j.gen) \/ RebuildStore(d)
  /\ n.at = "store" => (j.at = "store" /\ n.gen = j.gen /\ (j.late => n.late)) \/ n.gen = gen
  /\ n.at = "wipe" => j.at = "wipe" \/ Stop(d)
  /\ j.at = "stop" => n.at = "stop" \/ Stop(d) \/ Crash
  /\ InReset(j) => InReset(n) \/ Reset(d) \/ Crash

\* A thread that does not move, or moves to where none of this matters.
LEMMA HopSame ==
  ASSUME TypeInv, NEW d \in Threads, job'[d] = job[d] PROVE Hop(d)
BY DEF Hop

LEMMA HopPlain ==
  ASSUME NEW d \in Threads, job'[d].gen \in {0, job[d].gen, gen},
         job'[d].at \notin {"mark", "store", "wipe"}, job[d].at # "stop", ~InReset(job[d])
  PROVE  Hop(d)
BY DEF Hop

LEMMA FreshHops ==
  ASSUME NEW d \in Threads, Fresh(job'[d], job[d]), job[d].at # "stop", ~InReset(job[d])
  PROVE  Hop(d)
<1>1. job'[d].gen \in {0, job[d].gen} /\ job'[d].at \in {"load", "start", "done"}  BY DEF Fresh
<1> QED  BY <1>1, HopPlain

LEMMA StepHops ==
  ASSUME TypeInv, NEW c \in Threads, Step(c), NEW d \in Threads PROVE Hop(d)
<1>1. ASSUME Moves(c), Hop(c) PROVE Hop(d)
  <2>1. CASE d = c  BY <1>1, <2>1
  <2>2. CASE d # c  BY <1>1, <2>2, HopSame DEF Moves
  <2> QED  BY <2>1, <2>2
<1>2. job[c] \in Jobs /\ Shaped(job[c])  BY ThreadIs
<1>3. ASSUME job[c].at \notin {"clear", "start", "forget"} PROVE ~InReset(job[c])
  BY <1>3 DEF InReset
<1>4. ASSUME job'[c] = Done, job[c].at \notin {"stop", "clear", "start", "forget"} PROVE Hop(c)
  <2>1. Fresh(job'[c], job[c])  BY <1>2, <1>4, BootIs
  <2> QED  BY <1>3, <1>4, <2>1, FreshHops
<1>5. CASE Load(c)
  <2>1. PICK s \in Settings, j \in Jobs :
          /\ Moves(c) /\ job'[c] = Decide(j, s) /\ Shaped(j) /\ j.at = "load" /\ j.gen = job[c].gen
          /\ job[c].at = "load"
    BY <1>5, LoadIs
  <2>2. /\ job'[c].gen \in {0, job[c].gen}
        /\ job'[c].at \in {"open", "scan", "walk", "load", "start", "done"}
    BY ZenonT(60), <2>1, DecideIs DEF Fresh
  <2> QED  BY <1>1, <1>3, <2>1, <2>2, HopPlain
<1>6. CASE LoadFails(c)
  <2>1. job[c].at \in {"load", "reload"}  BY <1>6 DEF LoadFails
  <2> QED  BY <1>1, <1>3, <1>6, <2>1, LoadFailsIs, FreshHops
<1>7. CASE LoadCreates(c) \/ Open(c)
  <2>1. PICK place \in {"create", "write"} : Opens(c, place)  BY <1>7 DEF LoadCreates, Open
  <2>2. job[c].at \in {"load", "open"}  BY <1>7 DEF LoadCreates, Open
  <2>3. /\ job'[d].gen = job[d].gen /\ job'[d].late = job[d].late /\ job'[d].op = job[d].op
        /\ job'[d].at = IF d = c THEN place ELSE job[d].at
    BY <2>1, OpensIs
  <2>4. CASE d = c  BY <1>3, <2>2, <2>3, <2>4, HopPlain
  <2>5. CASE d # c  BY <2>3, <2>5 DEF Hop, InReset
  <2> QED  BY <2>4, <2>5
<1>8. CASE Create(c)
  <2>1. /\ Moves(c) /\ job'[c] = Decide(job[c], Default) /\ job[c].at = "create" /\ Default \in Settings
    BY <1>8, CreateIs, DefaultIs
  <2>2. /\ job'[c].gen \in {0, job[c].gen}
        /\ job'[c].at \in {"open", "scan", "walk", "load", "start", "done"}
    BY ZenonT(60), <1>2, <2>1, DecideIs DEF Fresh
  <2> QED  BY <1>1, <1>3, <2>1, <2>2, HopPlain
<1>9. CASE Scan(c)
  <2>1. Moves(c) /\ job[c].at = "scan"  BY <1>9, ScanIs
  <2>2. Fresh(job'[c], job[c]) \/ (job'[c].at = "open" /\ job'[c].gen = job[c].gen)  BY <1>9, ScanIs
  <2> QED  BY <1>1, <1>3, <2>1, <2>2, FreshHops, HopPlain
<1>10. CASE Write(c)
  <2>1. Moves(c) /\ job'[c] = Saved(job[c]) /\ job[c].at = "write"  BY <1>10, WriteIs
  <2>2. /\ job'[c].gen \in {0, job[c].gen} /\ job'[c].at \in {"stop", "load", "start", "done"}
    BY <1>2, <2>1, SavedIs DEF Fresh
  <2> QED  BY <1>1, <1>3, <2>1, <2>2, HopPlain
<1>11. CASE Stop(c)
  <2>1. /\ Moves(c) /\ job[c].at = "stop" /\ job'[c].gen = job[c].gen
        /\ job'[c].at \in {"wipe", "start"}
    BY <1>11, StopIs
  <2>2. Hop(c)  BY <1>3, <1>11, <2>1 DEF Hop
  <2> QED  BY <1>1, <2>1, <2>2
<1>12. CASE Start(c) \/ StartAgain(c)
  <2>1. job[c].at = "start" /\ job' = [job EXCEPT ![c] = Running(@)]  BY <1>12 DEF Start, StartAgain
  <2>2. Moves(c)  BY <2>1, RunningIs
  <2>3. /\ job'[c].gen \in {0, job[c].gen}
        /\ job'[c].at \in {"forget", "purge", "load", "start", "done"}
        /\ job[c].op = "reset" => job'[c].at = "forget" /\ job'[c].op = "reset"
    BY <2>1, RunningIs DEF Fresh, Keeping
  <2>4. Hop(c)  BY <2>1, <2>3 DEF Hop, InReset
  <2> QED  BY <1>1, <2>2, <2>4
<1>13. CASE Rewalk(c)
  <2>1. Moves(c) /\ job[c].at = "walk" /\ job'[c].at \in {"walk", "reload"} /\ job'[c].gen = job[c].gen
    BY <1>13, RewalkIs
  <2> QED  BY <1>1, <1>3, <2>1, HopPlain
<1>14. CASE Reset(c)
  <2>1. CASE d = c
    <3>1. job'[c] = Done  BY <1>14, ResetIs
    <3>2. Done.gen = 0 /\ Done.at = "done"  BY DEF Done, Idle
    <3>3. job[c].at = "forget"  BY <1>14, ResetIs
    <3> QED  BY <1>14, <2>1, <3>1, <3>2, <3>3 DEF Hop
  <2>2. CASE d # c
    <3>1. job'[d].gen = job[d].gen /\ job'[d].at = job[d].at /\ job'[d].op = job[d].op
          /\ (job'[d].late <=> job[d].late \/ job[d].at = "store")
      BY <1>14, <2>2, ResetIs
    <3> QED  BY <3>1 DEF Hop, InReset
  <2> QED  BY <2>1, <2>2
<1>15. CASE Size(c)
  <2>1. Moves(c) /\ job[c].at = "size"  BY <1>15, SizeIs
  <2>2. CASE job'[c] = Done  BY <1>1, <1>4, <2>1, <2>2
  <2>3. CASE job'[c].at = "store" /\ job'[c].gen = gen
    <3>1. Hop(c)  BY <2>1, <2>3 DEF Hop, InReset
    <3> QED  BY <1>1, <2>1, <3>1
  <2> QED  BY <1>15, <2>2, <2>3, SizeIs
<1>16. CASE Launch(c)
  <2>1. Moves(c) /\ job[c].at = "launch"  BY <1>16, LaunchIs
  <2>2. CASE job'[c] = Done  BY <1>1, <1>4, <2>1, <2>2
  <2>3. CASE job'[c].at = "check" /\ job'[c].gen = job[c].gen  BY <1>1, <1>3, <2>1, <2>3, HopPlain
  <2> QED  BY <1>16, <2>2, <2>3, LaunchIs
<1>17. CASE Check(c)
  <2>1. Moves(c) /\ job[c].at = "check" /\ job'[c].at \in {"rebuild", "use"} /\ job'[c].gen = gen
    BY <1>17, CheckIs
  <2> QED  BY <1>1, <1>3, <2>1, HopPlain
<1>18. CASE Purge(c) \/ Reload(c) \/ KeepSize(c) \/ UseStore(c)
  <2>1. job[c].at \in {"purge", "reload", "store", "use"}  BY <1>18 DEF Purge, Reload, KeepSize, UseStore
  <2>2. Moves(c) /\ job'[c] = Done  BY <1>18, OtherMoves
  <2> QED  BY <1>1, <1>4, <2>1, <2>2
<1>19. CASE Wipe(c) \/ ClearSize(c)
  <2>1. job[c].at \in {"wipe", "clear"}  BY <1>19 DEF Wipe, ClearSize
  <2>2. Moves(c) /\ job'[c].at \in {"clear", "start"} /\ job'[c].gen = job[c].gen /\ Keeping(job'[c], job[c])
    BY <1>19, OtherMoves
  <2>3. Hop(c)  BY <2>1, <2>2 DEF Hop, InReset, Keeping
  <2> QED  BY <1>1, <2>2, <2>3
<1>20. CASE RebuildStore(c)
  <2>1. job[c].at = "rebuild"  BY <1>20 DEF RebuildStore
  <2>2. Moves(c) /\ job'[c].at = "mark" /\ job'[c].gen = job[c].gen  BY <1>20, OtherMoves
  <2>3. Hop(c)  BY <1>20, <2>1, <2>2 DEF Hop, InReset
  <2> QED  BY <1>1, <2>2, <2>3
<1>21. CASE Mark(c)
  <2>1. job[c].at = "mark"  BY <1>21 DEF Mark
  <2>2. Moves(c) /\ job'[c].at = "use" /\ job'[c].gen = job[c].gen  BY <1>21, OtherMoves
  <2> QED  BY <1>1, <1>3, <2>1, <2>2, HopPlain
<1> QED  BY <1>5, <1>6, <1>7, <1>8, <1>9, <1>10, <1>11, <1>12, <1>13, <1>14, <1>15, <1>16, <1>17,
            <1>18, <1>19, <1>20, <1>21 DEF Step

LEMMA Hops ==
  ASSUME TypeInv, [Next]_vars, NEW d \in Threads PROVE Hop(d)
<1>1. job' = job => Hop(d)  BY HopSame
<1>2. ASSUME NEW c \in Calls, Page(c) PROVE Hop(d)
  <2>1. c \in Threads /\ Moves(c) /\ Begun(job'[c]) /\ job[c] = Idle  BY <1>2, PageIs DEF Threads
  <2>2. CASE d = c
    <3>1. Idle.at = "idle"  BY DEF Idle
    <3>2. ~InReset(job[c]) /\ job[c].at # "stop"  BY <2>1, <3>1 DEF InReset
    <3>3. job'[c].gen = 0 /\ job'[c].at \notin {"mark", "store", "wipe"}  BY <2>1 DEF Begun
    <3> QED  BY <2>2, <3>2, <3>3, HopPlain
  <2>3. CASE d # c  BY <2>1, <2>3, HopSame DEF Moves
  <2> QED  BY <2>2, <2>3
<1>3. CASE Crash
  <2>1. job'[d].gen = 0 /\ job'[d].at \in {"load", "idle", "done"}  BY <1>3, CrashIs
  <2> QED  BY <1>3, <2>1 DEF Hop
<1>4. CASE \E w \in walks : Thread(w)  BY <1>1, <1>4 DEF Thread, Found, GiveUp, Condemn
<1>5. CASE \E w \in sweeps : Sweep(w)  BY <1>1, <1>5 DEF Sweep
<1>6. CASE Expire  BY <1>1, <1>6 DEF Expire
<1>7. CASE UNCHANGED vars  BY <1>1, <1>7 DEF vars
<1> QED  BY <1>2, <1>3, <1>4, <1>5, <1>6, <1>7, StepHops DEF Next

LEMMA LayoutInit == Init => LayoutInv
<1> SUFFICES ASSUME Init PROVE LayoutInv  OBVIOUS
<1>1. gen = 0 /\ layout = version  BY DEF Init, StoresInit
<1>2. \A c \in Threads : job[c] \in {Booting, Idle, Done}  BY DEF Init
<1>3. \A n \in {Booting, Idle, Done} : n.gen = 0 /\ n.at # "mark"
  <2>1. Booting.gen = 0 /\ Booting.at = "load"  BY DEF Booting, Idle
  <2>2. Idle.gen = 0 /\ Idle.at = "idle"  BY DEF Idle
  <2>3. Done.gen = 0 /\ Done.at = "done"  BY DEF Done, Idle
  <2> QED  BY <2>1, <2>2, <2>3
<1> QED  BY <1>1, <1>2, <1>3 DEF LayoutInv

LEMMA LayoutStep == TypeInv /\ LayoutInv /\ [Next]_vars => LayoutInv'
<1> SUFFICES ASSUME TypeInv, LayoutInv, [Next]_vars PROVE LayoutInv'  OBVIOUS
<1>1. gen \in Nat /\ gen' \in Nat /\ gen <= gen'  BY StoresType DEF TypeInv, TypeOK
<1>2. \A d \in Threads : job[d].gen \in Nat /\ job[d].gen <= gen  BY ThreadIs, JobIs DEF LayoutInv
<1>3. /\ layout # "old" => layout' # "old"
      /\ version' # "old" => layout' # "old"
  <2> DEFINE Told == (layout # "old" => layout' # "old") /\ (version' # "old" => layout' # "old")
  <2> SUFFICES Told  OBVIOUS
  <2>1. version # "old" => layout # "old"  BY DEF LayoutInv
  <2>2. UNCHANGED <<version, layout>> => Told  BY <2>1
  <2>3. ASSUME NEW c \in Threads, Wipe(c) PROVE Told  BY <2>3 DEF Wipe, Wiped
  <2>4. ASSUME NEW c \in Threads, Check(c) PROVE Told
    <3>1. /\ version' = (IF version = "none" THEN "new" ELSE version) /\ layout' = layout
      BY <2>4 DEF Check, Checked
    <3> QED  BY <2>1, <3>1
  <2>5. ASSUME NEW c \in Threads, RebuildStore(c) PROVE Told
    BY <2>1, <2>5 DEF RebuildStore, Rebuild
  <2>6. ASSUME NEW c \in Threads, Mark(c) PROVE Told
    <3>1. job[c].gen = gen => layout # "old"  BY <2>6 DEF Mark, LayoutInv
    <3> QED  BY <2>1, <2>6, <3>1 DEF Mark, Recorded
  <2>7. ASSUME NEW c \in Threads, UseStore(c) PROVE Told
    BY <2>1, <2>7 DEF UseStore, Use, Created
  <2>8. ASSUME NEW c \in Threads, ClearSize(c) \/ Reset(c) \/ KeepSize(c) PROVE Told
    BY <2>2, <2>8 DEF ClearSize, Reset, Finally, ForgetSize, KeepSize, Store
  <2>9. Expire \/ Crash => Told  BY <2>2 DEF Expire, ForgetSize, Crash
  <2>10. UNCHANGED stores => Told  BY <2>2 DEF stores
  <2> HIDE DEF Told
  <2> QED  BY <2>3, <2>4, <2>5, <2>6, <2>7, <2>8, <2>9, <2>10, Changes
<1>4. ASSUME NEW d \in Threads PROVE job'[d].gen <= gen'
  <2>1. job'[d].gen \in {0, job[d].gen, gen}  BY Hops DEF Hop
  <2> QED  BY <1>1, <1>2, <2>1
<1>5. ASSUME NEW d \in Threads, job'[d].at = "mark", job'[d].gen = gen' PROVE layout' # "old"
  <2>1. CASE RebuildStore(d)
    <3>1. job'[d].gen = job[d].gen  BY <2>1, OtherMoves
    <3> QED  BY <1>5, <2>1, <3>1 DEF RebuildStore, Rebuild
  <2>2. CASE job[d].at = "mark" /\ job'[d].gen = job[d].gen
    <3>1. job[d].gen = gen  BY <1>1, <1>2, <1>5, <2>2
    <3> QED  BY <1>3, <2>2, <3>1 DEF LayoutInv
  <2> QED  BY <1>5, <2>1, <2>2, Hops DEF Hop
<1> QED  BY <1>3, <1>4, <1>5 DEF LayoutInv

\* Wherever the launcher dies in an update of the history, or a reset deletes it, and
\* whoever opens it meanwhile: a version that says the layout is new is true.
THEOREM VersionIsTrue == Spec => []VersionTellsLayout
<1>1. Spec => [](TypeInv /\ LayoutInv)
  BY TypeInit, TypeStep, LayoutInit, LayoutStep, PTL DEF Spec
<1>2. LayoutInv => VersionTellsLayout  BY DEF LayoutInv, VersionTellsLayout
<1> QED  BY <1>1, <1>2, PTL

LEMMA SizeInit == Init => SizeInv
<1> SUFFICES ASSUME Init PROVE SizeInv  OBVIOUS
<1>1. cache = Nothing  BY DEF Init, StoresInit
<1>2. \A c \in Threads : job[c] \in {Booting, Idle, Done}  BY DEF Init
<1>3. \A n \in {Booting, Idle, Done} : n.at # "store"
  <2>1. Booting.at = "load"  BY DEF Booting, Idle
  <2>2. Idle.at = "idle"  BY DEF Idle
  <2>3. Done.at = "done"  BY DEF Done, Idle
  <2> QED  BY <2>1, <2>2, <2>3
<1> QED  BY <1>1, <1>2, <1>3 DEF SizeInv, Nothing

LEMMA SizeStep == TypeInv /\ SizeInv /\ [Next]_vars => SizeInv'
<1> SUFFICES ASSUME TypeInv, SizeInv, [Next]_vars PROVE SizeInv'  OBVIOUS
<1>1. CASE Crash
  <2>1. \A d \in Threads : job'[d].at \in {"load", "idle", "done"}  BY <1>1, CrashIs
  <2>2. cache' = Nothing  BY <1>1 DEF Crash
  <2> QED  BY <2>1, <2>2 DEF SizeInv, Nothing
<1>2. ASSUME NEW c \in Threads, Reset(c) PROVE SizeInv'
  <2>1. cache'.on = FALSE  BY <1>2, ResetIs DEF ForgetSize, Nothing
  <2>2. \A d \in Threads : job'[d].at = "store" => job'[d].late
    <3> TAKE d \in Threads
    <3>1. CASE d = c
      <4>1. job'[d] = Done /\ Done.at = "done"  BY <1>2, <3>1, ResetIs DEF Done, Idle
      <4> QED  BY <4>1
    <3>2. CASE d # c
      <4>1. job'[d].at = job[d].at /\ (job'[d].late <=> job[d].late \/ job[d].at = "store")
        BY <1>2, <3>2, ResetIs
      <4> QED  BY <4>1
    <3> QED  BY <3>1, <3>2
  <2> QED  BY <2>1, <2>2 DEF SizeInv
<1>3. ASSUME NEW c \in Threads, Wipe(c) PROVE SizeInv'
  <2>1. job[c].op = "reset"  BY <1>3, ThreadIs DEF Wipe, Shaped
  <2>2. job'[c].op = "reset" /\ job'[c].at = "clear"  BY <1>3, <2>1, OtherMoves DEF Keeping
  <2>3. Resetting'  BY <2>2 DEF Resetting
  <2> QED  BY <2>3 DEF SizeInv
<1>4. ASSUME ~Crash, \A c \in Threads : ~Reset(c) /\ ~Wipe(c) PROVE SizeInv'
  <2>1. gen' = gen
    <3>1. \A c \in Threads : ClearSize(c) \/ KeepSize(c) \/ Check(c) \/ RebuildStore(c) \/ Mark(c) \/ UseStore(c)
             => gen' = gen
      BY DEF ClearSize, KeepSize, Check, RebuildStore, Mark, UseStore, ForgetSize, Store, Checked,
             Rebuild, Recorded, Use
    <3>2. Expire => gen' = gen  BY DEF Expire, ForgetSize
    <3>3. UNCHANGED stores => gen' = gen  BY DEF stores
    <3> QED  BY <1>4, <3>1, <3>2, <3>3, Changes
  <2>2. Resetting => Resetting'
    <3>1. ASSUME NEW c \in Threads, InReset(job[c]) PROVE Resetting'
      <4>1. InReset(job'[c])  BY <1>4, <3>1, Hops DEF Hop
      <4> QED  BY <4>1 DEF InReset, Resetting
    <3> QED  BY <3>1 DEF InReset, Resetting
  <2>3. ASSUME NEW d \in Threads, job'[d].at = "store", job'[d].gen # gen' PROVE job'[d].late \/ Resetting'
    <3>1. job[d].at = "store" /\ job'[d].gen = job[d].gen /\ (job[d].late => job'[d].late)
      BY <2>1, <2>3, Hops DEF Hop
    <3>2. job[d].late \/ Resetting  BY <2>1, <2>3, <3>1 DEF SizeInv
    <3> QED  BY <2>2, <3>1, <3>2
  <2>4. cache'.on /\ cache'.gen # gen' => cache'.late \/ Resetting'
    <3>1. CASE cache' = cache  BY <2>1, <2>2, <3>1 DEF SizeInv
    <3>2. CASE cache' = Nothing  BY <3>2 DEF Nothing
    <3>3. ASSUME NEW c \in Threads, KeepSize(c) PROVE cache'.on /\ cache'.gen # gen' => cache'.late \/ Resetting'
      <4>1. job[c].at = "store" /\ cache' = [on |-> TRUE, gen |-> job[c].gen, late |-> job[c].late]
        BY <3>3 DEF KeepSize, Store
      <4>2. cache'.gen = job[c].gen /\ cache'.late = job[c].late  BY <4>1
      <4>3. job[c].gen # gen => job[c].late \/ Resetting  BY <4>1 DEF SizeInv
      <4> QED  BY <2>1, <2>2, <4>2, <4>3
    <3>4. \A c \in Threads : ClearSize(c) \/ Check(c) \/ RebuildStore(c) \/ Mark(c) \/ UseStore(c)
             => cache' = cache \/ cache' = Nothing
      BY DEF ClearSize, Check, RebuildStore, Mark, UseStore, ForgetSize, Checked, Rebuild, Recorded, Use
    <3>5. Expire => cache' = Nothing  BY DEF Expire, ForgetSize
    <3>6. UNCHANGED stores => cache' = cache  BY DEF stores
    <3> QED  BY <1>4, <3>1, <3>2, <3>3, <3>4, <3>5, <3>6, Changes
  <2> QED  BY <2>3, <2>4 DEF SizeInv
<1> QED  BY <1>1, <1>2, <1>3, <1>4

\* However long the size of the directory is measured, and however many resets run: what
\* a reset deleted is not shown as used after it, unless it was still being measured then.
THEOREM UsageIsFresh == Spec => []UsageFresh
<1>1. Spec => [](TypeInv /\ SizeInv)
  BY TypeInit, TypeStep, SizeInit, SizeStep, PTL DEF Spec
<1>2. SizeInv => UsageFresh  BY DEF SizeInv, Resetting, UsageFresh
<1> QED  BY <1>1, <1>2, PTL

(***************************************************************************)
(* What is saved                                                           *)
(***************************************************************************)
LEMMA DefaultSound == Sound(Default)
<1>1. Default.roots = {} /\ \A x \in AllRoles : Default.role[x] = Unset  BY DefaultIs
<1>2. Unset \notin Range(Ports)  BY Shown DEF Unset
<1> QED  BY <1>1, <1>2 DEF Sound, Apart, Usable

\* The one test of add_root keeps a folder apart from all the others, on either side.
LEMMA AddSound ==
  ASSUME NEW s \in Settings, NEW t \in Settings, Sound(s), NEW r \in Roots, Addable(s, r),
         t.roots = s.roots \cup {r}, t.role = s.role
  PROVE  Sound(t)
<1>1. \A q \in s.roots : ~Overlap(r, q) /\ ~Overlap(q, r)  BY DEF Addable, Overlap
<1>2. Apart(t)
  <2> SUFFICES ASSUME NEW p \in t.roots, NEW q \in t.roots, p # q PROVE ~Overlap(p, q)  BY DEF Apart
  <2>1. CASE p \in s.roots /\ q \in s.roots  BY <2>1 DEF Sound, Apart
  <2>2. CASE p = r \/ q = r  BY <1>1, <2>2
  <2> QED  BY <2>1, <2>2
<1> QED  BY <1>2 DEF Sound, Usable

LEMMA FewerSound ==
  ASSUME NEW s, NEW t, Sound(s), t.roots \subseteq s.roots,
         \A x \in AllRoles : t.role[x] \in {s.role[x], "user"}
  PROVE  Sound(t)
<1>1. Apart(t)  BY DEF Sound, Apart
<1>2. "user" \notin Range(Ports)  BY Shown
<1>3. Usable(t)
  <2> SUFFICES ASSUME NEW x \in AllRoles, t.role[x] \in Range(Ports) PROVE Serves(t.role[x], x)
    BY DEF Usable
  <2>1. t.role[x] = s.role[x]  BY <1>2
  <2> QED  BY <2>1 DEF Sound, Usable
<1> QED  BY <1>1, <1>3 DEF Sound

LEMMA DecideSound ==
  ASSUME NEW j \in Jobs, NEW s \in Settings, Shaped(j), j.at \in {"load", "create"},
         Sound(s), Sound(j.seen)
  PROVE  Sound(Decide(j, s).seen)
<1> DEFINE n == Decide(j, s)
<1>1. n \in Jobs  BY DecideIs
<1>2. n.seen \in Settings  BY <1>1, JobIs
<1> SUFFICES Sound(n.seen)  OBVIOUS
<1>3. CASE /\ j.op = "add" /\ Addable(s, j.root)
           /\ n.seen = [s EXCEPT !.roots = s.roots \cup {j.root}]
  <2>1. j.root \in Roots  BY <1>3 DEF Shaped
  <2>2. n.seen.roots = s.roots \cup {j.root} /\ n.seen.role = s.role  BY <1>3 DEF Settings
  <2> HIDE DEF n
  <2> QED  BY <1>2, <1>3, <2>1, <2>2, AddSound
<1>4. CASE n.seen = [s EXCEPT !.roots = s.roots \ {j.root}]
  <2>1. n.seen.roots \subseteq s.roots /\ n.seen.role = s.role  BY <1>4 DEF Settings
  <2> HIDE DEF n
  <2> QED  BY <2>1, FewerSound
<1>5. CASE j.op = "role" /\ n.seen = [s EXCEPT !.role[j.role] = "user"]
  <2>1. n.seen.roots = s.roots /\ \A x \in AllRoles : n.seen.role[x] \in {s.role[x], "user"}
    BY <1>5 DEF Settings
  <2> HIDE DEF n
  <2> QED  BY <2>1, FewerSound
<1>6. CASE n.seen = [s EXCEPT !.ext = "other"]
  <2>1. n.seen.roots = s.roots /\ n.seen.role = s.role  BY <1>6 DEF Settings
  <2> HIDE DEF n
  <2> QED  BY <2>1, FewerSound
<1>7. CASE n.seen \in {s, j.seen, Default}  BY <1>7, DefaultSound
<1> QED  BY <1>3, <1>4, <1>5, <1>6, <1>7, DecideIs DEF Fresh

LEMMA ConnectedSound ==
  ASSUME NEW s \in Settings, NEW force \in BOOLEAN, NEW on \in SUBSET Range(Ports), Sound(s)
  PROVE  Sound(Connected(s, force, on))
<1> DEFINE t == Connected(s, force, on)
<1>1. /\ t.roots = s.roots
      /\ \A x \in AllRoles : t.role[x] = s.role[x] \/ Serves(t.role[x], x)
  BY ConnectedIs
<1> HIDE DEF t
<1>2. Sound(t)  BY <1>1 DEF Sound, Apart, Usable
<1> QED  BY <1>2 DEF t

LEMMA SoundInit == Init => SoundInv
<1> SUFFICES ASSUME Init PROVE SoundInv  OBVIOUS
<1>1. file.has = Default \/ file.has \in Earlier
  <2>1. \/ file = [is |-> "absent", has |-> Default]
        \/ \E s \in Earlier : file = [is |-> "whole", has |-> s]
    BY DEF Init
  <2> QED  BY <2>1
<1>2. Sound(file.has)  BY <1>1, DefaultSound, Inherited DEF Sound
<1>3. \A c \in Threads : job[c] \in {Booting, Idle, Done}  BY DEF Init
<1>4. \A n \in {Booting, Idle, Done} : n.seen = Default
  <2>1. Booting.seen = Default  BY DEF Booting, Idle
  <2>2. Idle.seen = Default  BY DEF Idle
  <2>3. Done.seen = Default  BY DEF Done, Idle
  <2> QED  BY <2>1, <2>2, <2>3
<1> QED  BY <1>2, <1>3, <1>4, DefaultSound DEF SoundInv

LEMMA StepSound ==
  ASSUME TypeInv, SoundInv, NEW c \in Threads, Step(c)
  PROVE  \A d \in Threads : Sound(job'[d].seen)
<1> DEFINE Kept == \A d \in Threads : Sound(job'[d].seen)
<1> SUFFICES Kept  OBVIOUS
<1>1. Sound(file.has) /\ \A d \in Threads : Sound(job[d].seen)  BY DEF SoundInv
<1>2. ASSUME Moves(c), Sound(job'[c].seen) PROVE Kept
  <2> SUFFICES ASSUME NEW d \in Threads PROVE Sound(job'[d].seen)  OBVIOUS
  <2>1. CASE d = c  BY <1>2, <2>1
  <2>2. CASE d # c  BY <1>1, <1>2, <2>2 DEF Moves
  <2> QED  BY <2>1, <2>2
<1>3. Sound(Default)  BY DefaultSound
<1>4. Done.seen = Default  BY DEF Done, Idle
<1>5. job[c] \in Jobs /\ Shaped(job[c]) /\ job[c].seen \in Settings  BY ThreadIs, JobIs
<1>6. ASSUME Moves(c), job'[c].seen \in {Default, job[c].seen} PROVE Kept
  <2>1. Sound(job'[c].seen)  BY <1>1, <1>3, <1>6
  <2> HIDE DEF Kept
  <2> QED  BY <1>2, <1>6, <2>1
<1>7. CASE Load(c)
  <2>1. PICK s \in Settings, j \in Jobs :
          /\ s \in {Default, file.has} /\ Moves(c) /\ job'[c] = Decide(j, s) /\ Shaped(j)
          /\ j.at = "load" /\ j.seen = job[c].seen
    BY <1>7, LoadIs
  <2>2. Sound(job'[c].seen)  BY <1>1, <1>3, <2>1, DecideSound
  <2> HIDE DEF Kept
  <2> QED  BY <1>2, <2>1, <2>2
<1>8. CASE LoadFails(c)
  <2>1. Moves(c) /\ job'[c].seen = Default  BY <1>8, LoadFailsIs DEF Fresh
  <2> HIDE DEF Kept
  <2> QED  BY <1>6, <2>1
<1>9. CASE LoadCreates(c) \/ Open(c)
  <2>1. PICK place \in {"create", "write"} : Opens(c, place)  BY <1>9 DEF LoadCreates, Open
  <2>2. \A d \in Threads : job'[d].seen = job[d].seen  BY <2>1, OpensIs
  <2> QED  BY <1>1, <2>2
<1>10. CASE Create(c)
  <2>1. /\ Moves(c) /\ job'[c] = Decide(job[c], Default) /\ job[c].at = "create" /\ Default \in Settings
    BY <1>10, CreateIs, DefaultIs
  <2>2. Sound(job'[c].seen)  BY <1>1, <1>3, <1>5, <2>1, DecideSound
  <2> HIDE DEF Kept
  <2> QED  BY <1>2, <2>1, <2>2
<1>11. CASE Scan(c)
  <2>1. Moves(c)  BY <1>11, ScanIs
  <2>2. CASE Fresh(job'[c], job[c])
    <3>1. job'[c].seen = Default  BY <2>2 DEF Fresh
    <3> HIDE DEF Kept
    <3> QED  BY <1>6, <2>1, <3>1
  <2>3. CASE \E on \in SUBSET Range(Ports) :
               job'[c].seen = Connected(job[c].seen, job[c].op = "reconnect", on)
    <3>1. PICK on \in SUBSET Range(Ports) :
            job'[c].seen = Connected(job[c].seen, job[c].op = "reconnect", on)
      BY <2>3
    <3> DEFINE force == job[c].op = "reconnect"
    <3>2. force \in BOOLEAN  OBVIOUS
    <3>3. Sound(Connected(job[c].seen, force, on))
      <4> HIDE DEF force
      <4> QED  BY <1>1, <1>5, <3>2, ConnectedSound
    <3>4. Sound(job'[c].seen)  BY <3>1, <3>3
    <3> HIDE DEF Kept
    <3> QED  BY <1>2, <2>1, <3>4
  <2> QED  BY <1>11, <2>2, <2>3, ScanIs
<1>12. CASE Write(c)
  <2>1. Moves(c) /\ job'[c] = Saved(job[c])  BY <1>12, WriteIs
  <2>2. job'[c].seen = Default  BY <1>5, <2>1, SavedIs
  <2> HIDE DEF Kept
  <2> QED  BY <1>6, <2>1, <2>2
<1>13. CASE Stop(c)
  <2>1. Moves(c) /\ job'[c].seen = job[c].seen  BY <1>13, StopIs DEF Keeping
  <2> HIDE DEF Kept
  <2> QED  BY <1>6, <2>1
<1>14. CASE Start(c) \/ StartAgain(c)
  <2>1. job[c].at = "start" /\ job' = [job EXCEPT ![c] = Running(@)]  BY <1>14 DEF Start, StartAgain
  <2>2. Moves(c)  BY <2>1, RunningIs
  <2>3. job'[c].seen \in {Default, job[c].seen}  BY <2>1, RunningIs DEF Keeping, Fresh
  <2> HIDE DEF Kept
  <2> QED  BY <1>6, <2>2, <2>3
<1>15. CASE Rewalk(c)
  <2>1. Moves(c) /\ job'[c].seen = job[c].seen  BY <1>15, RewalkIs DEF Keeping
  <2> HIDE DEF Kept
  <2> QED  BY <1>6, <2>1
<1>16. CASE Reset(c)
  <2> SUFFICES ASSUME NEW d \in Threads PROVE Sound(job'[d].seen)  OBVIOUS
  <2>1. CASE d = c  BY <1>3, <1>4, <1>16, <2>1, ResetIs
  <2>2. CASE d # c
    <3>1. job'[d].seen = job[d].seen  BY <1>16, <2>2, ResetIs
    <3> QED  BY <1>1, <3>1
  <2> QED  BY <2>1, <2>2
<1>17. CASE Size(c) \/ Launch(c) \/ Check(c)
  <2>1. Moves(c)  BY <1>17, SizeIs, LaunchIs, CheckIs
  <2>2. job'[c] = Done \/ Keeping(job'[c], job[c])  BY <1>17, SizeIs, LaunchIs, CheckIs
  <2>3. job'[c].seen \in {Default, job[c].seen}  BY <1>4, <2>2 DEF Keeping
  <2> HIDE DEF Kept
  <2> QED  BY <1>6, <2>1, <2>3
<1>18. CASE Purge(c) \/ Reload(c) \/ Wipe(c) \/ ClearSize(c) \/ KeepSize(c) \/ RebuildStore(c)
            \/ Mark(c) \/ UseStore(c)
  <2>1. Moves(c) /\ (job'[c] = Done \/ Keeping(job'[c], job[c]))  BY <1>18, OtherMoves
  <2>2. job'[c].seen \in {Default, job[c].seen}  BY <1>4, <2>1 DEF Keeping
  <2> HIDE DEF Kept
  <2> QED  BY <1>6, <2>1, <2>2
<1> HIDE DEF Kept
<1> QED  BY <1>7, <1>8, <1>9, <1>10, <1>11, <1>12, <1>13, <1>14, <1>15, <1>16, <1>17, <1>18 DEF Step

LEMMA SoundStep == TypeInv /\ SoundInv /\ [Next]_vars => SoundInv'
<1> SUFFICES ASSUME TypeInv, SoundInv, [Next]_vars PROVE SoundInv'  OBVIOUS
<1>1. Sound(file.has) /\ \A d \in Threads : Sound(job[d].seen)  BY DEF SoundInv
<1>2. file \in FileStates  BY DEF TypeInv, TypeOK
<1>3. Sound(file'.has)
  <2>1. ASSUME NEW c \in Threads, LoadCreates(c) \/ Open(c) \/ Start(c) PROVE file'.has = file.has
    BY <1>2, <2>1 DEF LoadCreates, Open, Opens, Truncate, Start, FileStates
  <2>2. ASSUME NEW s, Dump(s) PROVE file'.has \in {s, file.has}
    BY <1>2, <2>2 DEF Dump, FileStates
  <2>3. ASSUME NEW c \in Threads, Create(c) PROVE Sound(file'.has)
    BY <1>1, <2>2, <2>3, DefaultSound DEF Create
  <2>4. ASSUME NEW c \in Threads, Write(c) PROVE Sound(file'.has)
    BY <1>1, <2>2, <2>4 DEF Write
  <2>5. CASE file' = file  BY <1>1, <2>5
  <2> QED  BY <1>1, <2>1, <2>3, <2>4, <2>5, Changes
<1>4. ASSUME NEW d \in Threads PROVE Sound(job'[d].seen)
  <2>1. job' = job => Sound(job'[d].seen)  BY <1>1
  <2>2. ASSUME NEW c \in Calls, Page(c) PROVE Sound(job'[d].seen)
    <3>1. Moves(c) /\ job'[c].seen = Default /\ c \in Threads  BY <2>2, PageIs DEF Begun, Threads
    <3>2. CASE d = c  BY <3>1, <3>2, DefaultSound
    <3>3. CASE d # c  BY <1>1, <3>1, <3>3 DEF Moves
    <3> QED  BY <3>2, <3>3
  <2>3. CASE Crash  BY <2>3, CrashIs, DefaultSound
  <2>4. CASE \E w \in walks : Thread(w)  BY <2>1, <2>4 DEF Thread, Found, GiveUp, Condemn
  <2>5. CASE \E w \in sweeps : Sweep(w)  BY <2>1, <2>5 DEF Sweep
  <2>6. CASE Expire  BY <2>1, <2>6 DEF Expire
  <2>7. CASE UNCHANGED vars  BY <2>1, <2>7 DEF vars
  <2>8. CASE \E c \in Threads : Step(c)  BY <2>8, StepSound
  <2> QED  BY <2>2, <2>3, <2>4, <2>5, <2>6, <2>7, <2>8 DEF Next
<1> QED  BY <1>3, <1>4 DEF SoundInv

\* No lost update, first launch or whole-object save from the page registers a folder
\* inside of, or around, one that is registered.
THEOREM RootsStayApart == Spec => []RootsDisjoint
<1>1. Spec => [](TypeInv /\ SoundInv)
  BY TypeInit, TypeStep, SoundInit, SoundStep, PTL DEF Spec
<1>2. SoundInv => RootsDisjoint  BY DEF SoundInv, Sound, RootsDisjoint
<1> QED  BY <1>1, <1>2, PTL

\* Whichever servers show whatever face: the one a role was connected to by the program
\* lists a model for it and can be used without a key.
THEOREM ConnectedIsUsable == Spec => []AutoConnectedUsable
<1>1. Spec => [](TypeInv /\ SoundInv)
  BY TypeInit, TypeStep, SoundInit, SoundStep, PTL DEF Spec
<1>2. SoundInv => AutoConnectedUsable  BY DEF SoundInv, Sound, AutoConnectedUsable
<1> QED  BY <1>1, <1>2, PTL

(***************************************************************************)
(* What a save keeps                                                       *)
(***************************************************************************)
LEMMA RestFaithful ==
  ASSUME NEW d \in Threads, ~Holding(job'[d]) PROVE Faithful(job[d])'
BY DEF Faithful, Holding, Filling

LEMMA SameFaithful ==
  ASSUME NEW d \in Threads, job'[d] = job[d], file' = file, ~job[d].met => Faithful(job[d])
  PROVE  ~job'[d].met => Faithful(job[d])'
BY DEF Faithful, Filling, Keeps

\* What Decide makes of the settings s differs from s in what was asked for only.
LEMMA DecideKeeps ==
  ASSUME NEW j \in Jobs, NEW s \in Settings, Shaped(j), j.at \in {"load", "create"},
         NEW n, n = Decide(j, s), Holding(n)
  PROVE  /\ n.met = j.met /\ ~Filling(n)
         /\ n.at = "scan" => n.seen = s
         /\ n.at = "open" => /\ Keeps(n, {}, s, n.seen)
                             /\ n.op = "remove" /\ ~n.late => n.root \notin s.roots
<1>1. n.at \in {"scan", "open", "create", "write"}  BY DEF Holding
<1>2. \/ /\ n.at = "open" /\ n.op = j.op /\ n.root = j.root /\ n.role = j.role /\ n.met = j.met
         /\ \/ /\ j.op = "add" /\ n.seen = [s EXCEPT !.roots = s.roots \cup {j.root}]
            \/ /\ j.op = "remove" /\ n.late = (j.root \in s.roots)
               /\ n.seen = [s EXCEPT !.roots = s.roots \ {j.root}]
            \/ j.op = "role" /\ n.seen = [s EXCEPT !.role[j.role] = "user"]
            \/ j.op = "ext" /\ n.seen = [s EXCEPT !.ext = "other"]
      \/ n.at = "scan" /\ n.seen = s /\ n.met = j.met
  BY ZenonT(60), <1>1, DecideIs DEF Fresh
<1>3. CASE n.at = "scan"  BY <1>2, <1>3 DEF Filling
<1>4. CASE n.at = "open"
  <2>1. Keeps(n, {}, s, n.seen)
    <3>1. CASE j.op = "add" /\ n.seen = [s EXCEPT !.roots = s.roots \cup {j.root}]
      <4>1. n.seen.roots = s.roots \cup {j.root} /\ n.seen.ext = s.ext /\ n.seen.role = s.role
        BY <3>1 DEF Settings
      <4> QED  BY <1>2, <1>4, <3>1, <4>1 DEF Keeps
    <3>2. CASE j.op = "remove" /\ n.seen = [s EXCEPT !.roots = s.roots \ {j.root}]
      <4>1. n.seen.roots = s.roots \ {j.root} /\ n.seen.ext = s.ext /\ n.seen.role = s.role
        BY <3>2 DEF Settings
      <4> QED  BY <1>2, <1>4, <3>2, <4>1 DEF Keeps
    <3>3. CASE j.op = "role" /\ n.seen = [s EXCEPT !.role[j.role] = "user"]
      <4>1. /\ n.seen.roots = s.roots /\ n.seen.ext = s.ext
            /\ \A x \in AllRoles : x # j.role => n.seen.role[x] = s.role[x]
        BY <3>3 DEF Settings
      <4> QED  BY <1>2, <1>4, <3>3, <4>1 DEF Keeps
    <3>4. CASE j.op = "ext" /\ n.seen = [s EXCEPT !.ext = "other"]
      <4>1. n.seen.roots = s.roots /\ n.seen.role = s.role  BY <3>4 DEF Settings
      <4> QED  BY <1>2, <1>4, <3>4, <4>1 DEF Keeps
    <3> QED  BY <1>2, <1>4, <3>1, <3>2, <3>3, <3>4
  <2>2. n.op = "remove" /\ ~n.late => n.root \notin s.roots
    <3>1. CASE n.op = "remove"
      <4>1. n.late = (j.root \in s.roots) /\ n.root = j.root  BY <1>2, <1>4, <3>1
      <4> QED  BY <4>1, Zenon
    <3> QED  BY <3>1
  <2> QED  BY <1>2, <1>4, <2>1, <2>2 DEF Filling
<1> QED  BY <1>1, <1>2, <1>3, <1>4

\* A step that leaves the file alone, of a thread that then holds nothing.
LEMMA QuietSave ==
  ASSUME TypeInv, SaveInv, NEW c \in Threads, Moves(c), ~Holding(job'[c]), file' = file
  PROVE  SaveInv'
<1>1. \A d \in Threads \ {c} : job'[d] = job[d]  BY DEF Moves
<1>2. ASSUME NEW d \in Threads, ~job'[d].met PROVE Faithful(job[d])'
  <2>1. CASE d = c  BY <2>1, RestFaithful
  <2>2. CASE d # c  BY <1>1, <1>2, <2>2, SameFaithful DEF SaveInv
  <2> QED  BY <2>1, <2>2
<1>3. ASSUME NEW d \in Threads, NEW e \in Threads, d # e, Holding(job'[d]), Filling(job'[e])
      PROVE  job'[d].met
  <2>1. Holding(job'[e])  BY <1>3 DEF Holding, Filling
  <2>2. d # c /\ e # c  BY <1>3, <2>1
  <2> QED  BY <1>1, <1>3, <2>2 DEF SaveInv
<1>4. file'.is = "absent" => file'.has = Default  BY DEF SaveInv
<1> QED  BY <1>2, <1>3, <1>4, Zenon DEF SaveInv

\* A step that fills the file: all the others that hold settings have met it.
LEMMA FillSave ==
  ASSUME TypeInv, SaveInv, NEW c \in Threads, Moves(c), Filling(job[c]), NEW s, Dump(s),
         ~Filling(job'[c]),
         Holding(job'[c]) => job'[c].met = job[c].met /\ Holding(job[c]),
         ~job'[c].met => Faithful(job[c])'
  PROVE  SaveInv'
<1>1. \A d \in Threads \ {c} : job'[d] = job[d]  BY DEF Moves
<1>2. ASSUME NEW d \in Threads, ~job'[d].met PROVE Faithful(job[d])'
  <2>1. CASE d = c  BY <1>2, <2>1
  <2>2. CASE d # c
    <3>1. ~Holding(job'[d])  BY <1>1, <1>2, <2>2 DEF SaveInv
    <3> QED  BY <3>1, RestFaithful
  <2> QED  BY <2>1, <2>2
<1>3. ASSUME NEW d \in Threads, NEW e \in Threads, d # e, Holding(job'[d]), Filling(job'[e])
      PROVE  job'[d].met
  <2>1. e # c /\ Filling(job[e])  BY <1>1, <1>3
  <2>2. CASE d = c
    <3>1. Holding(job[c]) /\ job'[c].met = job[c].met  BY <1>3, <2>2
    <3> QED  BY <1>3, <2>1, <2>2, <3>1 DEF SaveInv
  <2>3. CASE d # c  BY <1>1, <1>3, <2>1, <2>3 DEF SaveInv
  <2> QED  BY <2>2, <2>3
<1>4. file'.is = "absent" => file'.has = Default
  <2>1. file \in FileStates  BY ThreadIs
  <2>2. file'.is \in {"whole", "torn"}  BY <2>1 DEF Dump, FileStates
  <2> QED  BY <2>2
<1> QED  BY <1>2, <1>3, <1>4, Zenon DEF SaveInv

\* A step that leaves the file alone, of a thread that then holds settings.
LEMMA TakeSave ==
  ASSUME TypeInv, SaveInv, NEW c \in Threads, Moves(c), file' = file, ~Filling(job'[c]),
         Saving(c) => job'[c].met,
         ~job'[c].met => Faithful(job[c])'
  PROVE  SaveInv'
<1>1. \A d \in Threads \ {c} : job'[d] = job[d]  BY DEF Moves
<1>2. ASSUME NEW d \in Threads, ~job'[d].met PROVE Faithful(job[d])'
  <2>1. CASE d = c  BY <1>2, <2>1
  <2>2. CASE d # c  BY <1>1, <1>2, <2>2, SameFaithful DEF SaveInv
  <2> QED  BY <2>1, <2>2
<1>3. ASSUME NEW d \in Threads, NEW e \in Threads, d # e, Holding(job'[d]), Filling(job'[e])
      PROVE  job'[d].met
  <2>1. e # c /\ Filling(job[e])  BY <1>1, <1>3
  <2>2. CASE d = c
    <3>1. Saving(c)  BY <1>3, <2>1, <2>2 DEF Saving, Filling
    <3> QED  BY <2>2, <3>1
  <2>3. CASE d # c  BY <1>1, <1>3, <2>1, <2>3 DEF SaveInv
  <2> QED  BY <2>2, <2>3
<1>4. file'.is = "absent" => file'.has = Default  BY DEF SaveInv
<1> QED  BY <1>2, <1>3, <1>4, Zenon DEF SaveInv

LEMMA LoadSave == ASSUME TypeInv, SaveInv, NEW c \in Threads, Load(c) PROVE SaveInv'
<1>1. PICK s \in Settings, j \in Jobs :
        /\ s \in {Default, file.has} /\ Reads(s) /\ j.at = "load" /\ Shaped(j)
        /\ j.met = (file.is = "empty" \/ Saving(c))
        /\ Moves(c) /\ job'[c] = Decide(j, s) /\ file' = file
  BY LoadIs
<1> DEFINE n == Decide(j, s)
<1>2. j.met <=> file.is = "empty" \/ Saving(c)  BY <1>1, Zenon
<1>3. CASE ~Holding(n)  BY <1>1, <1>3, QuietSave
<1>4. CASE Holding(n)
  <2>1. /\ n.met = j.met /\ ~Filling(n)
        /\ n.at = "scan" => n.seen = s
        /\ n.at = "open" => Keeps(n, {}, s, n.seen) /\ (n.op = "remove" /\ ~n.late => n.root \notin s.roots)
    BY <1>1, <1>4, DecideKeeps
  <2> HIDE DEF n
  <2>2. ~n.met => s = file.has  BY <1>1, <1>2, <2>1 DEF Reads
  <2>3. n.at \in {"scan", "open"}  BY <1>4, <2>1 DEF Holding, Filling
  <2>4. job'[c] = n  BY <1>1 DEF n
  <2>5. ~n.met => Faithful(job[c])'
    <3> SUFFICES ASSUME ~n.met PROVE Faithful(job[c])'  OBVIOUS
    <3>1. /\ n.at = "scan" => n.seen = file'.has
          /\ n.at = "open" => Keeps(n, {}, s, n.seen) /\ s = file'.has
          /\ n.at = "open" /\ n.op = "remove" /\ ~n.late => n.root \notin file'.has.roots
      BY <1>1, <2>1, <2>2
    <3>2. n.at # "write" /\ n.at # "create" /\ ~Filling(n)  BY <2>1, <2>3
    <3> QED  BY <2>4, <3>1, <3>2 DEF Faithful, Keeps, Filling
  <2> QED  BY <1>1, <1>2, <2>1, <2>4, <2>5, TakeSave
<1> QED  BY <1>3, <1>4

LEMMA ScanSave == ASSUME TypeInv, SaveInv, NEW c \in Threads, Scan(c) PROVE SaveInv'
<1>1. Moves(c) /\ job[c].at = "scan" /\ file' = file  BY ScanIs
<1>2. CASE Fresh(job'[c], job[c])
  <2>1. ~Holding(job'[c])  BY <1>2 DEF Fresh, Holding
  <2> QED  BY <1>1, <2>1, QuietSave
<1>3. CASE \E on \in SUBSET Range(Ports) :
             /\ job'[c].at = "open" /\ job'[c].op = job[c].op /\ job'[c].met = job[c].met
             /\ job'[c].seen = Connected(job[c].seen, job[c].op = "reconnect", on)
  <2> DEFINE n == job'[c]
             s == job[c].seen
             force == job[c].op = "reconnect"
  <2>1. PICK on \in SUBSET Range(Ports) :
             /\ n.at = "open" /\ n.op = job[c].op /\ n.met = job[c].met
             /\ n.seen = Connected(s, force, on)
    BY <1>3
  <2>2. s \in Settings /\ force \in BOOLEAN  BY ThreadIs, JobIs
  <2>3. job[c].op \in {"connect", "reconnect"}  BY <1>1, ThreadIs DEF Shaped
  <2>4. force <=> n.op = "reconnect"  BY <2>1
  <2>5. /\ n.seen.ext = s.ext /\ n.seen.roots = s.roots
        /\ \A x \in AllRoles : n.seen.role[x] = s.role[x] \/ force \/ s.role[x] = Unset
    <3> HIDE DEF n, s, force
    <3> QED  BY <2>1, <2>2, ConnectedIs
  <2>6. ~n.met => s = file'.has
    <3>1. ~n.met => Faithful(job[c])  BY <2>1 DEF SaveInv
    <3> QED  BY <1>1, <3>1 DEF Faithful
  <2>7. Saving(c) => n.met
    <3> SUFFICES ASSUME NEW d \in Threads \ {c}, job[d].at \in {"create", "write"} PROVE job[c].met
      BY <2>1 DEF Saving
    <3> QED  BY <1>1 DEF SaveInv, Holding, Filling
  <2>8. ~n.met => Faithful(job[c])'
    <3> SUFFICES ASSUME ~n.met PROVE Faithful(job[c])'  OBVIOUS
    <3>1. Keeps(n, {}, s, n.seen)  BY <2>1, <2>3, <2>4, <2>5 DEF Keeps
    <3> HIDE DEF s
    <3> QED  BY <2>1, <2>3, <2>6, <3>1 DEF Faithful, Keeps, Filling
  <2>9. ~Filling(n)  BY <2>1 DEF Filling
  <2> HIDE DEF s, force
  <2> QED  BY <1>1, <2>7, <2>8, <2>9, TakeSave
<1> QED  BY <1>2, <1>3, ScanIs

LEMMA OpenSave ==
  ASSUME TypeInv, SaveInv, NEW c \in Threads, LoadCreates(c) \/ Open(c) PROVE SaveInv'
<1>1. PICK place \in {"create", "write"} :
        /\ Opens(c, place)
        /\ \/ place = "create" /\ job[c].at = "load" /\ file.is = "absent"
           \/ place = "write" /\ job[c].at = "open"
  BY DEF LoadCreates, Open
<1>2. file'.is = "empty" /\ file'.has = file.has  BY <1>1, OpensIs, ThreadIs DEF FileStates
<1>3. ASSUME NEW d \in Threads
      PROVE  LET n == job'[d]
                 j == job[d] IN
             /\ n.op = j.op /\ n.root = j.root /\ n.role = j.role /\ n.seen = j.seen /\ n.late = j.late
             /\ n.at = IF d = c THEN place ELSE j.at
             /\ n.met <=> j.met \/ IF d = c THEN Saving(c) ELSE Holding(j)
  BY <1>1, OpensIs
<1>4. ASSUME NEW d \in Threads, ~job'[d].met PROVE Faithful(job[d])'
  <2>1. CASE d = c
    <3>1. ~job[c].met  BY <1>3, <1>4, <2>1
    <3>2. CASE place = "create"
      <4>1. file.has = Default  BY <1>1, <3>2 DEF SaveInv
      <4> QED  BY <1>2, <1>3, <2>1, <3>2, <4>1 DEF Faithful, Filling
    <3>3. CASE place = "write"
      <4>1. /\ Keeps(job[c], {}, file.has, job[c].seen)
            /\ job[c].op = "remove" /\ ~job[c].late => job[c].root \notin file.has.roots
        BY <1>1, <3>1, <3>3 DEF SaveInv, Faithful
      <4>2. Keeps(job'[c], {}, file'.has, job'[c].seen)  BY <1>2, <1>3, <4>1 DEF Keeps
      <4>3. job'[c].op = "remove" /\ ~job'[c].late => job'[c].root \notin file'.has.roots
        BY <1>2, <1>3, <4>1
      <4>4. job'[c].at = "write"  BY <1>3, <3>3
      <4> QED  BY <1>2, <2>1, <4>2, <4>3, <4>4 DEF Faithful, Filling, Keeps
    <3> QED  BY <3>2, <3>3
  <2>2. CASE d # c
    <3>1. ~Holding(job'[d])  BY <1>3, <1>4, <2>2 DEF Holding
    <3> QED  BY <3>1, RestFaithful
  <2> QED  BY <2>1, <2>2
<1>5. ASSUME NEW d \in Threads, NEW e \in Threads, d # e, Holding(job'[d]), Filling(job'[e])
      PROVE  job'[d].met
  <2>1. CASE d = c
    <3>1. Filling(job[e])  BY <1>3, <1>5, <2>1 DEF Filling
    <3>2. Saving(c)  BY <1>5, <2>1, <3>1 DEF Saving, Filling
    <3> QED  BY <1>3, <2>1, <3>2
  <2>2. CASE d # c
    <3>1. Holding(job[d])  BY <1>3, <1>5, <2>2 DEF Holding
    <3> QED  BY <1>3, <2>2, <3>1
  <2> QED  BY <2>1, <2>2
<1> QED  BY <1>2, <1>4, <1>5, Zenon DEF SaveInv

LEMMA CreateSave == ASSUME TypeInv, SaveInv, NEW c \in Threads, Create(c) PROVE SaveInv'
<1> DEFINE n == Decide(job[c], Default)
<1>1. /\ Moves(c) /\ job'[c] = n /\ job[c].at = "create" /\ Dump(Default)
      /\ job[c] \in Jobs /\ Shaped(job[c]) /\ Default \in Settings
  BY CreateIs, ThreadIs, DefaultIs
<1>2. ~Filling(n) /\ (Holding(n) => n.met = job[c].met)
  <2>1. CASE Holding(n)  BY <1>1, <2>1, DecideKeeps
  <2>2. CASE ~Holding(n)  BY <2>2 DEF Holding, Filling
  <2> QED  BY <2>1, <2>2
<1>3. ASSUME ~n.met PROVE Faithful(job[c])'
  <2>1. CASE ~Holding(n)  BY <1>1, <2>1, RestFaithful
  <2>2. CASE Holding(n)
    <3>1. file.is = "empty"
      <4>1. ~job[c].met  BY <1>2, <1>3, <2>2
      <4> QED  BY <1>1, <4>1 DEF SaveInv, Faithful, Filling
    <3>2. file'.has = Default  BY <1>1, <3>1 DEF Dump
    <3>3. /\ n.at = "scan" => n.seen = Default
          /\ n.at = "open" => /\ Keeps(n, {}, Default, n.seen)
                              /\ n.op = "remove" /\ ~n.late => n.root \notin Default.roots
      BY <1>1, <2>2, DecideKeeps
    <3>4. n.at # "write" /\ n.at # "create"  BY <1>2 DEF Filling
    <3>5. n = job'[c]  BY <1>1
    <3> HIDE DEF n
    <3> QED  BY <1>2, <3>2, <3>3, <3>4, <3>5 DEF Faithful, Keeps
  <2> QED  BY <2>1, <2>2
<1>4. Holding(job[c]) /\ Filling(job[c])  BY <1>1 DEF Holding, Filling
<1> HIDE DEF n
<1> QED  BY <1>1, <1>2, <1>3, <1>4, FillSave

LEMMA WriteSave == ASSUME TypeInv, SaveInv, NEW c \in Threads, Write(c) PROVE SaveInv'
<1>1. /\ Moves(c) /\ job'[c] = Saved(job[c]) /\ job[c].at = "write" /\ Dump(job[c].seen)
      /\ job[c] \in Jobs /\ Shaped(job[c])
  BY WriteIs, ThreadIs
<1>2. ~Holding(job'[c])  BY <1>1, SavedIs DEF Holding, Fresh
<1>3. ~Filling(job'[c]) /\ Filling(job[c])  BY <1>1, <1>2 DEF Holding, Filling
<1>4. Faithful(job[c])'  BY <1>2, RestFaithful
<1> QED  BY <1>1, <1>2, <1>3, <1>4, FillSave

LEMMA StartSave == ASSUME TypeInv, SaveInv, NEW c \in Threads, Start(c) PROVE SaveInv'
<1>1. job[c].at = "start" /\ job' = [job EXCEPT ![c] = Running(@)]  BY DEF Start
<1>2. Moves(c) /\ ~Holding(job'[c])
  <2>1. Moves(c)  BY <1>1, RunningIs
  <2>2. job'[c].at \in {"forget", "purge", "load", "start", "done"}  BY <1>1, RunningIs DEF Fresh
  <2> QED  BY <2>1, <2>2 DEF Holding
<1>3. CASE file' = file  BY <1>2, <1>3, QuietSave
<1>4. CASE file' # file
  <2>1. file.is = "absent" /\ file'.is = "whole" /\ file'.has = file.has
    BY <1>4, ThreadIs DEF Start, FileStates
  <2>2. \A d \in Threads \ {c} : job'[d] = job[d]  BY <1>2 DEF Moves
  <2>3. ASSUME NEW d \in Threads, ~job'[d].met PROVE Faithful(job[d])'
    <3>1. CASE ~Holding(job'[d])  BY <3>1, RestFaithful
    <3>2. CASE Holding(job'[d])
      <4>1. d # c /\ job'[d] = job[d]  BY <1>2, <2>2, <3>2
      <4>2. Faithful(job[d])  BY <2>3, <4>1 DEF SaveInv
      <4>3. ~Filling(job[d])  BY <2>1, <4>2 DEF Faithful
      <4> QED  BY <2>1, <4>1, <4>2, <4>3 DEF Faithful, Keeps, Filling
    <3> QED  BY <3>1, <3>2
  <2>4. ASSUME NEW d \in Threads, NEW e \in Threads, d # e, Holding(job'[d]), Filling(job'[e])
        PROVE  job'[d].met
    <3>1. Holding(job'[e])  BY <2>4 DEF Holding, Filling
    <3>2. d # c /\ e # c  BY <1>2, <2>4, <3>1
    <3> QED  BY <2>2, <2>4, <3>2 DEF SaveInv
  <2> QED  BY <2>1, <2>3, <2>4, Zenon DEF SaveInv
<1> QED  BY <1>3, <1>4

\* The steps of threads that hold no settings.
LEMMA RestSteps ==
  ASSUME TypeInv, NEW c \in Threads,
         LoadFails(c) \/ Stop(c) \/ StartAgain(c) \/ Rewalk(c) \/ Size(c) \/ Launch(c) \/ Check(c)
         \/ Purge(c) \/ Reload(c) \/ Wipe(c) \/ ClearSize(c) \/ KeepSize(c) \/ RebuildStore(c)
         \/ Mark(c) \/ UseStore(c)
  PROVE  Moves(c) /\ ~Holding(job'[c]) /\ file' = file
<1>1. Done.at = "done"  BY DEF Done, Idle
<1>2. CASE LoadFails(c)
  <2>1. Moves(c) /\ Fresh(job'[c], job[c]) /\ file' = file  BY <1>2, LoadFailsIs
  <2> QED  BY <2>1 DEF Fresh, Holding
<1>3. CASE Stop(c)
  <2>1. Moves(c) /\ job'[c].at \in {"wipe", "start"} /\ file' = file  BY <1>3, StopIs
  <2> QED  BY <2>1 DEF Holding
<1>4. CASE StartAgain(c)
  <2>1. job[c].at = "start" /\ job' = [job EXCEPT ![c] = Running(@)] /\ file' = file
    BY <1>4 DEF StartAgain
  <2>2. Moves(c)  BY <2>1, RunningIs
  <2>3. job'[c].at \in {"forget", "purge", "load", "start", "done"}  BY <2>1, RunningIs DEF Fresh
  <2> QED  BY <2>1, <2>2, <2>3 DEF Holding
<1>5. CASE Rewalk(c)
  <2>1. Moves(c) /\ job'[c].at \in {"walk", "reload"} /\ file' = file  BY <1>5, RewalkIs
  <2> QED  BY <2>1 DEF Holding
<1>6. CASE Size(c)
  <2>1. Moves(c) /\ job'[c].at \in {"store", "done"} /\ file' = file  BY <1>1, <1>6, SizeIs
  <2> QED  BY <2>1 DEF Holding
<1>7. CASE Launch(c)
  <2>1. Moves(c) /\ job'[c].at \in {"check", "done"} /\ file' = file  BY <1>1, <1>7, LaunchIs
  <2> QED  BY <2>1 DEF Holding
<1>8. CASE Check(c)
  <2>1. Moves(c) /\ job'[c].at \in {"rebuild", "use"} /\ file' = file  BY <1>8, CheckIs
  <2> QED  BY <2>1 DEF Holding
<1>9. CASE Purge(c) \/ Reload(c) \/ Wipe(c) \/ ClearSize(c) \/ KeepSize(c) \/ RebuildStore(c)
           \/ Mark(c) \/ UseStore(c)
  <2>1. Moves(c) /\ job'[c].at \in {"done", "clear", "start", "mark", "use"}
    BY <1>1, <1>9, OtherMoves
  <2>2. file' = file
    BY <1>9 DEF Purge, Reload, Wipe, ClearSize, KeepSize, RebuildStore, Mark, UseStore
  <2> QED  BY <2>1, <2>2 DEF Holding
<1> QED  BY <1>2, <1>3, <1>4, <1>5, <1>6, <1>7, <1>8, <1>9

LEMMA ResetSave == ASSUME TypeInv, SaveInv, NEW c \in Threads, Reset(c) PROVE SaveInv'
<1>1. /\ job'[c] = Done /\ file' = file
      /\ \A d \in Threads \ {c} :
           LET n == job'[d]
               j == job[d] IN
           /\ n.op = j.op /\ n.root = j.root /\ n.role = j.role /\ n.seen = j.seen
           /\ n.met = j.met /\ n.at = j.at
           /\ n.late <=> j.late \/ j.at = "store"
  BY ResetIs
<1>2. ~Holding(job'[c])  BY <1>1 DEF Holding, Done, Idle
<1>3. ASSUME NEW d \in Threads, ~job'[d].met PROVE Faithful(job[d])'
  <2>1. CASE ~Holding(job'[d])  BY <2>1, RestFaithful
  <2>2. CASE Holding(job'[d])
    <3>1. d # c  BY <1>2, <2>2
    <3>2. Faithful(job[d])  BY <1>1, <1>3, <3>1 DEF SaveInv
    <3>3. job[d].at # "store"  BY <1>1, <2>2, <3>1 DEF Holding
    <3> QED  BY <1>1, <3>1, <3>2, <3>3 DEF Faithful, Filling, Keeps
  <2> QED  BY <2>1, <2>2
<1>4. ASSUME NEW d \in Threads, NEW e \in Threads, d # e, Holding(job'[d]), Filling(job'[e])
      PROVE  job'[d].met
  <2>1. Holding(job'[e])  BY <1>4 DEF Holding, Filling
  <2>2. d # c /\ e # c  BY <1>2, <1>4, <2>1
  <2>3. Holding(job[d]) /\ Filling(job[e])  BY <1>1, <1>4, <2>2 DEF Holding, Filling
  <2> QED  BY <1>1, <1>4, <2>2, <2>3 DEF SaveInv
<1>5. file'.is = "absent" => file'.has = Default  BY <1>1 DEF SaveInv
<1> QED  BY <1>3, <1>4, <1>5, Zenon DEF SaveInv

\* Nobody holds settings: at the start, and after a crash.
LEMMA NobodySave ==
  ASSUME \A d \in Threads : ~Holding(job'[d]), file'.is = "absent" => file'.has = Default
  PROVE  SaveInv'
<1>1. \A d \in Threads : Faithful(job[d])'  BY RestFaithful
<1>2. \A d \in Threads : ~Filling(job'[d])  BY DEF Holding, Filling
<1> QED  BY <1>1, <1>2, Zenon DEF SaveInv

LEMMA SaveInit == Init => SaveInv
<1> SUFFICES ASSUME Init PROVE SaveInv  OBVIOUS
<1>1. \A c \in Threads : job[c] \in {Booting, Idle, Done}  BY DEF Init
<1>2. \A n \in {Booting, Idle, Done} : ~Holding(n)
  <2>1. Booting.at = "load" /\ Idle.at = "idle" /\ Done.at = "done"  BY DEF Booting, Idle, Done
  <2> QED  BY <2>1 DEF Holding
<1>3. \A c \in Threads : ~Holding(job[c])  BY <1>1, <1>2
<1>4. file.is = "absent" => file.has = Default
  <2>1. \/ file = [is |-> "absent", has |-> Default]
        \/ \E s \in Earlier : file = [is |-> "whole", has |-> s]
    BY DEF Init
  <2> QED  BY <2>1
<1> QED  BY <1>3, <1>4 DEF SaveInv, Faithful, Holding, Filling

LEMMA SaveStep == TypeInv /\ SaveInv /\ [Next]_vars => SaveInv'
<1> SUFFICES ASSUME TypeInv, SaveInv, [Next]_vars PROVE SaveInv'  OBVIOUS
<1>1. ASSUME job' = job, file' = file PROVE SaveInv'
  BY <1>1 DEF SaveInv, Faithful, Keeps, Holding, Filling
<1>2. ASSUME NEW c \in Calls, Page(c) PROVE SaveInv'
  <2>1. c \in Threads /\ Moves(c) /\ Begun(job'[c]) /\ file' = file  BY <1>2, PageIs DEF Threads
  <2>2. ~Holding(job'[c])  BY <2>1 DEF Begun, Holding
  <2> QED  BY <2>1, <2>2, QuietSave
<1>3. ASSUME NEW c \in Threads, Step(c) PROVE SaveInv'
  <2>1. CASE LoadFails(c) \/ Stop(c) \/ StartAgain(c) \/ Rewalk(c) \/ Size(c) \/ Launch(c) \/ Check(c)
             \/ Purge(c) \/ Reload(c) \/ Wipe(c) \/ ClearSize(c) \/ KeepSize(c) \/ RebuildStore(c)
             \/ Mark(c) \/ UseStore(c)
    BY <2>1, RestSteps, QuietSave
  <2>2. CASE Load(c)  BY <2>2, LoadSave
  <2>3. CASE Scan(c)  BY <2>3, ScanSave
  <2>4. CASE LoadCreates(c) \/ Open(c)  BY <2>4, OpenSave
  <2>5. CASE Create(c)  BY <2>5, CreateSave
  <2>6. CASE Write(c)  BY <2>6, WriteSave
  <2>7. CASE Start(c)  BY <2>7, StartSave
  <2>8. CASE Reset(c)  BY <2>8, ResetSave
  <2> QED  BY <1>3, <2>1, <2>2, <2>3, <2>4, <2>5, <2>6, <2>7, <2>8 DEF Step
<1>4. CASE Crash
  <2>1. \A d \in Threads : ~Holding(job'[d])  BY <1>4, CrashIs DEF Holding
  <2>2. file' = file  BY <1>4 DEF Crash
  <2>3. file'.is = "absent" => file'.has = Default  BY <2>2 DEF SaveInv
  <2> QED  BY <2>1, <2>3, NobodySave
<1>5. CASE \E w \in walks : Thread(w)  BY <1>1, <1>5 DEF Thread, Found, GiveUp, Condemn
<1>6. CASE \E w \in sweeps : Sweep(w)  BY <1>1, <1>6 DEF Sweep
<1>7. CASE Expire  BY <1>1, <1>7 DEF Expire
<1>8. CASE UNCHANGED vars  BY <1>1, <1>8 DEF vars
<1> QED  BY <1>2, <1>3, <1>4, <1>5, <1>6, <1>7, <1>8 DEF Next

\* Nothing but its own step, or a crash, moves a thread.
LEMMA OthersStay ==
  ASSUME TypeInv, [Next]_vars, ~Crash, NEW c \in Threads, ~Step(c), c \in Calls => ~Page(c)
  PROVE  job'[c].at = job[c].at /\ job'[c].op = job[c].op /\ job'[c].todo = job[c].todo
         /\ job'[c].root = job[c].root /\ job'[c].seen = job[c].seen /\ job'[c].kind = job[c].kind
         /\ (job[c].at # "store" => job'[c].late = job[c].late)
<1> DEFINE Kept == job'[c].at = job[c].at /\ job'[c].op = job[c].op /\ job'[c].todo = job[c].todo
         /\ job'[c].root = job[c].root /\ job'[c].seen = job[c].seen /\ job'[c].kind = job[c].kind
         /\ (job[c].at # "store" => job'[c].late = job[c].late)
<1> SUFFICES Kept  OBVIOUS
<1>1. job'[c] = job[c] => Kept  OBVIOUS
<1> HIDE DEF Kept
<1>2. ASSUME NEW d \in Calls, Page(d) PROVE Kept
  <2>1. d \in Threads /\ Moves(d) /\ d # c  BY <1>2, PageIs DEF Threads
  <2> QED  BY <1>1, <2>1 DEF Moves
<1>3. ASSUME NEW d \in Threads, Step(d) PROVE Kept
  <2>1. d # c  BY <1>3
  <2>2. CASE Moves(d)  BY <1>1, <2>1, <2>2 DEF Moves
  <2>3. CASE LoadCreates(d) \/ Open(d)
    <3>1. PICK place \in {"create", "write"} : Opens(d, place)  BY <2>3 DEF LoadCreates, Open
    <3> QED  BY <2>1, <3>1, OpensIs DEF Kept
  <2>4. CASE Reset(d)
    <3>1. job[c].at # "store" => job'[c].late = job[c].late
      <4>1. job \in [Threads -> Jobs] /\ job' \in [Threads -> Jobs]  BY <2>4, ThreadIs, ResetIs
      <4>2. job[c].late \in BOOLEAN /\ job'[c].late \in BOOLEAN  BY <4>1, JobIs
      <4>3. job'[c].late <=> job[c].late \/ job[c].at = "store"  BY <2>1, <2>4, ResetIs
      <4> QED  BY <4>2, <4>3
    <3> QED  BY <2>1, <2>4, <3>1, ResetIs DEF Kept
  <2>5. CASE Load(d) \/ Create(d) \/ Scan(d) \/ Write(d)
    BY <2>2, <2>5, LoadIs, CreateIs, ScanIs, WriteIs
  <2>6. CASE Start(d)  BY <2>2, <2>6, RunningIs DEF Start
  <2>7. CASE LoadFails(d) \/ Stop(d) \/ StartAgain(d) \/ Rewalk(d) \/ Size(d) \/ Launch(d) \/ Check(d)
             \/ Purge(d) \/ Reload(d) \/ Wipe(d) \/ ClearSize(d) \/ KeepSize(d) \/ RebuildStore(d)
             \/ Mark(d) \/ UseStore(d)
    BY <2>2, <2>7, RestSteps
  <2> QED  BY <1>3, <2>3, <2>4, <2>5, <2>6, <2>7 DEF Step
<1>4. CASE \E w \in walks : Thread(w)  BY <1>1, <1>4 DEF Thread, Found, GiveUp, Condemn
<1>5. CASE \E w \in sweeps : Sweep(w)  BY <1>1, <1>5 DEF Sweep
<1>6. CASE Expire  BY <1>1, <1>6 DEF Expire
<1>7. CASE UNCHANGED vars  BY <1>1, <1>7 DEF vars
<1> QED  BY <1>2, <1>3, <1>4, <1>5, <1>6, <1>7 DEF Next

\* Settings differ nowhere from themselves.
LEMMA ChangedIs ==
  ASSUME NEW s \in Settings, NEW t \in Settings
  PROVE  /\ Changed(s, s) = {}
         /\ "ext" \notin Changed(s, t) => s.ext = t.ext
         /\ "roots" \notin Changed(s, t) => s.roots = t.roots
         /\ \A x \in AllRoles \ Changed(s, t) : s.role[x] = t.role[x]
<1>1. "ext" \in Parts /\ "roots" \in Parts /\ AllRoles \subseteq Parts  BY DEF Parts
<1> QED  BY <1>1 DEF Changed

\* A handler that goes on with what it holds.
HoldsOn(n, j) ==
  /\ n.op = j.op /\ n.root = j.root /\ n.role = j.role /\ n.seen = j.seen
  /\ n.at = j.at \/ (j.at = "open" /\ n.at = "write")

\* What is saved beside a handler leaves it as far behind as what was changed.
LEMMA FartherBehind ==
  ASSUME NEW j, NEW n, HoldsOn(n, j), j.seen \in Settings, NEW s \in Settings, NEW t \in Settings,
         NEW unread, Behind(j, unread, s)
  PROVE  Behind(n, unread \cup Changed(s, t), t)
<1> DEFINE more == Changed(s, t)
<1>1. /\ "ext" \notin more => s.ext = t.ext
      /\ "roots" \notin more => s.roots = t.roots
      /\ \A x \in AllRoles \ more : s.role[x] = t.role[x]
  BY ChangedIs
<1>2. ASSUME NEW u \in Settings, Changed(u, s) \subseteq unread
      PROVE  Changed(u, t) \subseteq unread \cup more
  <2> SUFFICES ASSUME NEW x \in Changed(u, t), x \notin more PROVE x \in unread  OBVIOUS
  <2> HIDE DEF more
  <2>1. x \in Changed(u, s)  BY <1>1 DEF Changed
  <2> QED  BY <1>2, <2>1
<1>3. Default \in Settings  BY DefaultIs
<1> HIDE DEF more
<1>4. n.at = "create" => Changed(Default, t) \subseteq unread \cup more
  BY <1>2, <1>3 DEF HoldsOn, Behind
<1>5. n.at = "scan" => Changed(n.seen, t) \subseteq unread \cup more
  <2>1. CASE n.at = "scan"
    <3>1. j.at = "scan" /\ n.seen = j.seen  BY <2>1 DEF HoldsOn
    <3>2. Changed(j.seen, s) \subseteq unread  BY <3>1 DEF Behind
    <3> QED  BY <1>2, <3>1, <3>2
  <2> QED  BY <2>1
<1>6. n.at \in {"open", "write"} => Keeps(n, unread \cup more, t, n.seen)
  <2> SUFFICES ASSUME n.at \in {"open", "write"} PROVE Keeps(n, unread \cup more, t, n.seen)  OBVIOUS
  <2>1. Keeps(j, unread, s, j.seen)  BY DEF HoldsOn, Behind
  <2>2. n.op = j.op /\ n.root = j.root /\ n.role = j.role /\ n.seen = j.seen  BY DEF HoldsOn
  <2> QED  BY <1>1, <2>1, <2>2 DEF Keeps
<1> QED  BY <1>4, <1>5, <1>6 DEF Behind, more

\* Every handler that holds settings is either on its way, told of what is saved, or has
\* just loaded or decided.
LEMMA BehindBy ==
  ASSUME TypeInv, BehindInv, file'.has \in Settings,
         \A d \in Threads :
           \/ ~Holding(job'[d])
           \/ HoldsOn(job'[d], job[d]) /\ news'[d] = news[d] \cup Changed(file.has, file'.has)
           \/ Behind(job'[d], news'[d], file'.has)
  PROVE  BehindInv'
<1>1. ASSUME NEW d \in Threads PROVE Behind(job[d], news[d], file.has)'
  <2>1. CASE ~Holding(job'[d])  BY <2>1 DEF Holding, Behind
  <2>2. CASE HoldsOn(job'[d], job[d]) /\ news'[d] = news[d] \cup Changed(file.has, file'.has)
    <3>1. file.has \in Settings /\ job[d].seen \in Settings  BY ThreadIs, JobIs
    <3>2. Behind(job[d], news[d], file.has)  BY DEF BehindInv
    <3>3. Behind(job'[d], news[d] \cup Changed(file.has, file'.has), file'.has)
      BY <2>2, <3>1, <3>2, FartherBehind
    <3>4. Behind(job'[d], news'[d], file'.has)  BY <2>2, <3>3
    <3> QED  BY <3>4 DEF Behind, Keeps, Changed
  <2>3. CASE Behind(job'[d], news'[d], file'.has)  BY <2>3 DEF Behind, Keeps, Changed
  <2> QED  BY <2>1, <2>2, <2>3
<1> QED  BY <1>1, Zenon DEF BehindInv

\* A step that saves nothing.
LEMMA BehindQuiet ==
  ASSUME TypeInv, BehindInv, file'.has = file.has,
         \A d \in Threads : \/ ~Holding(job'[d])
                            \/ HoldsOn(job'[d], job[d]) /\ news'[d] = news[d]
                            \/ Behind(job'[d], news'[d], file'.has)
  PROVE  BehindInv'
<1>1. file.has \in Settings /\ Changed(file.has, file'.has) = {}
  <2>1. "boot" \in Threads  BY DEF Threads
  <2>2. file.has \in Settings  BY <2>1, ThreadIs
  <2> QED  BY <2>2, ChangedIs
<1> QED  BY <1>1, BehindBy

\* What Decide makes of settings that are behind is as far behind.
LEMMA DecideBehind ==
  ASSUME NEW j \in Jobs, NEW s \in Settings, Shaped(j), j.at \in {"load", "create"},
         NEW n, n = Decide(j, s), Holding(n), NEW t \in Settings
  PROVE  Behind(n, Changed(s, t), t)
<1>1. /\ ~Filling(n)
      /\ n.at = "scan" => n.seen = s
      /\ n.at = "open" => Keeps(n, {}, s, n.seen)
  BY DecideKeeps
<1>2. n.at \in {"scan", "open"}  BY <1>1 DEF Holding, Filling
<1>3. CASE n.at = "scan"  BY <1>1, <1>3 DEF Behind
<1>4. CASE n.at = "open"
  <2>1. Keeps(n, Changed(s, t), t, n.seen)  BY <1>1, <1>4, ChangedIs DEF Keeps
  <2> QED  BY <1>4, <2>1 DEF Behind
<1> QED  BY <1>2, <1>3, <1>4

LEMMA BehindInit == Init => BehindInv
<1> SUFFICES ASSUME Init PROVE BehindInv  OBVIOUS
<1>1. \A c \in Threads : job[c] \in {Booting, Idle, Done}  BY DEF Init
<1>2. Booting.at = "load" /\ Idle.at = "idle" /\ Done.at = "done"  BY DEF Booting, Idle, Done
<1> QED  BY <1>1, <1>2 DEF BehindInv, Behind

LEMMA LoadBehind ==
  ASSUME TypeInv, BehindInv, NEW c \in Threads, Load(c) PROVE BehindInv'
<1>1. PICK s \in Settings, j \in Jobs :
        /\ j.at = "load" /\ Shaped(j) /\ Moves(c) /\ job'[c] = Decide(j, s) /\ file' = file
        /\ news' = [news EXCEPT ![c] = Changed(s, file.has)]
  BY LoadIs
<1>2. news \in [Threads -> SUBSET Parts] /\ file.has \in Settings  BY ThreadIs DEF TypeInv, TypeOK
<1>3. ASSUME NEW d \in Threads \ {c} PROVE HoldsOn(job'[d], job[d]) /\ news'[d] = news[d]
  BY <1>1, <1>2 DEF Moves, HoldsOn
<1>4. Holding(job'[c]) => Behind(job'[c], news'[c], file'.has)
  <2>1. news'[c] = Changed(s, file.has)  BY <1>1, <1>2
  <2> QED  BY <1>1, <1>2, <2>1, DecideBehind
<1> QED  BY <1>1, <1>3, <1>4, BehindQuiet

LEMMA OpenBehind ==
  ASSUME TypeInv, SaveInv, BehindInv, NEW c \in Threads, LoadCreates(c) \/ Open(c) PROVE BehindInv'
<1>1. PICK place \in {"create", "write"} :
        /\ Opens(c, place)
        /\ \/ place = "create" /\ job[c].at = "load" /\ file.is = "absent" /\ news' = [news EXCEPT ![c] = {}]
           \/ place = "write" /\ job[c].at = "open" /\ news' = news
  BY DEF LoadCreates, Open, ghosts
<1>2. file'.has = file.has  BY <1>1, OpensIs, ThreadIs DEF FileStates
<1>3. \A d \in Threads :
        /\ job'[d].op = job[d].op /\ job'[d].root = job[d].root /\ job'[d].role = job[d].role
        /\ job'[d].seen = job[d].seen /\ job'[d].at = IF d = c THEN place ELSE job[d].at
  BY <1>1, OpensIs
<1>4. news \in [Threads -> SUBSET Parts]  BY DEF TypeInv, TypeOK
<1>5. ASSUME NEW d \in Threads \ {c} PROVE HoldsOn(job'[d], job[d]) /\ news'[d] = news[d]
  BY <1>1, <1>3, <1>4 DEF HoldsOn
<1>6. CASE place = "write"
  <2>1. HoldsOn(job'[c], job[c]) /\ news'[c] = news[c]  BY <1>1, <1>3, <1>6 DEF HoldsOn
  <2> QED  BY <1>2, <1>5, <2>1, BehindQuiet
<1>7. CASE place = "create"
  <2>1. job'[c].at = "create"  BY <1>3, <1>7
  <2>2. file.has = Default  BY <1>1, <1>7 DEF SaveInv
  <2>3. Changed(Default, file'.has) = {}  BY <1>2, <2>2, DefaultIs, ChangedIs
  <2>4. Behind(job'[c], news'[c], file'.has)  BY <2>1, <2>3 DEF Behind
  <2> QED  BY <1>2, <1>5, <2>4, BehindQuiet
<1> QED  BY <1>6, <1>7

\* Who saves leaves the others behind, and is itself up to date or done.
LEMMA FillBehind ==
  ASSUME TypeInv, BehindInv, NEW c \in Threads, Moves(c), NEW own, news' = NewsAfter(c, own),
         file'.has \in Settings,
         Holding(job'[c]) => Behind(job'[c], own, file'.has)
  PROVE  BehindInv'
<1> DEFINE more == Changed(file.has, file'.has)
<1>1. \A d \in Threads : news'[d] =
        IF d = c THEN own ELSE IF job[d].at \in {"create", "scan", "open", "write"}
        THEN news[d] \cup more ELSE {}
  BY DEF NewsAfter
<1> HIDE DEF more
<1>2. ASSUME NEW d \in Threads \ {c}, Holding(job'[d])
      PROVE  HoldsOn(job'[d], job[d]) /\ news'[d] = news[d] \cup more
  <2>1. job'[d] = job[d]  BY DEF Moves
  <2>2. job[d].at \in {"create", "scan", "open", "write"}  BY <1>2, <2>1 DEF Holding
  <2> QED  BY <1>1, <2>1, <2>2 DEF HoldsOn
<1>3. news'[c] = own  BY <1>1
<1> QED  BY <1>2, <1>3, BehindBy DEF more

LEMMA FileSettings == ASSUME TypeInv, [Next]_vars PROVE file'.has \in Settings
BY FileType DEF FileStates

LEMMA BehindStep == TypeInv /\ SaveInv /\ BehindInv /\ [Next]_vars => BehindInv'
<1> SUFFICES ASSUME TypeInv, SaveInv, BehindInv, [Next]_vars PROVE BehindInv'  OBVIOUS
<1>1. ASSUME job' = job, file'.has = file.has, news' = news PROVE BehindInv'
  BY <1>1, BehindQuiet DEF HoldsOn
<1>2. ASSUME NEW c \in Threads, Moves(c), ~Holding(job'[c]), file'.has = file.has, news' = news
      PROVE  BehindInv'
  BY <1>2, BehindQuiet DEF HoldsOn, Moves
<1>3. ASSUME NEW c \in Calls, Page(c) PROVE BehindInv'
  <2>1. c \in Threads /\ Moves(c) /\ Begun(job'[c]) /\ file' = file /\ news' = news
    BY <1>3, PageIs DEF Threads, ghosts
  <2>2. ~Holding(job'[c])  BY <2>1 DEF Begun, Holding
  <2> QED  BY <1>2, <2>1, <2>2
<1>4. ASSUME NEW c \in Threads, Step(c) PROVE BehindInv'
  <2>1. CASE LoadFails(c) \/ Stop(c) \/ StartAgain(c) \/ Rewalk(c) \/ Size(c) \/ Launch(c) \/ Check(c)
             \/ Purge(c) \/ Reload(c) \/ Wipe(c) \/ ClearSize(c) \/ KeepSize(c) \/ RebuildStore(c)
             \/ Mark(c) \/ UseStore(c)
    <3>1. Moves(c) /\ ~Holding(job'[c]) /\ file' = file  BY <2>1, RestSteps
    <3>2. news' = news
      BY <2>1 DEF LoadFails, Stop, StartAgain, Rewalk, Size, Launch, Check, Purge, Reload, Wipe,
         ClearSize, KeepSize, RebuildStore, Mark, UseStore, ghosts
    <3> QED  BY <1>2, <3>1, <3>2
  <2>2. CASE Load(c)  BY <2>2, LoadBehind
  <2>3. CASE Scan(c)
    <3>1. Moves(c) /\ job[c].at = "scan" /\ file' = file /\ news' = news  BY <2>3, ScanIs DEF ghosts
    <3>2. CASE Fresh(job'[c], job[c])
      <4>1. ~Holding(job'[c])  BY <3>2 DEF Fresh, Holding
      <4> QED  BY <1>2, <3>1, <4>1
    <3>3. CASE \E on \in SUBSET Range(Ports) :
                 /\ job'[c].at = "open" /\ job'[c].op = job[c].op
                 /\ job'[c].seen = Connected(job[c].seen, job[c].op = "reconnect", on)
      <4> DEFINE n == job'[c]
                 s == job[c].seen
                 force == job[c].op = "reconnect"
      <4>1. PICK on \in SUBSET Range(Ports) :
              n.at = "open" /\ n.op = job[c].op /\ n.seen = Connected(s, force, on)
        BY <3>3
      <4>2. s \in Settings /\ force \in BOOLEAN /\ file.has \in Settings  BY ThreadIs, JobIs
      <4>3. job[c].op \in {"connect", "reconnect"}  BY <3>1, ThreadIs DEF Shaped
      <4>4. force <=> n.op = "reconnect"  BY <4>1
      <4>5. /\ n.seen.ext = s.ext /\ n.seen.roots = s.roots
            /\ \A x \in AllRoles : n.seen.role[x] = s.role[x] \/ force \/ s.role[x] = Unset
        <5> HIDE DEF n, s, force
        <5> QED  BY <4>1, <4>2, ConnectedIs
      <4>6. Changed(s, file.has) \subseteq news[c]  BY <3>1 DEF BehindInv, Behind
      <4> HIDE DEF n, s, force
      <4>7. Keeps(n, news[c], file.has, n.seen)
        <5>1. /\ "ext" \notin news[c] => s.ext = file.has.ext
              /\ "roots" \notin news[c] => s.roots = file.has.roots
              /\ \A x \in AllRoles \ news[c] : s.role[x] = file.has.role[x]
          BY <4>2, <4>6, ChangedIs
        <5> QED  BY <4>1, <4>3, <4>4, <4>5, <5>1 DEF Keeps
      <4>8. Behind(n, news'[c], file'.has)  BY <3>1, <4>1, <4>7 DEF Behind
      <4>9. Behind(job'[c], news'[c], file'.has)  BY <4>8 DEF n
      <4> QED  BY <3>1, <4>9, BehindQuiet DEF HoldsOn, Moves
    <3> QED  BY <2>3, <3>2, <3>3, ScanIs
  <2>4. CASE LoadCreates(c) \/ Open(c)  BY <2>4, OpenBehind
  <2>5. CASE Create(c)
    <3>1. /\ Moves(c) /\ job'[c] = Decide(job[c], Default) /\ job[c].at = "create"
          /\ job[c] \in Jobs /\ Shaped(job[c]) /\ Default \in Settings
      BY <2>5, CreateIs, ThreadIs, DefaultIs
    <3>2. news' = NewsAfter(c, Changed(Default, file'.has))  BY <2>5 DEF Create
    <3>3. file'.has \in Settings  BY FileSettings
    <3>4. Holding(job'[c]) => Behind(job'[c], Changed(Default, file'.has), file'.has)
      BY <3>1, <3>3, DecideBehind
    <3> QED  BY <3>1, <3>2, <3>3, <3>4, FillBehind
  <2>6. CASE Write(c)
    <3>1. Moves(c) /\ job'[c] = Saved(job[c]) /\ job[c] \in Jobs /\ Shaped(job[c])
      BY <2>6, WriteIs, ThreadIs
    <3>2. ~Holding(job'[c])  BY <3>1, SavedIs DEF Holding, Fresh
    <3>3. news' = NewsAfter(c, {})  BY <2>6 DEF Write
    <3> QED  BY <3>1, <3>2, <3>3, FileSettings, FillBehind
  <2>7. CASE Start(c)
    <3>1. job[c].at = "start" /\ job' = [job EXCEPT ![c] = Running(@)] /\ news' = news
      BY <2>7 DEF Start
    <3>2. Moves(c)  BY <3>1, RunningIs
    <3>3. job'[c].at \in {"forget", "purge", "load", "start", "done"}  BY <3>1, RunningIs DEF Fresh
    <3>4. file'.has = file.has  BY <2>7, ThreadIs DEF Start, FileStates
    <3> QED  BY <1>2, <3>1, <3>2, <3>3, <3>4 DEF Holding
  <2>8. CASE Reset(c)
    <3>1. /\ job'[c] = Done /\ file' = file
          /\ \A d \in Threads \ {c} :
               LET n == job'[d]
                   j == job[d] IN
               /\ n.op = j.op /\ n.root = j.root /\ n.role = j.role /\ n.seen = j.seen /\ n.at = j.at
      BY <2>8, ResetIs
    <3>2. news' = news  BY <2>8 DEF Reset, ghosts
    <3>3. ~Holding(job'[c])  BY <3>1 DEF Holding, Done, Idle
    <3> QED  BY <3>1, <3>2, <3>3, BehindQuiet DEF HoldsOn
  <2> QED  BY <1>4, <2>1, <2>2, <2>3, <2>4, <2>5, <2>6, <2>7, <2>8 DEF Step
<1>5. CASE Crash
  <2>1. \A d \in Threads : ~Holding(job'[d])  BY <1>5, CrashIs DEF Holding
  <2>2. file' = file  BY <1>5 DEF Crash
  <2> QED  BY <2>1, <2>2, BehindQuiet
<1>6. CASE \E w \in walks : Thread(w)  BY <1>1, <1>6 DEF Thread, Found, GiveUp, Condemn, ghosts
<1>7. CASE \E w \in sweeps : Sweep(w)  BY <1>1, <1>7 DEF Sweep, ghosts
<1>8. CASE Expire  BY <1>1, <1>8 DEF Expire, ghosts
<1>9. CASE UNCHANGED vars  BY <1>1, <1>9 DEF vars, ghosts
<1> QED  BY <1>3, <1>4, <1>5, <1>6, <1>7, <1>8, <1>9 DEF Next

LEMMA KeepStep ==
  TypeInv /\ BehindInv =>
    \A c \in Threads : file'.is = "whole" =>
       /\ Write(c) => Keeps(job[c], news[c], file.has, file'.has)
       /\ Create(c) => Changed(file.has, file'.has) \subseteq news[c]
<1> SUFFICES ASSUME TypeInv, BehindInv, NEW c \in Threads, file'.is = "whole"
             PROVE  /\ Write(c) => Keeps(job[c], news[c], file.has, file'.has)
                    /\ Create(c) => Changed(file.has, file'.has) \subseteq news[c]
  OBVIOUS
<1>1. Behind(job[c], news[c], file.has)  BY DEF BehindInv
<1>2. ASSUME Write(c) PROVE Keeps(job[c], news[c], file.has, file'.has)
  <2>1. Keeps(job[c], news[c], file.has, job[c].seen)  BY <1>1, <1>2 DEF Write, Behind
  <2>2. file'.has = job[c].seen \/ file' = [file EXCEPT !.is = "torn"]  BY <1>2 DEF Write, Dump
  <2>3. file' # [file EXCEPT !.is = "torn"]  BY ThreadIs DEF FileStates
  <2> QED  BY <2>1, <2>2, <2>3
<1>3. ASSUME Create(c) PROVE Changed(file.has, file'.has) \subseteq news[c]
  <2>1. Changed(Default, file.has) \subseteq news[c]  BY <1>1, <1>3 DEF Create, Behind
  <2>2. file'.has = Default \/ file' = [file EXCEPT !.is = "torn"]  BY <1>3 DEF Create, Dump
  <2>3. file' # [file EXCEPT !.is = "torn"]  BY ThreadIs DEF FileStates
  <2>4. Changed(file.has, Default) = Changed(Default, file.has)  BY DEF Changed
  <2> QED  BY <2>1, <2>2, <2>3, <2>4
<1> QED  BY <1>2, <1>3

\* However many handlers run beside each other, and however long the scan of the servers
\* takes: a save changes in the file what it was asked to change, and takes back only what
\* was saved after its handler loaded or was not in the file when it did.  A choice of the
\* user is safe from every handler that loaded after it, and from no other.
THEOREM SavesKeep == Spec => SavesKeepOthers
<1>1. Spec => []TypeInv /\ []SaveInv
  BY TypeInit, TypeStep, SaveInit, SaveStep, PTL DEF Spec
<1>2. Spec => []BehindInv
  BY <1>1, BehindInit, BehindStep, PTL DEF Spec
<1>3. TypeInv /\ BehindInv /\ [Next]_vars =>
        [\A c \in Threads : file'.is = "whole" =>
           /\ Write(c) => Keeps(job[c], news[c], file.has, file'.has)
           /\ Create(c) => Changed(file.has, file'.has) \subseteq news[c]]_vars
  BY KeepStep
<1> QED  BY <1>1, <1>2, <1>3, PTL DEF Spec, SavesKeepOthers

(***************************************************************************)
(* What the daemon ends up on                                              *)
(***************************************************************************)
\* Only a save under way puts other settings into the file.
LEMMA HasChanges ==
  ASSUME TypeInv, SaveInv, [Next]_vars
  PROVE  \/ file'.has = file.has
         \/ \E c \in Threads : Create(c) /\ file'.has = Default
         \/ \E c \in Threads : Write(c) /\ file'.has = job[c].seen
<1>1. file \in FileStates  BY DEF TypeInv, TypeOK
<1>2. ASSUME NEW c \in Threads, LoadCreates(c) \/ Open(c) \/ Start(c) PROVE file'.has = file.has
  BY <1>1, <1>2 DEF LoadCreates, Open, Opens, Truncate, Start, FileStates
<1>3. ASSUME NEW s, Dump(s) PROVE file'.has = s \/ file'.has = file.has
  BY <1>1, <1>3 DEF Dump, FileStates
<1>4. ASSUME NEW c \in Threads, Create(c) PROVE file'.has = Default \/ file'.has = file.has
  BY <1>3, <1>4 DEF Create
<1>5. ASSUME NEW c \in Threads, Write(c) PROVE file'.has = job[c].seen \/ file'.has = file.has
  BY <1>3, <1>5 DEF Write
<1> QED  BY <1>2, <1>4, <1>5, Changes

\* As long as nobody has met anybody: only one who changed the roots, and is to restart
\* the daemon, changes the saved roots.
LEMMA RootsChange ==
  ASSUME TypeInv, SaveInv, [Next]_vars, ~crossed'
  PROVE  /\ ~crossed
         /\ \/ file'.has.roots = file.has.roots
            \/ \E c \in Threads : job'[c].at = "stop"
<1>1. ~crossed
  <2>1. CASE UNCHANGED <<crossed, dropped>>  BY <2>1
  <2>2. CASE Crash  BY <2>2 DEF Crash
  <2>3. ASSUME NEW c \in Threads, LoadFails(c) \/ Create(c) \/ Write(c) \/ Start(c) PROVE ~crossed
    BY <2>3 DEF LoadFails, Create, Write, Start
  <2> QED  BY <2>1, <2>2, <2>3, Changes
<1>2. ASSUME NEW c \in Threads, Create(c), file'.has = Default PROVE file'.has.roots = file.has.roots
  <2>1. ~job[c].met /\ job[c].at = "create"  BY <1>2 DEF Create
  <2>2. file.has = Default  BY <2>1 DEF SaveInv, Faithful
  <2> QED  BY <1>2, <2>2
<1>3. ASSUME NEW c \in Threads, Write(c), file'.has = job[c].seen, file'.has.roots # file.has.roots
      PROVE  job'[c].at = "stop"
  <2>1. ~job[c].met /\ job[c].at = "write"  BY <1>3 DEF Write
  <2>2. /\ Keeps(job[c], {}, file.has, file'.has)
        /\ job[c].op = "remove" /\ ~job[c].late => job[c].root \notin file.has.roots
    BY <1>3, <2>1 DEF SaveInv, Faithful
  <2>3. \/ job[c].op = "add" /\ file'.has.roots = file.has.roots \cup {job[c].root}
        \/ job[c].op = "remove" /\ file'.has.roots = file.has.roots \ {job[c].root}
    BY <1>3, <2>2 DEF Keeps
  <2>4. Refreshes(job[c])
    <3>1. CASE job[c].op = "add"  BY <3>1 DEF Refreshes
    <3>2. CASE job[c].op = "remove" /\ job[c].late  BY <3>2 DEF Refreshes
    <3>3. CASE job[c].op = "remove" /\ ~job[c].late  BY <1>3, <2>2, <2>3, <3>3
    <3> QED  BY <2>3, <3>1, <3>2, <3>3
  <2>5. job'[c] = Saved(job[c])  BY <1>3, WriteIs
  <2> QED  BY <2>4, <2>5, ThreadIs, SavedIs
<1>4. CASE file'.has.roots = file.has.roots  BY <1>1, <1>4
<1>5. CASE file'.has.roots # file.has.roots
  <2>1. PICK c \in Threads : Write(c) /\ file'.has = job[c].seen  BY <1>2, <1>5, HasChanges
  <2> QED  BY <1>1, <1>3, <1>5, <2>1
<1> QED  BY <1>4, <1>5

LEMMA SettledInit == Init => SettledInv
<1> SUFFICES ASSUME Init, daemon.on PROVE SettledInv  BY DEF SettledInv
<1>1. daemon = [on |-> TRUE, watched |-> Present(file.has), gen |-> 0] /\ gen = 0
  <2>1. gen = 0  BY DEF Init, StoresInit
  <2>2. Off.on = FALSE  BY DEF Off
  <2> QED  BY <2>1, <2>2 DEF Init
<1>2. \A c \in Threads : job[c] \in {Booting, Idle, Done}  BY DEF Init
<1>3. Booting.at = "load" /\ Idle.at = "idle" /\ Done.at = "done"  BY DEF Booting, Idle, Done
<1> QED  BY <1>1, <1>2, <1>3 DEF SettledInv

LEMMA SettledStep == TypeInv /\ SaveInv /\ SettledInv /\ [Next]_vars => SettledInv'
<1> SUFFICES ASSUME TypeInv, SaveInv, SettledInv, [Next]_vars, daemon'.on, ~crossed'
             PROVE  /\ daemon'.watched = Present(file'.has) \/ \E c \in Threads : job'[c].at = "stop"
                    /\ daemon'.gen = gen'
                    /\ \A c \in Threads : job'[c].at # "wipe"
  BY DEF SettledInv, Present
<1>1. ~crossed  BY RootsChange
<1>2. ~Crash  BY DEF Crash, Off
<1>3. \A c \in Threads : ~Stop(c)  BY StopIs
<1>4. \A c \in Threads : Hop(c)  BY Hops
<1>5. CASE daemon' = daemon
  <2>1. daemon.gen = gen /\ \A c \in Threads : job[c].at # "wipe"  BY <1>1, <1>5 DEF SettledInv
  <2>2. \A c \in Threads : job'[c].at # "wipe"  BY <1>3, <1>4, <2>1 DEF Hop
  <2>3. gen' = gen
    <3>1. \A c \in Threads : ~Wipe(c)  BY <2>1 DEF Wipe
    <3>2. UNCHANGED stores => gen' = gen  BY DEF stores
    <3>3. Expire => gen' = gen  BY DEF Expire, ForgetSize
    <3>4. ASSUME NEW c \in Threads, ClearSize(c) \/ Reset(c) \/ KeepSize(c) \/ Check(c)
                 \/ RebuildStore(c) \/ Mark(c) \/ UseStore(c)
          PROVE  gen' = gen
      BY <3>4 DEF ClearSize, Reset, Finally, ForgetSize, KeepSize, Store, Check, Checked, RebuildStore,
         Rebuild, Mark, Recorded, UseStore, Use
    <3> QED  BY <1>2, <3>1, <3>2, <3>3, <3>4, Changes
  <2>4. daemon'.watched = Present(file'.has) \/ \E c \in Threads : job'[c].at = "stop"
    <3>1. CASE \E c \in Threads : job[c].at = "stop"  BY <1>2, <1>3, <1>4, <3>1 DEF Hop
    <3>2. CASE daemon.watched = Present(file.has)  BY <1>5, <3>2, RootsChange DEF Present
    <3> QED  BY <1>1, <1>5, <3>1, <3>2 DEF SettledInv
  <2> QED  BY <1>5, <2>1, <2>2, <2>3, <2>4
<1>6. ASSUME NEW c \in Threads, Start(c)
      PROVE  /\ daemon'.watched = Present(file'.has)
             /\ daemon'.gen = gen'
             /\ \A d \in Threads : job'[d].at # "wipe"
  <2>1. /\ file.is \notin {"empty", "torn"} /\ \A d \in Threads : job[d].at # "wipe"
    BY <1>6 DEF Start
  <2>2. \A d \in Threads : job'[d].at # "wipe"  BY <1>3, <1>4, <2>1 DEF Hop
  <2>3. gen' = gen /\ job[c].at = "start"  BY <1>6 DEF Start, stores
  <2> DEFINE s == IF file.is = "whole" THEN file.has ELSE Default
  <2>4. CASE daemon' = [on |-> TRUE, watched |-> Present(s), gen |-> gen]
    <3>1. daemon'.watched = Present(s) /\ daemon'.gen = gen  BY <2>4
    <3>2. file.is \in {"absent", "whole"} /\ file \in FileStates  BY <2>1, ThreadIs
    <3>3. file.has = s  BY <3>2 DEF SaveInv
    <3>4. file'.has = file.has  BY <1>6, <3>2 DEF Start, FileStates
    <3> QED  BY <2>2, <2>3, <3>1, <3>3, <3>4
  <2> QED  BY <1>6, <2>4 DEF Start
<1> QED  BY <1>2, <1>3, <1>5, <1>6, Changes

\* However adds, removals, resets and launches interleave: once all is quiet, and nobody
\* has met a save or a reset, the daemon watches what is saved and works on the files
\* that are there.
THEOREM SettlesAsSaved == Spec => []SettledAsSaved
<1>1. Spec => [](TypeInv /\ SaveInv /\ SettledInv)
  BY TypeInit, TypeStep, SaveInit, SaveStep, SettledInit, SettledStep, PTL DEF Spec
<1>2. SettledInv => SettledAsSaved  BY DEF SettledInv, SettledAsSaved, Present
<1> QED  BY <1>1, <1>2, PTL

(***************************************************************************)
(* Which names go                                                          *)
(***************************************************************************)
\* A root that was saved stays saved, or is among the dropped from then on.
LEMMA KnownStays ==
  ASSUME TypeInv, SaveInv, [Next]_vars
  PROVE  /\ dropped \subseteq dropped'
         /\ \A r : Known(r) => r \in file'.has.roots \cup dropped'
<1>1. dropped \subseteq dropped'
  <2>1. ASSUME NEW c \in Threads, LoadFails(c) \/ Create(c) \/ Write(c) \/ Start(c)
        PROVE  dropped \subseteq dropped'
    BY <2>1 DEF LoadFails, Create, Write, Start
  <2>2. Crash => dropped' = dropped  BY DEF Crash
  <2> QED  BY <2>1, <2>2, Changes
<1>2. ASSUME NEW r, Known(r) PROVE r \in file'.has.roots \cup dropped'
  <2>1. CASE r \in dropped  BY <1>1, <2>1
  <2>2. CASE r \in file.has.roots
    <3>1. CASE file'.has = file.has  BY <2>2, <3>1
    <3>2. CASE \E c \in Threads : Create(c)  BY <2>2, <3>2 DEF Create
    <3>3. CASE \E c \in Threads : Write(c) /\ file'.has = job[c].seen  BY <2>2, <3>3 DEF Write
    <3> QED  BY <3>1, <3>2, <3>3, HasChanges
  <2> QED  BY <1>2, <2>1, <2>2 DEF Known
<1> QED  BY <1>1, <1>2

\* What matters of a removal carries over to the next state.
LEMMA RemovingStays ==
  ASSUME TypeInv, SaveInv, [Next]_vars, NEW d \in Threads, Removing(job[d]),
         LET n == job'[d]
             j == job[d] IN
         /\ n.op = j.op /\ n.root = j.root /\ n.seen = j.seen
         /\ n.at \in {"open", "write"} => j.at \in {"open", "write"} /\ n.late = j.late
         /\ n.at \in {"stop", "start", "purge"} => j.op # "remove" \/ j.at \in {"stop", "start", "purge"}
  PROVE  Removing(job[d])'
<1>1. dropped \subseteq dropped' /\ (Known(job[d].root) => job[d].root \in file'.has.roots \cup dropped')
  BY KnownStays
<1> QED  BY <1>1 DEF Removing, Known

LEMMA DecideRemoves ==
  ASSUME NEW j \in Jobs, NEW s \in Settings, Shaped(j), j.at \in {"load", "create"},
         Decide(j, s).op = "remove"
  PROVE  LET n == Decide(j, s) IN
         n.at = "open" /\ n.root \notin n.seen.roots /\ (n.late => n.root \in s.roots)
<1> DEFINE n == Decide(j, s)
<1>1. /\ n.at = "open" /\ n.op = j.op /\ n.root = j.root
      /\ n.late = (j.root \in s.roots) /\ n.seen = [s EXCEPT !.roots = s.roots \ {j.root}]
  BY DecideIs DEF Fresh
<1> HIDE DEF n
<1>2. n.seen.roots = s.roots \ {j.root}  BY <1>1 DEF Settings
<1>3. n.late => j.root \in s.roots  BY <1>1, Zenon
<1>4. n.at = "open" /\ n.root \notin n.seen.roots /\ (n.late => n.root \in s.roots)
  BY <1>1, <1>2, <1>3
<1> QED  BY <1>4 DEF n

LEMMA StepRemoves ==
  ASSUME TypeInv, SaveInv, GoneInv, [Next]_vars, NEW c \in Threads, Step(c)
  PROVE  Removing(job[c])'
<1>1. /\ job[c] \in Jobs /\ Shaped(job[c]) /\ Removing(job[c])
      /\ job'[c].op # "remove" => Removing(job[c])'
  BY ThreadIs DEF GoneInv, Removing
<1>2. dropped \subseteq dropped' /\ (Known(job[c].root) => job[c].root \in file'.has.roots \cup dropped')
  BY KnownStays
<1>3. Done.op = "none" /\ Default.roots = {}  BY DefaultIs DEF Done, Idle
<1>4. CASE Load(c)
  <2>1. PICK s \in Settings, j \in Jobs :
          /\ s \in {Default, file.has} /\ file' = file /\ job'[c] = Decide(j, s) /\ Shaped(j)
          /\ j.at = "load"
    BY <1>4, LoadIs
  <2>2. CASE job'[c].op = "remove"
    <3>1. /\ job'[c].at = "open" /\ job'[c].root \notin job'[c].seen.roots
          /\ job'[c].late => job'[c].root \in s.roots
      BY <2>1, <2>2, DecideRemoves
    <3>2. job'[c].late => job'[c].root \in file'.has.roots  BY <1>3, <2>1, <3>1
    <3> QED  BY <3>1, <3>2 DEF Removing, Known
  <2> QED  BY <1>1, <2>2
<1>5. CASE Create(c)
  <2>1. job'[c] = Decide(job[c], Default) /\ job[c].at = "create" /\ Default \in Settings
    BY <1>5, CreateIs, DefaultIs
  <2>2. CASE job'[c].op = "remove"
    <3>1. /\ job'[c].at = "open" /\ job'[c].root \notin job'[c].seen.roots
          /\ job'[c].late => job'[c].root \in Default.roots
      BY <1>1, <2>1, <2>2, DecideRemoves
    <3> QED  BY <1>3, <3>1 DEF Removing
  <2> QED  BY <1>1, <2>2
<1>6. CASE LoadFails(c)
  <2>1. job'[c].op \in {"launch", "none"}  BY <1>6, LoadFailsIs
  <2> QED  BY <1>1, <2>1
<1>7. CASE LoadCreates(c) \/ Open(c)
  <2>1. PICK place \in {"create", "write"} :
          Opens(c, place) /\ (place = "write" => job[c].at = "open")
    BY <1>7 DEF LoadCreates, Open
  <2>2. /\ job'[c].op = job[c].op /\ job'[c].root = job[c].root /\ job'[c].seen = job[c].seen
        /\ job'[c].late = job[c].late /\ job'[c].at = place
    BY <2>1, OpensIs
  <2> QED  BY <1>1, <2>1, <2>2, RemovingStays
<1>8. CASE Scan(c)
  <2>1. job[c].op \in {"connect", "reconnect"}  BY <1>1, <1>8, ScanIs DEF Shaped
  <2>2. job'[c].op # "remove"  BY <1>8, <2>1, ScanIs DEF Fresh
  <2> QED  BY <1>1, <2>2
<1>9. CASE Write(c)
  <2>1. /\ job'[c] = Saved(job[c]) /\ job[c].at = "write"
        /\ dropped' = dropped \cup (file.has.roots \ job[c].seen.roots)
    BY <1>9, WriteIs
  <2>2. CASE job'[c].op = "remove"
    <3>1. /\ job'[c].at = "stop" /\ job[c].op = "remove" /\ job'[c].root = job[c].root
          /\ Refreshes(job[c])
      BY <1>1, <2>1, <2>2, SavedIs DEF Fresh
    <3>2. job[c].late /\ Known(job[c].root) /\ job[c].root \notin job[c].seen.roots
      BY <1>1, <2>1, <3>1 DEF Refreshes, Removing
    <3>3. job[c].root \in dropped'  BY <2>1, <3>2 DEF Known
    <3> QED  BY <3>1, <3>3 DEF Removing
  <2> QED  BY <1>1, <2>2
<1>10. CASE Stop(c)
  <2>1. /\ job[c].at = "stop" /\ Keeping(job'[c], job[c]) /\ job'[c].at \in {"wipe", "start"}
    BY <1>10, StopIs
  <2> QED  BY <1>1, <2>1, RemovingStays DEF Keeping
<1>11. CASE Start(c) \/ StartAgain(c)
  <2>1. job[c].at = "start" /\ job' = [job EXCEPT ![c] = Running(@)]  BY <1>11 DEF Start, StartAgain
  <2>2. CASE Keeping(job'[c], job[c]) /\ job'[c].at \in {"forget", "purge"}
    BY <1>1, <2>1, <2>2, RemovingStays DEF Keeping
  <2>3. CASE Fresh(job'[c], job[c])  BY <1>1, <2>3 DEF Fresh
  <2> QED  BY <2>1, <2>2, <2>3, RunningIs
<1>12. CASE Rewalk(c)
  <2>1. Keeping(job'[c], job[c]) /\ job'[c].at \in {"walk", "reload"}  BY <1>12, RewalkIs
  <2> QED  BY <1>1, <2>1, RemovingStays DEF Keeping
<1>13. CASE Reset(c)  BY <1>1, <1>3, <1>13, ResetIs
<1>14. CASE Size(c) \/ Launch(c) \/ Check(c)
  <2>1. \/ job'[c] = Done
        \/ Keeping(job'[c], job[c]) /\ job'[c].at \in {"store", "check", "rebuild", "use"}
    BY <1>14, SizeIs, LaunchIs, CheckIs
  <2>2. CASE job'[c] = Done  BY <1>1, <1>3, <2>2
  <2>3. CASE Keeping(job'[c], job[c]) /\ job'[c].at \in {"store", "check", "rebuild", "use"}
    BY <1>1, <2>3, RemovingStays DEF Keeping
  <2> QED  BY <2>1, <2>2, <2>3
<1>15. CASE Purge(c) \/ Reload(c) \/ KeepSize(c) \/ UseStore(c)
  BY <1>1, <1>3, <1>15, OtherMoves
<1>16. CASE Wipe(c) \/ ClearSize(c) \/ RebuildStore(c) \/ Mark(c)
  <2>1. Keeping(job'[c], job[c]) /\ job'[c].at \in {"clear", "start", "mark", "use"}
    BY <1>16, OtherMoves
  <2>2. job'[c].at = "start" => job[c].op # "remove"
    <3>1. job'[c].at = "start" => ClearSize(c)  BY <1>16, OtherMoves
    <3>2. ClearSize(c) => job[c].op = "reset"  BY <1>1 DEF ClearSize, Shaped
    <3> QED  BY <3>1, <3>2
  <2> QED  BY <1>1, <2>1, <2>2, RemovingStays DEF Keeping
<1> QED  BY <1>4, <1>5, <1>6, <1>7, <1>8, <1>9, <1>10, <1>11, <1>12, <1>13, <1>14, <1>15, <1>16 DEF Step

LEMMA GoneInit == Init => GoneInv
<1> SUFFICES ASSUME Init PROVE GoneInv  OBVIOUS
<1>1. \A c \in Threads : job[c] \in {Booting, Idle, Done}  BY DEF Init
<1>2. Booting.op = "peek" /\ Idle.op = "none" /\ Done.op = "none"  BY DEF Booting, Idle, Done
<1>3. \A c \in Threads : Removing(job[c])  BY <1>1, <1>2 DEF Removing
<1> QED  BY <1>3 DEF Init, GoneInv

LEMMA GoneStep == TypeInv /\ SaveInv /\ GoneInv /\ [Next]_vars => GoneInv'
<1> SUFFICES ASSUME TypeInv, SaveInv, GoneInv, [Next]_vars PROVE GoneInv'  OBVIOUS
<1>1. /\ dropped \subseteq dropped' /\ \A r : Known(r) => r \in file'.has.roots \cup dropped'
  BY KnownStays
<1>2. ASSUME NEW d \in Threads PROVE Removing(job[d])'
  <2>1. Removing(job[d])  BY DEF GoneInv
  <2>2. CASE Step(d)  BY <2>2, StepRemoves
  <2>3. CASE Crash
    <3>1. job'[d].op \in {"none", "peek"}  BY <2>3, CrashIs
    <3> QED  BY <3>1 DEF Removing
  <2>4. CASE ~Step(d) /\ ~Crash /\ (d \in Calls => ~Page(d))
    <3>1. /\ job'[d].at = job[d].at /\ job'[d].op = job[d].op /\ job'[d].root = job[d].root
          /\ job'[d].seen = job[d].seen /\ (job[d].at # "store" => job'[d].late = job[d].late)
      BY <2>4, OthersStay
    <3> QED  BY <2>1, <3>1, RemovingStays
  <2>5. CASE d \in Calls /\ Page(d)
    <3>1. job'[d].op = "remove" => job'[d].at = "load"  BY <2>5, PageIs DEF Begun
    <3> QED  BY <3>1 DEF Removing
  <2> QED  BY <2>2, <2>3, <2>4, <2>5
<1>3. ASSUME NEW w \in walks' PROVE w.root \in file'.has.roots \cup dropped'
  <2>1. CASE w \in walks  BY <1>1, <2>1 DEF GoneInv
  <2>2. CASE w \notin walks
    <3>1. PICK c \in Threads : Start(c) \/ Reload(c)
      <4>1. Crash => walks' = {}  BY DEF Crash
      <4>2. (\E v \in walks : Thread(v)) => walks' \subseteq walks  BY DEF Thread, Found, GiveUp, Condemn
      <4> QED  BY <2>2, <4>1, <4>2, Changes
    <3>2. PICK s \in {Default, file.has} : w \in Walking(s)
      <4>1. CASE Start(c)  BY <2>2, <4>1 DEF Start
      <4>2. CASE Reload(c)  BY <2>2, <4>2 DEF Reload
      <4> QED  BY <3>1, <4>1, <4>2
    <3>3. w.root \in s.roots  BY <3>2 DEF Walking, Present
    <3>4. Known(w.root)  BY <3>2, <3>3, DefaultIs DEF Known
    <3> QED  BY <1>1, <3>4
  <2> QED  BY <2>1, <2>2
<1>4. ASSUME NEW w \in sweeps' PROVE w.blank \/ w.root \in dropped'
  <2>1. CASE w \in sweeps  BY <1>1, <2>1 DEF GoneInv
  <2>2. CASE w \notin sweeps
    <3>1. PICK v \in walks : Condemn(v)
      <4>1. Crash => sweeps' = {}  BY DEF Crash
      <4>2. (\E v \in sweeps : Sweep(v)) => sweeps' \subseteq sweeps  BY DEF Sweep
      <4> QED  BY <2>2, <4>1, <4>2, Changes
    <3>2. w = [root |-> v.root, blank |-> file.is = "empty"] /\ ~IsActive(v.root)
      BY <2>2, <3>1 DEF Condemn
    <3>3. CASE file.is = "empty"
      <4>1. w.blank = (file.is = "empty")  BY <3>2
      <4> QED  BY <3>3, <4>1, Zenon
    <3>4. CASE file.is # "empty"
      <4>1. file.is \in {"absent", "whole"} /\ file \in FileStates
        BY <3>2, <3>4 DEF IsActive, Unreadable, TypeInv, TypeOK, FileStates
      <4>2. v.root \notin file.has.roots
        <5>1. CASE file.is = "absent"  BY <5>1, DefaultIs DEF SaveInv
        <5>2. CASE file.is = "whole"  BY <3>2, <5>2 DEF IsActive, Reads
        <5> QED  BY <4>1, <5>1, <5>2
      <4>3. v.root \in dropped  BY <4>2 DEF GoneInv, Known
      <4> QED  BY <1>1, <3>2, <4>3
    <3> QED  BY <3>3, <3>4
  <2> QED  BY <2>1, <2>2
<1> QED  BY <1>2, <1>3, <1>4 DEF GoneInv, Known

LEMMA SweepStep ==
  TypeInv /\ GoneInv /\ [Next]_vars =>
    \A r \in (names \ names') \cap file.has.roots :
       \/ \E q \in dropped : Overlap(q, r)
       \/ \E w \in sweeps \ sweeps' : w.blank
       \/ gen' # gen
<1> SUFFICES ASSUME TypeInv, GoneInv, [Next]_vars, NEW r \in names, r \notin names'
             PROVE  \/ \E q \in dropped : Overlap(q, r)
                    \/ \E w \in sweeps \ sweeps' : w.blank
                    \/ gen' # gen
  OBVIOUS
<1>1. ASSUME NEW c \in Threads, Purge(c) PROVE \E q \in dropped : Overlap(q, r)
  <2>1. job[c].at = "purge" /\ job[c].op = "remove"  BY <1>1, ThreadIs DEF Purge, Shaped
  <2>2. job[c].root \in dropped  BY <2>1 DEF GoneInv, Removing
  <2>3. Overlap(r, job[c].root)  BY <1>1 DEF Purge, Without
  <2> QED  BY <2>2, <2>3 DEF Overlap
<1>2. ASSUME NEW w \in sweeps, Sweep(w)
      PROVE  (\E q \in dropped : Overlap(q, r)) \/ (w.blank /\ w \notin sweeps')
  <2>1. Overlap(r, w.root)  BY <1>2 DEF Sweep, Without
  <2>2. w.blank \/ w.root \in dropped  BY DEF GoneInv
  <2>3. w \notin sweeps'  BY <1>2 DEF Sweep
  <2> QED  BY <2>1, <2>2, <2>3 DEF Overlap
<1>3. ASSUME NEW c \in Threads, Wipe(c) PROVE gen' # gen
  <2>1. gen \in Nat  BY DEF TypeInv, TypeOK
  <2> QED  BY <1>3, <2>1 DEF Wipe, Wiped
<1>4. \A c \in Threads : ~Rewalk(c)  BY RewalkIs
<1>5. \A w \in walks : ~Found(w)  BY DEF Found
<1> QED  BY <1>1, <1>2, <1>3, <1>4, <1>5, Changes

\* However scans, removals and resets interleave: whoever deletes the names of a folder
\* that is still registered has a removal, a truncated settings file or a reset to show.
THEOREM NamesGoWithRoots == Spec => SweptOnlyIfGone
<1>1. Spec => [](TypeInv /\ SaveInv /\ GoneInv)
  BY TypeInit, TypeStep, SaveInit, SaveStep, GoneInit, GoneStep, PTL DEF Spec
<1>2. TypeInv /\ SaveInv /\ GoneInv /\ [Next]_vars =>
        [\A r \in (names \ names') \cap file.has.roots :
           \/ \E q \in dropped : Overlap(q, r)
           \/ \E w \in sweeps \ sweeps' : w.blank
           \/ gen' # gen]_vars
  BY SweepStep
<1> QED  BY <1>1, <1>2, PTL DEF Spec, SweptOnlyIfGone

(***************************************************************************)
(* The folders of a first launch                                           *)
(***************************************************************************)
LEMMA CoveredStays ==
  ASSUME NEW d, NEW R, NEW S, Covered(d, R), R \subseteq S PROVE Covered(d, S)
BY DEF Covered

\* One folder after the other, until none is left.
LEMMA NextNeat ==
  ASSUME NEW j \in Jobs, NEW n \in {AddNext(j), Onward(j), Failed(j)}
  PROVE  Neat(n) /\ n.op \notin {"peek", "remove"}
<1>1. CASE n = AddNext(j)
  <2>1. \/ n.op = "add" /\ n.at = "load"
        \/ n.op = "connect" /\ n.todo = {}
        \/ n.op = "none" /\ n.todo = {}
    BY <1>1, AddNextIs, BootIs
  <2> QED  BY <2>1 DEF Neat
<1>2. Neat(Launching) /\ Launching.op = "launch" /\ Neat(Done) /\ Done.op = "none"
  BY BootIs DEF Neat
<1>3. n \in {AddNext(j), Launching, Done}  BY DEF Onward, Failed
<1> QED  BY <1>1, <1>2, <1>3

LEMMA DecideNeat ==
  ASSUME NEW j \in Jobs, NEW s \in Settings, Shaped(j), j.at \in {"load", "create"}, Neat(j)
  PROVE  Neat(Decide(j, s)) /\ Decide(j, s).op # "peek"
<1> DEFINE n == Decide(j, s)
           k == [j EXCEPT !.todo = IF s.roots = {} THEN Defaults ELSE {}]
<1>1. k \in Jobs  BY DEF Jobs
<1> HIDE DEF n, k
<1>2. CASE /\ n.at = "open" /\ n.op = j.op /\ n.root = j.root /\ n.todo = j.todo
           /\ \/ j.op = "add" /\ n.seen = [s EXCEPT !.roots = s.roots \cup {j.root}]
              \/ j.op \in {"remove", "role", "ext"}
  <2>1. j.op = "add" => n.root \in n.seen.roots
    <3>1. j.op = "add" => n.seen.roots = s.roots \cup {j.root}  BY <1>2 DEF Settings
    <3> QED  BY <1>2, <3>1
  <2> QED  BY <1>2, <2>1 DEF Neat, n
<1>3. CASE n.op = j.op /\ n.todo = j.todo /\ j.op \in {"connect", "reconnect", "rescan"}
  BY <1>3 DEF Neat, n
<1>4. CASE n = AddNext(k) \/ n = Onward(j)  BY <1>1, <1>4, NextNeat DEF n
<1> QED  BY <1>2, <1>3, <1>4, DecideIs DEF n, k

\* What a step of a thread does to its operation, and to what it has still to add.
LEMMA StepNeat ==
  ASSUME TypeInv, NEW c \in Threads, Step(c), Neat(job[c])
  PROVE  Neat(job'[c]) /\ (job[c].op # "peek" => job'[c].op # "peek")
<1> DEFINE Kept == Neat(job'[c]) /\ (job[c].op # "peek" => job'[c].op # "peek")
<1> SUFFICES Kept  OBVIOUS
<1>1. job[c] \in Jobs /\ Shaped(job[c])  BY ThreadIs
<1>2. ASSUME job'[c] \in {Done, Onward(job[c]), Failed(job[c])} PROVE Kept
  <2>1. CASE job'[c] = Done
    <3>1. Done.op = "none" /\ Done.todo = {}  BY DEF Done, Idle
    <3> QED  BY <2>1, <3>1 DEF Neat
  <2>2. CASE job'[c] \in {Onward(job[c]), Failed(job[c])}  BY <1>1, <2>2, NextNeat
  <2> QED  BY <1>2, <2>1, <2>2
<1>3. ASSUME Keeping(job'[c], job[c]), job[c].op # "add" \/ job'[c].at \in {"stop", "start"} PROVE Kept
  BY <1>3 DEF Keeping, Neat
<1>4. CASE Load(c)
  <2>1. PICK s \in Settings, j \in Jobs :
          /\ j.op = job[c].op /\ j.root = job[c].root /\ j.seen = job[c].seen /\ j.todo = job[c].todo
          /\ j.at = "load" /\ Shaped(j) /\ job'[c] = Decide(j, s)
    BY <1>4, LoadIs
  <2>2. Neat(j)  BY <2>1 DEF Neat
  <2> QED  BY <2>1, <2>2, DecideNeat
<1>5. CASE LoadFails(c)  BY <1>2, <1>5, ThreadIs DEF LoadFails
<1>6. CASE LoadCreates(c) \/ Open(c)
  <2>1. PICK place \in {"create", "write"} :
          Opens(c, place) /\ (place = "write" => job[c].at = "open")
    BY <1>6 DEF LoadCreates, Open
  <2>2. /\ job'[c].op = job[c].op /\ job'[c].root = job[c].root /\ job'[c].seen = job[c].seen
        /\ job'[c].todo = job[c].todo /\ job'[c].at = place
    BY <2>1, OpensIs
  <2> QED  BY <2>1, <2>2 DEF Neat
<1>7. CASE Create(c)  BY <1>1, <1>7, CreateIs, DefaultIs, DecideNeat
<1>8. CASE Scan(c)
  <2>1. job[c].op \in {"connect", "reconnect"} /\ job[c].todo = {}
    BY <1>1, <1>8, ScanIs DEF Shaped, Neat
  <2>2. CASE job'[c] \in {Failed(job[c]), Onward(job[c])}  BY <1>2, <2>2
  <2>3. CASE job'[c].op = job[c].op /\ job'[c].todo = job[c].todo  BY <2>1, <2>3 DEF Neat
  <2> QED  BY <1>8, <2>2, <2>3, ScanIs
<1>9. CASE Write(c)
  <2>1. CASE job'[c].at = "stop" /\ job'[c].op = job[c].op /\ job'[c].todo = job[c].todo
    BY <2>1 DEF Neat
  <2>2. CASE job'[c] = Onward(job[c])  BY <1>2, <2>2
  <2> QED  BY <1>1, <1>9, <2>1, <2>2, WriteIs, SavedIs
<1>10. CASE Stop(c)
  <2>1. Keeping(job'[c], job[c]) /\ (job[c].op # "reset" => job'[c].at = "start")  BY <1>10, StopIs
  <2> QED  BY <1>3, <2>1
<1>11. CASE Start(c) \/ StartAgain(c)
  <2>1. job[c].at = "start" /\ job' = [job EXCEPT ![c] = Running(@)]  BY <1>11 DEF Start, StartAgain
  <2>2. \/ job[c].op \in {"reset", "remove"} /\ Keeping(job'[c], job[c])
        \/ job'[c] \in {Done, Onward(job[c])}
    BY <2>1, RunningIs
  <2> QED  BY <1>2, <1>3, <2>2
<1>12. CASE Rewalk(c) \/ Check(c) \/ Wipe(c) \/ ClearSize(c) \/ RebuildStore(c) \/ Mark(c)
  <2>1. Keeping(job'[c], job[c])  BY <1>12, RewalkIs, CheckIs, OtherMoves
  <2>2. job[c].at \in {"walk", "check", "wipe", "clear", "rebuild", "mark"}
    BY <1>12 DEF Rewalk, Check, Wipe, ClearSize, RebuildStore, Mark
  <2>3. job[c].op # "add"  BY <2>2 DEF Neat
  <2> QED  BY <1>3, <2>1, <2>3
<1>13. CASE Size(c) \/ Launch(c)
  <2>1. job[c].op # "add"  BY <1>13 DEF Size, Launch, Neat
  <2>2. job'[c] = Done \/ Keeping(job'[c], job[c])  BY <1>13, SizeIs, LaunchIs
  <2> QED  BY <1>2, <1>3, <2>1, <2>2
<1>14. CASE Reset(c) \/ Purge(c) \/ Reload(c) \/ KeepSize(c) \/ UseStore(c)
  BY <1>2, <1>14, ResetIs, OtherMoves
<1> HIDE DEF Kept
<1> QED  BY <1>4, <1>5, <1>6, <1>7, <1>8, <1>9, <1>10, <1>11, <1>12, <1>13, <1>14 DEF Step

\* The next of the folders that are left is the one that is added now, or stays left.
LEMMA NextComes ==
  ASSUME NEW j \in Jobs, NEW i \in j.todo, NEW n, n = AddNext(j) PROVE Coming(n, i)
<1>1. /\ n.op = "add" /\ n.at = "load"
      /\ \E h \in j.todo : n.root = Places[h].root /\ n.todo = j.todo \ {h}
  BY AddNextIs
<1>2. PICK h \in j.todo : n.root = Places[h].root /\ n.todo = j.todo \ {h}  BY <1>1
<1> QED  BY <1>1, <1>2 DEF Coming

\* Settings without a root that covers the folder are what it is added to.
LEMMA DecideComes ==
  ASSUME NEW j \in Jobs, NEW s \in Settings, Shaped(j), j.at \in {"load", "create"}, j.op = "add",
         NEW i \in Defaults, i \in j.todo \/ j.root = Places[i].root,
         NEW n, n = Decide(j, s)
  PROVE  Covered(Places[i].root, s.roots) \/ Coming(n, i)
<1>1. CASE n.at = "open" /\ n.op = j.op /\ n.root = j.root /\ n.todo = j.todo
  BY <1>1 DEF Coming
<1>2. CASE n = Onward(j) /\ ~Addable(s, j.root)
  <2>1. n = AddNext(j)  BY <1>2 DEF Onward
  <2>2. CASE i \in j.todo  BY <2>1, <2>2, NextComes
  <2>3. CASE j.root = Places[i].root  BY <1>2, <2>3 DEF Addable, Covered
  <2> QED  BY <2>2, <2>3
<1> QED  BY <1>1, <1>2, DecideIs

\* While nobody meets anybody, and nothing is dropped, what the file registers only grows.
LEMMA RootsGrow ==
  ASSUME TypeInv, SaveInv, [Next]_vars, dropped' = {}
  PROVE  dropped = {} /\ file.has.roots \subseteq file'.has.roots
<1>1. dropped = {}  BY KnownStays
<1>2. ASSUME NEW r \in file.has.roots PROVE r \in file'.has.roots
  BY KnownStays DEF Known
<1> QED  BY <1>1, <1>2

\* The launch goes on with its own step: what was to come still is, or is covered.
LEMMA BootComes ==
  ASSUME TypeInv, SaveInv, OfferInv, [Next]_vars, Step("boot"), ~crossed', dropped' = {},
         NEW i \in Defaults, Coming(job["boot"], i)
  PROVE  Covered(Places[i].root, file'.has.roots) \/ Coming(job["boot"], i)'
<1> DEFINE b == job["boot"]
           Kept == Covered(Places[i].root, file'.has.roots) \/ Coming(job["boot"], i)'
<1> SUFFICES Kept  OBVIOUS
<1>1. "boot" \in Threads /\ b \in Jobs /\ Shaped(b) /\ Neat(b)  BY ThreadIs DEF Threads, OfferInv
<1>2. /\ b.op = "add" /\ b.at \in {"load", "create", "open", "write", "stop", "start"}
      /\ i \in b.todo \/ (b.root = Places[i].root /\ b.at \notin {"stop", "start"})
  BY <1>1 DEF Coming, Neat
<1>3. file.has.roots \subseteq file'.has.roots /\ file.has \in Settings  BY RootsGrow, ThreadIs, <1>1
<1>4. ASSUME NEW s \in Settings, s.roots \subseteq file.has.roots, NEW j \in Jobs, Shaped(j),
             j.at \in {"load", "create"}, j.op = b.op, j.todo = b.todo, j.root = b.root,
             b.at \in {"load", "create"}, job'["boot"] = Decide(j, s)
      PROVE  Kept
  <2>1. CASE Covered(Places[i].root, s.roots)
    <3>1. s.roots \subseteq file'.has.roots  BY <1>3, <1>4
    <3> QED  BY <2>1, <3>1, CoveredStays
  <2>2. CASE Coming(job'["boot"], i)  BY <2>2 DEF Coming
  <2>3. i \in j.todo \/ j.root = Places[i].root  BY <1>2, <1>4
  <2> HIDE DEF Kept
  <2> QED  BY <1>2, <1>4, <2>1, <2>2, <2>3, DecideComes
<1>5. CASE Load("boot")
  <2>1. PICK s \in Settings, j \in Jobs :
          /\ s \in {Default, file.has} /\ j.op = b.op /\ j.root = b.root /\ j.todo = b.todo
          /\ j.at = "load" /\ Shaped(j) /\ job'["boot"] = Decide(j, s) /\ b.at = "load"
    BY <1>1, <1>5, LoadIs
  <2>2. s.roots \subseteq file.has.roots  BY <2>1, DefaultIs
  <2> HIDE DEF b, Kept
  <2> QED  BY <1>4, <2>1, <2>2
<1>6. CASE LoadFails("boot")  BY <1>6 DEF LoadFails
<1>7. CASE LoadCreates("boot") \/ Open("boot")
  <2>1. PICK place \in {"create", "write"} : Opens("boot", place)  BY <1>7 DEF LoadCreates, Open
  <2>2. /\ job'["boot"].op = b.op /\ job'["boot"].root = b.root
        /\ job'["boot"].todo = b.todo /\ job'["boot"].at = place
    BY <1>1, <2>1, OpensIs
  <2> QED  BY <1>2, <2>2, <1>7 DEF Coming, LoadCreates, Open
<1>8. CASE Create("boot")
  <2>1. job'["boot"] = Decide(b, Default) /\ b.at = "create"  BY <1>1, <1>8, CreateIs
  <2>2. Default \in Settings /\ Default.roots \subseteq file.has.roots  BY DefaultIs
  <2> HIDE DEF b, Kept
  <2> QED  BY <1>1, <1>4, <2>1, <2>2
<1>9. CASE Write("boot")
  <2>1. /\ job'["boot"] = Saved(b) /\ b.at = "write" /\ Dump(b.seen) /\ ~b.met
    <3>1. ~b.met  BY <1>9 DEF Write
    <3> QED  BY <1>1, <1>9, <3>1, WriteIs
  <2>2. job'["boot"].todo = b.todo  BY <1>1, <1>2, <2>1, SavedIs DEF Refreshes
  <2>3. CASE i \in b.todo  BY <2>2, <2>3 DEF Coming
  <2>4. CASE b.root = Places[i].root
    <3>1. file.is = "empty"  BY <1>1, <2>1 DEF SaveInv, Faithful, Filling
    <3>2. file'.has = b.seen  BY <2>1, <3>1 DEF Dump
    <3>3. b.root \in file'.has.roots  BY <1>1, <1>2, <2>1, <3>2 DEF Neat
    <3> QED  BY <2>4, <3>3 DEF Covered, Overlap
  <2> QED  BY <1>2, <2>3, <2>4
<1>10. CASE Stop("boot")
  <2>1. Keeping(job'["boot"], b) /\ b.at = "stop"  BY <1>1, <1>10, StopIs
  <2> QED  BY <1>2, <2>1 DEF Coming, Keeping
<1>11. CASE Start("boot") \/ StartAgain("boot")
  <2>1. b.at = "start" /\ job' = [job EXCEPT !["boot"] = Running(@)]  BY <1>11 DEF Start, StartAgain
  <2>2. job'["boot"] = Onward(b)  BY <1>1, <1>2, <2>1, RunningIs
  <2>3. job'["boot"] = AddNext(b) /\ i \in b.todo  BY <1>2, <2>1, <2>2 DEF Onward
  <2>4. Coming(job'["boot"], i)  BY <1>1, <2>3, NextComes
  <2> QED  BY <2>4 DEF Coming
<1>12. ~Scan("boot") /\ ~Purge("boot") /\ ~Rewalk("boot") /\ ~Reload("boot") /\ ~Wipe("boot")
       /\ ~ClearSize("boot") /\ ~Reset("boot") /\ ~Size("boot") /\ ~KeepSize("boot")
       /\ ~Launch("boot") /\ ~Check("boot") /\ ~RebuildStore("boot") /\ ~Mark("boot") /\ ~UseStore("boot")
  BY <1>2 DEF Scan, Purge, Rewalk, Reload, Wipe, ClearSize, Reset, Size, KeepSize, Launch, Check,
     RebuildStore, Mark, UseStore
<1> HIDE DEF Kept
<1> QED  BY <1>5, <1>6, <1>7, <1>8, <1>9, <1>10, <1>11, <1>12 DEF Step

LEMMA OfferInit == Init => OfferInv
<1> SUFFICES ASSUME Init PROVE OfferInv  OBVIOUS
<1>1. \A c \in Threads : job[c] \in {Booting, Idle, Done} /\ (c \in Calls => job[c] \in {Idle, Done})
  BY Scope DEF Init
<1>2. /\ Booting.op = "peek" /\ Idle.op = "none" /\ Done.op = "none"
      /\ Booting.todo = {} /\ Idle.todo = {} /\ Done.todo = {}
  BY DEF Booting, Idle, Done
<1>3. Neat(Booting) /\ Neat(Idle) /\ Neat(Done)  BY <1>2 DEF Neat
<1>4. ~offered  BY DEF Init
<1> QED  BY <1>1, <1>2, <1>3, <1>4 DEF OfferInv, Threads

LEMMA OfferStep == TypeInv /\ SaveInv /\ OfferInv /\ [Next]_vars => OfferInv'
<1> SUFFICES ASSUME TypeInv, SaveInv, OfferInv, [Next]_vars PROVE OfferInv'  OBVIOUS
<1> DEFINE b == job["boot"]
<1>1. "boot" \in Threads /\ "boot" \notin Calls /\ b \in Jobs  BY Scope, ThreadIs DEF Threads
<1>2. ASSUME NEW c \in Threads PROVE Neat(job'[c])
  <2>1. CASE Step(c)  BY <2>1, StepNeat DEF OfferInv
  <2>2. CASE Crash
    <3>1. job'[c].op \in {"none", "peek"} /\ job'[c].todo = {}  BY <2>2, CrashIs
    <3> QED  BY <3>1 DEF Neat
  <2>3. CASE c \in Calls /\ Page(c)
    <3>1. Begun(job'[c])  BY <2>3, PageIs
    <3> QED  BY <3>1 DEF Begun, Neat
  <2>4. CASE ~Step(c) /\ ~Crash /\ (c \in Calls => ~Page(c))
    <3>1. /\ job'[c].at = job[c].at /\ job'[c].op = job[c].op /\ job'[c].todo = job[c].todo
          /\ job'[c].root = job[c].root /\ job'[c].seen = job[c].seen
      BY <2>4, OthersStay
    <3> QED  BY <3>1 DEF OfferInv, Neat
  <2> QED  BY <2>1, <2>2, <2>3, <2>4
<1>3. ASSUME NEW c \in Calls PROVE job'[c].op # "peek"
  <2>1. c \in Threads /\ job[c].op # "peek" /\ c # "boot"  BY <1>1 DEF Threads, OfferInv
  <2>2. CASE Step(c)  BY <2>1, <2>2, StepNeat DEF OfferInv
  <2>3. CASE Page(c)  BY <2>3, PageIs DEF Begun
  <2>4. CASE Crash
    <3>1. job'[c] \in {Idle, Done}  BY <2>1, <2>4 DEF Crash
    <3> QED  BY <3>1 DEF Idle, Done
  <2>5. CASE ~Step(c) /\ ~Page(c) /\ ~Crash  BY <2>1, <2>5, OthersStay
  <2> QED  BY <2>2, <2>3, <2>4, <2>5
<1>4. ASSUME offered', ~offered
      PROVE  /\ job'["boot"].op # "peek" /\ ~Crash
             /\ \A i \in Defaults : Coming(job["boot"], i)'
  <2>1. ~Crash  BY <1>4 DEF Crash
  <2>2. PICK c \in Threads : (Load(c) \/ Create(c)) /\ job[c].op = "peek"
    BY <1>4, <2>1, Changes DEF Load, Loaded, Create
  <2>3. c = "boot"  BY <2>2 DEF OfferInv, Threads
  <2>4. PICK j \in Jobs, s \in Settings :
          /\ j.op = "peek" /\ j.at \in {"load", "create"} /\ Shaped(j) /\ s.roots = {}
          /\ job'["boot"] = Decide(j, s)
    <3>1. CASE Load("boot")
      <4>1. PICK s \in Settings, j \in Jobs :
              /\ j.op = b.op /\ j.at = "load" /\ Shaped(j) /\ job'["boot"] = Decide(j, s)
              /\ offered' = (offered \/ (b.op = "peek" /\ s.roots = {}))
        BY <1>1, <3>1, LoadIs
      <4>2. s.roots = {}  BY <1>4, <4>1
      <4> QED  BY <2>2, <2>3, <4>1, <4>2
    <3>2. CASE Create("boot")
      <4>1. job'["boot"] = Decide(b, Default) /\ b.at = "create"  BY <1>1, <3>2, CreateIs
      <4>2. Shaped(b) /\ Default \in Settings /\ Default.roots = {}  BY <1>1, ThreadIs, DefaultIs
      <4> QED  BY <1>1, <2>2, <2>3, <4>1, <4>2
    <3> QED  BY <2>2, <2>3, <3>1, <3>2
  <2> DEFINE k == [j EXCEPT !.todo = Defaults]
  <2>5. k \in Jobs /\ k.todo = Defaults  BY DEF Jobs
  <2>6. job'["boot"] = AddNext(k)  BY <2>4 DEF Decide
  <2> HIDE DEF k
  <2>7. job'["boot"].op # "peek"  BY <2>5, <2>6, NextNeat
  <2>8. ASSUME NEW i \in Defaults PROVE Coming(job["boot"], i)'
    <3>1. Coming(job'["boot"], i)  BY <2>5, <2>6, NextComes
    <3> QED  BY <3>1 DEF Coming
  <2> QED  BY <2>1, <2>7, <2>8
<1>5. offered' => job'["boot"].op # "peek"
  <2>1. CASE ~offered  BY <1>4, <2>1
  <2>2. CASE offered
    <3>1. b.op # "peek" /\ Neat(b)  BY <1>1, <2>2 DEF OfferInv
    <3>2. CASE Step("boot")  BY <1>1, <3>1, <3>2, StepNeat
    <3>3. CASE Crash  BY <3>3 DEF Crash
    <3>4. CASE ~Step("boot") /\ ~Crash
      <4>1. job'["boot"].op = b.op  BY <1>1, <3>4, OthersStay
      <4> QED  BY <3>1, <4>1
    <3> QED  BY <3>2, <3>3, <3>4
  <2> QED  BY <2>1, <2>2
<1>6. ASSUME offered', ~crossed', dropped' = {}, NEW i \in Defaults
      PROVE  Covered(Places[i].root, file'.has.roots) \/ Coming(job["boot"], i)'
  <2>1. CASE ~offered  BY <1>4, <1>6, <2>1
  <2>2. CASE offered
    <3>1. /\ ~crossed /\ dropped = {} /\ file.has.roots \subseteq file'.has.roots
      BY <1>6, RootsChange, RootsGrow
    <3>2. CASE Covered(Places[i].root, file.has.roots)  BY <3>1, <3>2, CoveredStays
    <3>3. CASE Coming(b, i)
      <4>1. CASE Step("boot")  BY <1>6, <3>3, <4>1, BootComes
      <4>2. CASE Crash  BY <1>6, <4>2 DEF Crash
      <4>3. CASE ~Step("boot") /\ ~Crash
        <5>1. /\ job'["boot"].at = b.at /\ job'["boot"].op = b.op /\ job'["boot"].todo = b.todo
              /\ job'["boot"].root = b.root
          BY <1>1, <4>3, OthersStay
        <5> QED  BY <3>3, <5>1 DEF Coming
      <4> QED  BY <4>1, <4>2, <4>3
    <3> QED  BY <2>2, <3>1, <3>2, <3>3 DEF OfferInv
  <2> QED  BY <2>1, <2>2
<1>7. (\A c \in Threads : Neat(job[c]))' /\ \A c \in Calls : job'[c].op # "peek"
  BY <1>2, <1>3 DEF Neat
<1>8. offered' /\ ~crossed' /\ dropped' = {} =>
        \A i \in Defaults : Covered(Places[i].root, file'.has.roots) \/ Coming(job["boot"], i)'
  BY <1>6
<1> QED  BY <1>5, <1>7, <1>8 DEF OfferInv, Covered

\* Whatever the page adds while the launch adds the folders of a first start, one after
\* the other: when it is through, each of them is registered or in or around one that is.
THEOREM FirstLaunchCovers == Spec => []DefaultsCovered
<1>1. Spec => [](TypeInv /\ SaveInv /\ OfferInv)
  BY TypeInit, TypeStep, SaveInit, SaveStep, OfferInit, OfferStep, PTL DEF Spec
<1>2. OfferInv => DefaultsCovered
  <2> SUFFICES ASSUME OfferInv, offered, ~crossed, dropped = {}, job["boot"].op \notin {"peek", "add"},
                      NEW i \in Defaults
               PROVE  Covered(Places[i].root, file.has.roots)
    BY DEF DefaultsCovered
  <2>1. "boot" \in Threads  BY DEF Threads
  <2>2. ~Coming(job["boot"], i)  BY <2>1 DEF OfferInv, Neat, Coming
  <2> QED  BY <2>2 DEF OfferInv
<1> QED  BY <1>1, <1>2, PTL
=============================================================================
