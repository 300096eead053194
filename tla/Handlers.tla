------------------------------ MODULE Handlers ------------------------------
(***************************************************************************)
(* The handlers of api/methods.py that change something, as the desktop    *)
(* launcher runs them: a thread for every call of the page, one thread     *)
(* for the chores of the launch, and the daemon's scan threads, over the   *)
(* settings file (SettingsStore), the local servers (Probing), the folders *)
(* of a first launch (Discovery) and the index directory (IndexStores).    *)
(* Of the daemon only what it watches is kept; its queue and its worker    *)
(* are in IndexerDaemon.  The serial loop of the side-car allows a subset  *)
(* of these behaviours.                                                    *)
(***************************************************************************)
EXTENDS SettingsStore, IndexStores, Discovery

CONSTANTS
  Calls,         \* the calls of the page
  Typed,         \* the roots the page adds and removes
  Walked,        \* the roots whose catch-up walks and names are followed
  Chosen,        \* the roles the user sets by hand
  Earlier,       \* the settings an earlier launch may have left
  Scenarios      \* what to explore together: kinds of calls, how many, at a launch or later, crashes

\* What a server must show for a role the program connects to it.
Serves(p, x) ==
  /\ \E m \in Range(Face[p].models) : ClassifyRole(m) = x
  /\ Face[p].get = "ok"
  /\ \/ Face[p].chat \in {"ok", "slow", "4xx"}
     \/ Face[p].chat = "404" /\ Face[p].embeddings \in {"ok", "slow", "4xx"}

Usable(s) == \A x \in AllRoles : s.role[x] \in Range(Ports) => Serves(s.role[x], x)

ASSUME Scope == /\ Folders \subseteq Roots /\ Typed \subseteq Roots /\ Walked \subseteq Folders
                /\ Chosen \subseteq AllRoles /\ Earlier \subseteq Settings /\ "boot" \notin Calls

\* An earlier launch was this program too: what it left is as this one will leave it.
ASSUME Inherited == \A s \in Earlier : Apart(s) /\ Usable(s)

VARIABLES
  scenario,      \* one of them
  job,           \* what every thread is at
  daemon,        \* whether the daemon runs, what it watches, which index files it has
  walks,         \* its catch-up walks under way, with the generation they write to
  sweeps,        \* walks that found their root inactive and are to delete its names
  names,         \* the roots whose file names are all in the fast index
  news,          \* of every handler: what is saved that the settings it loaded do not have
  crossed,       \* some handler worked on settings another one was saving
  dropped,       \* roots a save has taken from the settings
  offered,       \* this launch found no roots and offers the default folders
  crashes

live == <<daemon, walks, sweeps, names>>
ghosts == <<scenario, news, crossed, dropped, offered, crashes>>
vars == <<file, stores, job, live, ghosts>>

Threads == Calls \cup {"boot"}
Kinds == {"add", "remove", "role", "connect", "reconnect", "ext", "defaults", "rescan",
          "reset", "size", "record", "clear", "open", "boot"}
\* "late": of a removal, that it removed something; of a size, that a reset returned meanwhile.
Idle == [kind |-> "none", at |-> "idle", op |-> "none", root |-> "none", role |-> "none",
         seen |-> Default, met |-> FALSE, todo |-> {}, left |-> {}, gen |-> 0, late |-> FALSE]
Done == [Idle EXCEPT !.at = "done"]
Booting == [Idle EXCEPT !.kind = "boot", !.op = "peek", !.at = "load"]

Off == [on |-> FALSE, watched |-> {}, gen |-> 0]

PresentBug(s) == s.roots

\* What is no folder at the moment is left out (daemon.py: root_missing).
Present(s) == s.roots \cap Folders

\* A first launch, or one with a user's settings.
Init ==
  /\ file \in {[is |-> "absent", has |-> Default]} \cup {[is |-> "whole", has |-> s] : s \in Earlier}
  /\ scenario \in Scenarios
  /\ StoresInit /\ (scenario.kinds \cap {"record", "clear", "open"} = {} => version = "new")
  /\ IF scenario.launch
     THEN /\ job = [c \in Threads |-> IF c = "boot" THEN Booting ELSE Idle]
          /\ daemon = Off
     ELSE /\ file.is = "whole"
          /\ job = [c \in Threads |-> IF c = "boot" THEN Done ELSE Idle]
          /\ daemon = [on |-> TRUE, watched |-> Present(file.has), gen |-> 0]
  /\ walks = {} /\ sweeps = {} /\ names = {}
  /\ news = [c \in Threads |-> {}]
  /\ crossed = FALSE /\ dropped = {} /\ offered = FALSE /\ crashes = 0

(***************************************************************************)
(* Calls                                                                   *)
(***************************************************************************)
Started == [add |-> "load", remove |-> "load", role |-> "load", connect |-> "load",
            reconnect |-> "load", ext |-> "load", rescan |-> "load", reset |-> "stop",
            size |-> "size", record |-> "check", clear |-> "check", open |-> "launch"]

MayCall(c, k) ==
  /\ job[c] = Idle /\ k \in scenario.kinds
  /\ Cardinality({d \in Calls : job[d] # Idle}) < scenario.calls

\* A call of the page.  add_root refuses what is no folder before it loads anything.
Begin(c, k, r, x) ==
  /\ MayCall(c, k)
  /\ job' = [job EXCEPT ![c] =
       IF k = "add" /\ r \notin Folders THEN Done
       ELSE [Idle EXCEPT !.kind = k, !.op = k, !.root = r, !.role = x, !.at = Started[k]]]
  /\ UNCHANGED <<file, stores, live, ghosts>>

Adding(j, i) == [j EXCEPT !.op = "add", !.root = Places[i].root, !.todo = @ \ {i}, !.at = "load",
                          !.seen = Default, !.met = FALSE]

AddNextBug(j) ==
  IF j.kind = "boot" /\ j.op # "peek" THEN [Booting EXCEPT !.op = "connect"]
  ELSE IF j.todo # {} THEN Adding(j, Min(j.todo))
  ELSE IF j.kind = "boot" THEN [Booting EXCEPT !.op = "connect"] ELSE Done

\* docpaths.add_defaults and the bootstrap add one folder after the other.
AddNext(j) ==
  IF j.todo # {} THEN Adding(j, Min(j.todo))
  ELSE IF j.kind = "boot" THEN [Booting EXCEPT !.op = "connect"] ELSE Done

\* The launch ends with daemon.start, whatever the bootstrap came to.  Autostart, which
\* every launch turns on, and the probes of endpoints.health change nothing here.
Launching == [Booting EXCEPT !.op = "launch", !.at = "start"]

Onward(j) == IF j.op = "connect" /\ j.kind = "boot" THEN Launching ELSE AddNext(j)

BeginDefaults(c) ==
  /\ MayCall(c, "defaults")
  /\ job' = [job EXCEPT ![c] = AddNext([Idle EXCEPT !.kind = "defaults", !.todo = Defaults])]
  /\ UNCHANGED <<file, stores, live, ghosts>>

\* A handler that raises: the launch goes on, a call is answered.
Failed(j) == IF j.kind = "boot" THEN Launching ELSE Done

(***************************************************************************)
(* Load, change, save                                                      *)
(***************************************************************************)
\* What a handler does with the settings s it has loaded.
Decide(j, s) ==
  CASE j.op = "add" /\ Addable(s, j.root) ->
         [j EXCEPT !.seen = [s EXCEPT !.roots = s.roots \cup {j.root}], !.at = "open"]
    [] j.op = "remove" ->
         [j EXCEPT !.seen = [s EXCEPT !.roots = s.roots \ {j.root}], !.at = "open",
                   !.late = j.root \in s.roots]
    [] j.op = "role" -> [j EXCEPT !.seen = [s EXCEPT !.role[j.role] = "user"], !.at = "open"]
    [] j.op = "ext" -> [j EXCEPT !.seen = [s EXCEPT !.ext = "other"], !.at = "open"]
    [] j.op \in {"connect", "reconnect"} /\ Need(s, j.op = "reconnect") # {} ->
         [j EXCEPT !.seen = s, !.at = "scan"]
    [] j.op = "peek" -> AddNext([j EXCEPT !.todo = IF s.roots = {} THEN Defaults ELSE {}])
    [] j.op = "rescan" -> [j EXCEPT !.left = Present(s), !.at = "walk"]
    [] OTHER -> Onward(j)

Saving(c) == \E d \in Threads \ {c} : job[d].at \in {"create", "write"}

Loaded(c, s) ==
  /\ job' = [job EXCEPT ![c] = Decide([job[c] EXCEPT !.met = file.is = "empty" \/ Saving(c)], s)]
  /\ news' = [news EXCEPT ![c] = Changed(s, file.has)]
  /\ offered' = (offered \/ (job[c].op = "peek" /\ s.roots = {}))

\* load_settings.
Load(c) ==
  /\ job[c].at = "load"
  /\ \E s \in {Default, file.has} : Reads(s) /\ Loaded(c, s)
  /\ UNCHANGED <<file, stores, live, crossed, dropped, crashes, scenario>>

LoadFails(c) ==
  /\ job[c].at \in {"load", "reload"} /\ Unreadable
  /\ job' = [job EXCEPT ![c] = Failed(@)]
  /\ crossed' = TRUE
  /\ UNCHANGED <<file, stores, live, news, dropped, offered, crashes, scenario>>

\* Whoever opens the file for writing invalidates what the others have loaded.
Opens(c, at) ==
  /\ Truncate
  /\ job' = [d \in Threads |->
       IF d = c THEN [job[d] EXCEPT !.at = at, !.met = @ \/ Saving(c)]
       ELSE [job[d] EXCEPT !.met = @ \/ job[d].at \in {"create", "scan", "open", "write"}]]

\* load_settings without a file saves the defaults first.
LoadCreates(c) ==
  /\ job[c].at = "load" /\ file.is = "absent"
  /\ Opens(c, "create")
  /\ news' = [news EXCEPT ![c] = {}]
  /\ UNCHANGED <<stores, live, crossed, dropped, offered, crashes, scenario>>

\* What a save changes is news to every other handler that has loaded its settings.
NewsAfter(c, own) ==
  [d \in Threads |->
     IF d = c THEN own
     ELSE IF job[d].at \in {"create", "scan", "open", "write"}
     THEN news[d] \cup Changed(file.has, file'.has) ELSE {}]

Create(c) ==
  /\ job[c].at = "create"
  /\ Dump(Default)
  /\ job' = [job EXCEPT ![c] = Decide(job[c], Default)]
  /\ news' = NewsAfter(c, Changed(Default, file'.has))
  /\ crossed' = (crossed \/ job[c].met)
  /\ dropped' = dropped \cup file.has.roots
  /\ offered' = (offered \/ job[c].op = "peek")
  /\ UNCHANGED <<stores, live, crashes, scenario>>

\* auto_connect: discover_local asks one port after the other, whichever servers are on.
Scan(c) ==
  /\ job[c].at = "scan"
  /\ \E on \in SUBSET Range(Ports) :
       LET j == job[c]
           force == j.op = "reconnect"
       IN  job' = [job EXCEPT ![c] =
             IF \E p \in on : Raises(Face[p]) THEN Failed(j)
             ELSE IF WorthSaving(j.seen, force, on)
             THEN [j EXCEPT !.seen = Connected(j.seen, force, on), !.at = "open"]
             ELSE Onward(j)]
  /\ UNCHANGED <<file, stores, live, ghosts>>

\* save_settings.
Open(c) ==
  /\ job[c].at = "open"
  /\ Opens(c, "write")
  /\ UNCHANGED <<stores, live, ghosts>>

Refreshes(j) == j.op = "add" \/ (j.op = "remove" /\ j.late)

SavedBug(j) ==
  IF j.op = "remove" /\ j.late
  THEN [j EXCEPT !.at = "stop", !.seen = Default, !.met = FALSE, !.late = FALSE] ELSE Onward(j)

\* A changed list of roots restarts the daemon.
Saved(j) ==
  IF Refreshes(j)
  THEN [j EXCEPT !.at = "stop", !.seen = Default, !.met = FALSE, !.late = FALSE] ELSE Onward(j)

Write(c) ==
  /\ job[c].at = "write"
  /\ Dump(job[c].seen)
  /\ job' = [job EXCEPT ![c] = Saved(@)]
  /\ crossed' = (crossed \/ job[c].met)
  /\ news' = NewsAfter(c, {})
  /\ dropped' = dropped \cup (file.has.roots \ job[c].seen.roots)
  /\ UNCHANGED <<stores, live, offered, crashes, scenario>>

(***************************************************************************)
(* The daemon                                                              *)
(***************************************************************************)
Stop(c) ==
  /\ job[c].at = "stop"
  /\ daemon' = [daemon EXCEPT !.on = FALSE, !.watched = {}]
  /\ job' = [job EXCEPT ![c].at = IF job[c].op = "reset" THEN "wipe" ELSE "start"]
  /\ UNCHANGED <<file, stores, walks, sweeps, names, ghosts>>

Running(j) ==
  CASE j.op = "reset" -> [j EXCEPT !.at = "forget"]
    [] j.op = "remove" -> [j EXCEPT !.at = "purge"]
    [] j.op = "launch" -> Done
    [] OTHER -> Onward(j)

Walking(s) == {[root |-> r, gen |-> gen] : r \in Present(s) \cap Walked}

StartAgain(c) ==
  /\ job[c].at = "start" /\ daemon.on
  /\ job' = [job EXCEPT ![c] = Running(@)]
  /\ UNCHANGED <<file, stores, live, ghosts>>

\* Without a file load_settings writes the defaults, here in one step.
Start(c) ==
  /\ job[c].at = "start" /\ ~daemon.on
  /\ file' = IF file.is = "absent" THEN [file EXCEPT !.is = "whole"] ELSE file
  /\ LET s == IF file.is = "whole" THEN file.has ELSE Default IN
       /\ daemon' = [on |-> TRUE, watched |-> Present(s), gen |-> gen]
       /\ walks' = walks \cup Walking(s)
  /\ job' = [job EXCEPT ![c] = Running(@)]
  /\ crossed' = (crossed \/ file.is \in {"empty", "torn"}
                 \/ \E d \in Threads : job[d].at = "wipe")
  /\ UNCHANGED <<stores, sweeps, names, news, dropped, offered, crashes, scenario>>

\* delete_under: a root around or inside the deleted one is complete no longer.
Without(r) == {q \in names : ~Overlap(q, r)}

\* The end of remove_root.
Purge(c) ==
  /\ job[c].at = "purge"
  /\ names' = Without(job[c].root)
  /\ job' = [job EXCEPT ![c] = Done]
  /\ UNCHANGED <<file, stores, daemon, walks, sweeps, ghosts>>

\* rescan_all walks in the handler, one root after the other, and never asks whether it
\* is still registered.
Rewalk(c) ==
  /\ job[c].at = "walk"
  /\ \/ /\ job[c].left = {}
        /\ job' = [job EXCEPT ![c].at = "reload"] /\ UNCHANGED names
     \/ \E r \in job[c].left :
          /\ names' = names \cup ({r} \cap Walked)
          /\ job' = [job EXCEPT ![c].left = @ \ {r}]
  /\ UNCHANGED <<file, stores, daemon, walks, sweeps, ghosts>>

\* rescan_roots.
Reload(c) ==
  /\ job[c].at = "reload"
  /\ \E s \in {Default, file.has} : Reads(s) /\ walks' = walks \cup Walking(s)
  /\ job' = [job EXCEPT ![c] = Done]
  /\ UNCHANGED <<file, stores, daemon, sweeps, names, ghosts>>

\* A scan thread ends: its root was active whenever it asked.
Found(w) ==
  /\ w \in walks /\ IsActive(w.root)
  /\ walks' = walks \ {w}
  /\ names' = IF w.gen = gen THEN names \cup {w.root} ELSE names
  /\ UNCHANGED <<file, stores, job, daemon, sweeps, ghosts>>

\* It was inactive when the thread began, or in the middle of the walk and active again.
GiveUp(w) ==
  /\ w \in walks /\ ~IsActive(w.root)
  /\ walks' = walks \ {w}
  /\ UNCHANGED <<file, stores, job, daemon, sweeps, names, ghosts>>

\* It is inactive after the walk: its names are to go.
Condemn(w) ==
  /\ w \in walks /\ ~IsActive(w.root)
  /\ walks' = walks \ {w}
  /\ sweeps' = sweeps \cup {[root |-> w.root, blank |-> file.is = "empty"]}
  /\ UNCHANGED <<file, stores, job, daemon, names, ghosts>>

Sweep(w) ==
  /\ w \in sweeps
  /\ sweeps' = sweeps \ {w}
  /\ names' = Without(w.root)
  /\ UNCHANGED <<file, stores, job, daemon, walks, ghosts>>

(***************************************************************************)
(* The index directory                                                     *)
(***************************************************************************)
Wipe(c) ==
  /\ job[c].at = "wipe"
  /\ Wiped
  /\ names' = {}
  /\ job' = [job EXCEPT ![c].at = "clear"]
  /\ UNCHANGED <<file, daemon, walks, sweeps, ghosts>>

ClearSize(c) ==
  /\ job[c].at = "clear"
  /\ ForgetSize
  /\ job' = [job EXCEPT ![c].at = "start"]
  /\ UNCHANGED <<file, live, ghosts>>

\* A walk that is still measuring will store what it finds.
Answered(c) ==
  [d \in Threads |-> IF d = c THEN Done ELSE
     [job[d] EXCEPT !.late = @ \/ job[d].at = "store"]]

FinallyBug == UNCHANGED stores

\* The second clear, whatever daemon.start came to.
Finally == ForgetSize

Reset(c) ==
  /\ job[c].at = "forget"
  /\ Finally
  /\ job' = Answered(c)
  /\ UNCHANGED <<file, live, ghosts>>

\* _cached_index_disk_usage looks, measures without the lock, and stores.
Size(c) ==
  /\ job[c].at = "size"
  /\ job' = [job EXCEPT ![c] = IF cache.on THEN Done ELSE [@ EXCEPT !.at = "store", !.gen = gen]]
  /\ UNCHANGED <<file, stores, live, ghosts>>

KeepSize(c) ==
  /\ job[c].at = "store"
  /\ Store(job[c].gen, job[c].late)
  /\ job' = [job EXCEPT ![c] = Done]
  /\ UNCHANGED <<file, live, ghosts>>

\* Ten seconds later.
Expire ==
  /\ cache.on
  /\ ForgetSize
  /\ UNCHANGED <<file, job, live, ghosts>>

\* open_file: no such file, no launcher, one that fails within 0.2 s; or it was handed over.
Launch(c) ==
  /\ job[c].at = "launch"
  /\ \E ok \in BOOLEAN : job' = [job EXCEPT ![c] = IF ok THEN [@ EXCEPT !.at = "check"] ELSE Done]
  /\ UNCHANGED <<file, stores, live, ghosts>>

\* The constructor of HistoryStore.
Check(c) ==
  /\ job[c].at = "check"
  /\ \E v \in {"none", "old", "new"} :
       /\ Checked(v)
       /\ job' = [job EXCEPT ![c].at = IF v = "old" THEN "rebuild" ELSE "use", ![c].gen = gen]
  /\ UNCHANGED <<file, live, ghosts>>

RebuildStore(c) ==
  /\ job[c].at = "rebuild"
  /\ Rebuild(job[c].gen)
  /\ job' = [job EXCEPT ![c].at = "mark"]
  /\ UNCHANGED <<file, live, ghosts>>

Mark(c) ==
  /\ job[c].at = "mark"
  /\ Recorded(job[c].gen)
  /\ job' = [job EXCEPT ![c].at = "use"]
  /\ UNCHANGED <<file, live, ghosts>>

\* The tables are created where there are none, and a row is written or all are deleted.
UseStore(c) ==
  /\ job[c].at = "use"
  /\ Use(job[c].gen)
  /\ job' = [job EXCEPT ![c] = Done]
  /\ UNCHANGED <<file, live, ghosts>>

(***************************************************************************)
(* The launcher dies and is started again; a save under way is lost        *)
(***************************************************************************)
Crash ==
  /\ crashes < scenario.crashes
  /\ crashes' = crashes + 1
  /\ job' = [c \in Threads |-> IF c = "boot" THEN Booting ELSE IF job[c] = Idle THEN Idle ELSE Done]
  /\ daemon' = Off
  /\ walks' = {} /\ sweeps' = {} /\ cache' = Nothing
  /\ crossed' = (crossed \/ file.is \in {"empty", "torn"})
  /\ news' = [c \in Threads |-> {}]
  /\ offered' = FALSE
  /\ UNCHANGED <<file, gen, version, layout, names, dropped, scenario>>

Page(c) ==
  \/ \E r \in Typed, k \in {"add", "remove"} : Begin(c, k, r, "none")
  \/ \E x \in Chosen : Begin(c, "role", "none", x)
  \/ \E k \in {"connect", "reconnect", "ext", "rescan", "reset", "size", "record", "clear", "open"} :
       Begin(c, k, "none", "none")
  \/ BeginDefaults(c)

Step(c) ==
  \/ Load(c) \/ LoadFails(c) \/ LoadCreates(c) \/ Create(c) \/ Scan(c) \/ Open(c) \/ Write(c)
  \/ Stop(c) \/ Start(c) \/ StartAgain(c) \/ Purge(c) \/ Rewalk(c) \/ Reload(c)
  \/ Wipe(c) \/ ClearSize(c) \/ Reset(c) \/ Size(c) \/ KeepSize(c)
  \/ Launch(c) \/ Check(c) \/ RebuildStore(c) \/ Mark(c) \/ UseStore(c)

Thread(w) == Found(w) \/ GiveUp(w) \/ Condemn(w)

Next ==
  \/ \E c \in Calls : Page(c)
  \/ \E c \in Threads : Step(c)
  \/ \E w \in walks : Thread(w)
  \/ \E w \in sweeps : Sweep(w)
  \/ Expire
  \/ Crash

Spec == Init /\ [][Next]_vars

(***************************************************************************)
(* Properties                                                              *)
(***************************************************************************)
Points == {"idle", "done", "load", "create", "scan", "open", "write", "stop", "start", "purge",
           "walk", "reload", "wipe", "clear", "forget", "size", "store", "launch", "check",
           "rebuild", "mark", "use"}
Jobs == [kind : Kinds \cup {"none"}, at : Points,
         op : Kinds \cup {"none", "peek", "launch"}, root : Roots \cup {"none"},
         role : AllRoles \cup {"none"}, seen : Settings, met : BOOLEAN,
         todo : SUBSET Defaults, left : SUBSET Folders, gen : Nat, late : BOOLEAN]

\* Every variable has its type.
TypeOK ==
  /\ file \in FileStates
  /\ gen \in Nat /\ version \in {"none", "old", "new"} /\ layout \in {"none", "old", "new"}
  /\ cache \in Caches
  /\ job \in [Threads -> Jobs]
  /\ daemon \in [on : BOOLEAN, watched : SUBSET Folders, gen : Nat]
  /\ walks \subseteq [root : Folders, gen : Nat]
  /\ sweeps \subseteq [root : Folders, blank : BOOLEAN]
  /\ names \subseteq Roots /\ scenario \in Scenarios
  /\ news \in [Threads -> SUBSET Parts]
  /\ crossed \in BOOLEAN /\ dropped \subseteq Roots /\ offered \in BOOLEAN
  /\ crashes \in Nat

\* What a handler leaves alone in the settings, but for what is news to it.
Keeps(j, unread, old, new) ==
  /\ "ext" \in unread \/ j.op = "ext" \/ new.ext = old.ext
  /\ "roots" \in unread \/
       CASE j.op = "add" -> new.roots = old.roots \cup {j.root}
         [] j.op = "remove" -> new.roots = old.roots \ {j.root}
         [] OTHER -> new.roots = old.roots
  /\ \A x \in AllRoles \ unread :
       \/ new.role[x] = old.role[x]
       \/ j.op = "role" /\ x = j.role
       \/ j.op = "connect" /\ old.role[x] = Unset
       \/ j.op = "reconnect"

\* A save takes back, of what it was not asked to change, only what others saved after
\* its handler loaded, or what a save had on its way to the file just then.  So a
\* connection the user had chosen before the scan of a launch loaded the settings
\* outlives it (auto_connect.py:122-129, methods.py:667), whatever else is saved
\* meanwhile.  One chosen while the scan waits for its probes does not: the code loads
\* before them and saves after them, and auto_connect.py:15 promises more.
SavesKeepOthers ==
  [][\A c \in Threads : file'.is = "whole" =>
       /\ Write(c) => Keeps(job[c], news[c], file.has, file'.has)
       /\ Create(c) => Changed(file.has, file'.has) \subseteq news[c]]_vars

\* The names of a registered root vanish from the fast index only when somebody
\* removed the root (or one around or inside it) before, or when a scan thread asked
\* while settings.toml was truncated, or in a reset (daemon.py:213-236).
SweptOnlyIfGone ==
  [][\A r \in (names \ names') \cap file.has.roots :
       \/ \E q \in dropped : Overlap(q, r)
       \/ \E w \in sweeps \ sweeps' : w.blank
       \/ gen' # gen]_vars

\* No registered folder is inside another one, nor will be when a handler saves what it
\* holds: add_root tests it (collector/service.py:16-23), and no lost update, first
\* launch or whole-object save from the page may break it.
RootsDisjoint == \A s \in {file.has} \cup {job[c].seen : c \in Threads} : Apart(s)

Covered(d, R) == \E r \in R : Overlap(d, r)

\* After the folders of a first launch were added, every default folder is watched or
\* inside or around one that is registered (methods.py:652-663), unless a handler met
\* a save or somebody removed a root.
DefaultsCovered ==
  offered /\ ~crossed /\ dropped = {} /\ job["boot"].op \notin {"peek", "add"}
  => \A i \in Defaults : Covered(Places[i].root, file.has.roots)

\* When nothing is under way, a running daemon watches the folders that are registered,
\* and works on the files that are in the index directory, unless a handler met a save
\* or a start met a reset.
SettledAsSaved ==
  daemon.on /\ ~crossed /\ (\A c \in Threads : job[c].at \in {"idle", "done"})
  => daemon.watched = file.has.roots \cap Folders /\ daemon.gen = gen

\* A server the program connected a role to by itself lists a model for the role, and
\* answered a request without asking for a key, or was only slow (auto_connect.py:81-88).
AutoConnectedUsable == Usable(file.has)

\* After a reset has returned, the size of what it deleted is shown only when it was
\* still being measured at that moment (methods.py:135-147, 308-318).
UsageFresh ==
  cache.on /\ cache.gen # gen /\ (\A c \in Threads : job[c].at \notin {"clear", "start", "forget"})
  => cache.late

\* A version that says the layout is new is true, at any point where the launcher may
\* die in an update (schema_version.py:56-78).
VersionTellsLayout == version = "new" => layout # "old"
=============================================================================
