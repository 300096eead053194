# A TLA+ verification of eoditdeora

eoditdeora is a local document search: a back end watches the folders a user
registers, parses and indexes their files, and answers searches over JSON-RPC for a
desktop shell or a browser page. These modules model the part that is hard to test:
what happens to the index when files, threads, calls, exceptions and crashes come
between one another; what becomes of a call between page, bridge, back end and
inference servers; what concurrent handlers make of the settings; and what the
retrieval arithmetic does to a word. `PROJECT.json` maps every definition to the lines
it stands for; paths below are relative to `src/core/eoditdeora/` unless they begin with
`apps/` or `scripts/`.

## The system

| part | state | operations | talks to |
|---|---|---|---|
| Collector (`collector/watcher.py`, `scanner.py`) | none but its root | on a notification: stat, filter, emit a `CollectedFile`; walk a root | emits into the daemon's queue |
| Roots service (`collector/service.py`) | `settings.index.roots` on disk | `add_root`, `remove_root` (save, refresh the daemon, drop the root's names and documents) | settings, daemon, fast index, stores |
| Indexer daemon (`indexer/daemon.py`) | bounded queue, `_running`, `_lock`, worker, watchers, scan threads | `start`, `stop`, `refresh_roots`, `rescan_roots`, worker loop, `_catch_up_scan` | collector, pipeline, fast index |
| Pipeline (`indexer/pipeline.py`) | locals of one `index_file` | CREATED, MODIFIED, DELETED, MOVED | parsers, chunker, metadata store, Tantivy |
| Metadata store (`storage/meta.py`) | SQLite: documents, chunks, jobs | upsert, delete (cascade), replace path, replace chunks, enqueue | pipeline, forget, search |
| Tantivy store (`storage/fts.py`) | chunk texts by chunk id | upsert, delete by document, search | pipeline, forget, search |
| Fast index (`indexer/fast_scan.py`, `storage/fast_index.py`) | SQLite: one row per file name | batch upsert, delete, delete missing, delete under a root | scans, worker, roots service |
| `index.forget` (`indexer/service.py`) | none | delete the row, then the Tantivy rows | stores |
| RPC server and handlers (`api/rpc_server.py`, `api/methods.py`) | disk-usage cache | one call at a time in the side-car, one thread per call in the launcher | all of the above |
| Launcher (`apps/launcher/eoditdeora_launcher.py`, `scripts/dev_server.py`) | none | HTTP shim, background boot: default folders, auto-connect, daemon | handlers |
| Settings (`config/settings.py`) | `settings.toml` | load, save (truncate, then write) | everybody |
| History, schema versions (`storage/history.py`, `schema_version.py`) | SQLite rows, a version per store | record, open, clear; rebuild a store whose version is old | stores |
| Clients (`runtime/clients.py`) | none | a request with retries, back-off and Retry-After; a streamed chat | inference servers |
| Endpoints and auto-connect (`runtime/endpoints.py`, `auto_connect.py`) | endpoint settings | probe servers, classify models, assign roles | settings |
| Document folders (`runtime/docpath_discovery.py`) | none | the folders a first launch offers | roots service |
| RTF reader, chunker, retriever (`parsers/rtf_parser.py`, `indexer/chunker.py`, `retriever/`) | none | bytes to text, text to windows, query to rows with snippets | stores, clients |
| Shell and page (`apps/shell`, `apps/ui`) | pending calls by id; text in the box, results | call, answer, side-car death; debounced name searches, Escape | RPC server |

What is hard, and what "correct" means there:

- **Pipeline.** Nothing ties the commits of one file together, the file is read
  three times (stat, hash, parse), and the name of a document depends on what
  other documents exist. Correct: when all is quiet the index holds what the
  files hold, each document under its own path, and no search hit without a
  document.
- **Daemon.** `stop()` can give up on the old worker, blocks on a full queue
  under a lock, and its sentinel shares the queue with events. Correct: one
  worker, no file of a root forgotten, no thread waiting for ever.
- **Fast index.** Four kinds of writers race: several scans with batches, the
  worker's mirror, the purge of a root, the sweep of an aborted scan. Correct: a
  scan nobody disturbs is exact, no name is lost for good, a removed root is clean.
- **Calls.** No call has a time-out, errors change their form on each of three bridges,
  servers fail in a dozen ways at any attempt. Correct: every call is settled once, with its
  own outcome; nothing but a lost side-car or an unreadable frame makes one wait for ever;
  a failed server costs no row that was found.
- **Handlers.** The launcher runs every handler in a thread of its own over a settings
  file that is truncated before it is written. Correct: a save keeps what it was
  not asked to change unless that was saved after it loaded, no folder is registered inside another one, names go with their
  root only, a recorded version does not lie.
- **Retrieval.** Windows, overlaps, group ends and rank constants. Correct: nothing
  hidden in a file is shown, no word falls between two chunks, a row holds what it was found
  by and shows what stands first of what was asked, agreement of both rankings beats the first place in one.

Hazards are listed one by one, with their lines, in `PROJECT.json`.

## Modules

**IndexPipeline** is the core. State: the files (`fs`), notifications (`raw`),
the daemon's queue, the remaining catch-up scan (`toScan`), where `index_file` is
(`pc`) with its locals (`ev`, `old`, `id`, `seen`, `got`), and the stores (`meta`,
`chunks`, `fts`, `jobs`). `Notice` is the watcher's handler, `Scan` one record of
`Scanner.walk`. `Take` takes an event, `Debounce` drops a MODIFIED of a path (`lastSeen`) that had one before,
as the worker does within 0.4 s; how much time passes is left open. Then each commit and each read of the file is an action:
`Purge`/`Drop` (DELETED), `Rename`/`Moved` (MOVED), `Stat` (the preflight with all
its early returns), `TooLarge`, `Hash` (the doc_id and what must be deleted
first), `UpsertEmpty`, `Parse` (parse and row), `Clone` (a duplicate's chunks),
`Clear`, `ReplaceChunks`, `FtsUpsert`, `EnqueueJobs`. `Fail` is an exception in
any of them, `Crash`/`Restart` the process, `Forget`/`ForgetRows` the RPC call.
The name of a document is `Sha(c)` for the first file with content `c`, `Dup(c, p)`
for a duplicate and `Skip(p)` for a file that is too large, as `_doc_id_for` and its
neighbours build them. Three history variables name what the code gives up: `missed` are the paths whose latest
event was debounced, `outrun` says that a file was renamed at such a path, and `stranded` are the paths a file
was renamed from when the watcher dropped the rename because the file was gone again, or too large, at its stat
(`collector/watcher.py:74-82`).

**IndexerDaemon** models the daemon around it. `index_file` is one step there.
`AddRoot`, `RemoveRoot`, `Rescan`, `Reset` are the calls; `StopDaemon`, `PutNone`,
`Join` (which may time out), `Wipe`, `StartDaemon`, `BootWatch`, `BootScan`,
`Booted`, `Purge` are the steps of the call that is being served, in the order
of the code; `Emit`, the scan steps and the worker steps are the other threads.
The lock is modelled where it is held across a step (`stop`, `start`).

**FastScan** models one root of the name index: `Entry`, `Flush`, `Submit`,
`Collect`, `Join`, `Last`, `DeleteMissing` are the collecting thread of
`scan_root`; `List`, `Look`, `Hand`, `Walked` a walker, with the bounded outbox
between them; `Active`, `Sweep`, `Visit`, `Offer` what `_catch_up_scan` does
afterwards; `Mirror` the worker; `RemoveRoot`/`Unwatch`/`PurgeRoot`,
`AddRoot`/`Watch`, `Rescan`/`Rescanned` the calls. An abort is modelled wherever
the code asks `should_abort`, and only there.

**CallLedger** is the abstract specification of a call: `Issue` and `Settle`, once, with
one of the outcomes its own request may have. **Upstream** is one exchange with an inference server:
`Refuse`, `Receive`, `Open`, `Chunk`, `Finish`, `Garble`, `Cut` are what one attempt of
`_post_json` or `chat_stream` can meet (`Received` and `Opened` are an attempt that got
through); `Turn` is one turn of their loops with the delay that
follows. **Requests** composes it with the page (`Type`, `Clear`, `Debounce`, `Enter`), the
shell (`Ask`, `Send`, `Deliver`, `Terminated`), the side-car (`Serve`, `Respond`, `Die`)
and the handlers of name search, search, ask and streaming step by step (`Begin` to
`Answered`), for three bridges: the bundled side-car, `python -m eoditdeora.api.rpc_server`,
and the launcher's HTTP shim. Requests implements CallLedger under the mapping `Ledger`.

**Probing** is a probe of a server and what auto-connect makes of it, as operators over
the face a server shows; **SettingsStore** is the file and what handlers change in it;
**IndexStores** the history with its version and the cached size; **Discovery** the default
folders. **Handlers** composes the four: every thread has a `job`, and each step that
reads or writes something shared is an action (`Load`, `Scan`, `Open`, `Write`, `Stop`,
`Start`, `Purge`, `Rewalk`, `Wipe`, `Size`, `KeepSize`, `Check`, `RebuildStore`, ...).
The daemon's catch-up threads are `Found`, `GiveUp`, `Condemn` and `Sweep`. The launch
is a job of the thread "boot" that goes through default folders, auto-connect and
`daemon.start`, as the launcher does. IndexerDaemon and FastScan assume the side-car's
serial loop for the calls; Handlers is where they overlap.

**RtfReader** is one token of `_extract_rtf_text` (`ReadToken`) against `Visible`, which says
what a sequence of tokens means without a stack. **Chunker** is one window (`NextChunk`).
**Retrieval** is the query, `_rrf_merge`, reranking and the snippet as operators. What the analyser (Kiwi) makes of
a word is a parameter, `Forms`: its stem without particles, several tokens, or none. A chunk is searched by `TokensOf` its
text, a query asks for the `Terms` of its words without the stopwords, and the snippet looks for those terms and for what
was typed (`Marked`), anywhere in the text, as `_first_match` does.
**Finding** puts them in a row: read, chunk, search by words, or by words and meaning
with and without a reranker. Scores are sums of fractions (`Plus`, `Higher`), so the ranking is
exact for any `RrfK`; `Fused` names the k-th candidate by how many come before it, as a stable sort
does.

The theorems about a component stand in a module of their own: **IndexPipelineProofs** and
**CatchUpProofs** (pipeline), **IndexerDaemonProofs**, **FastScanProofs**, **RequestsProofs**,
**HandlersProofs**, **FindingProofs**. **Counting** has the lemmas several of them
need: how often something occurs in a sequence, least and greatest of a set, a finite set in
order, recursive functions over the numbers. The `MC_` modules give the constants
their values; operators whose name ends in `Bug` are wrong neighbours of the
definition below them and are used by no specification: each property of a
passing run fails when the definition is replaced by its neighbour.

## Runs

| run | question | answer |
|---|---|---|
| `pipeline_races` | Two files written, removed at any moment of `index_file`, renamed when all is quiet, one content too large for the watcher, events debounced: does the index end right, and does it end? | yes: `NoUniqueClash`, `NoOrphanHits`, `CaughtUp`, `NoGhosts`, `EventuallyServed` |
| `pipeline_quiet` | Copies, empty and too large files, with one exception, crash or forget at any step: does a document stay with its file, are search rows exact? | yes: `NoUniqueClash`, `CaughtUp`, `NoStaleRows`, `RowsStayHome` |
| `pipeline_rename` | "one row per indexed file" (`storage/meta.py:5`) | no: copy, rename the copy, save the text under the old name: the new file takes the row of the renamed one |
| `pipeline_crash` | "a crashed worker restarts with no data loss" (`storage/meta.py:14`) | no: the row that says "unchanged" is committed before chunks and search rows |
| `daemon` | Calls of every kind against queue, scans, watchers, failing workers and joins that time out | `NothingForgotten`, `OneWorker`, `NeverStuck` hold |
| `daemon_dead` | "A single background worker thread drains `_queue`" (`indexer/daemon.py:12`) | no: a left-over sentinel ends the next worker |
| `daemon_wedge` | "so it starts watching this root right away" (`collector/service.py:48`) | no: `stop()` waits for room in the queue while it holds the lock the worker needs |
| `fast_scan` | Scans, mirror and calls on one root of the name index | `ExactScan`, `NamesCaughtUp`, `RemovedRootClean`, `NeverStuck` hold |
| `fast_ghost` | "The fast scan mirrors the current filesystem" (`storage/fast_index.py:254`), "safe to call while the daemon is running" | no: a batch written after the worker's delete brings the name back |
| `requests` | Two calls through each bridge, with retries, failing servers, a side-car that ends, a score that is NaN: what does the page see? | a ledger (`LedgerSpec`), and `EveryCallReturns`, `HangsOnlyAfterLoss`, `PatienceBounded`, `NoReplay`, `OnlyAnswererFails`, `ShownIsLatest` hold |
| `handlers` | Up to three overlapping calls, a launch, scan threads, a crash: what becomes of settings, names, versions and the cached size? | `SavesKeepOthers`, `SweptOnlyIfGone`, `RootsDisjoint`, `DefaultsCovered`, `SettledAsSaved`, `AutoConnectedUsable`, `UsageFresh`, `VersionTellsLayout` hold |
| `find` | Every RTF file of up to five tokens, every text of up to seven symbols: is what is read, cut, ranked and shown what the file says? | `ReadAsMeant`, `Covered`, `Found`, `BothFirst` hold |

Properties that name their exceptions, and the exceptions are results too:

- `CaughtUp` and `EventuallyServed` let go of a file whose latest event was debounced (`missed`), until its next event
  or the next scan, and of everything once such a file was renamed (`outrun`): its row goes along with the older text
  and the name made of it, and another file may then meet that name. Without the second exemption TLC finds
  `CaughtUp` violated after six changes. `CrashLosesNothing` has the same exemptions, so its counterexample is the crash.
- `NoGhosts` lets go of a row at a path in `stranded`.
- `NothingForgotten` lets go of a file whose last event was dropped (full queue,
  debounce, exception, reset): history variable `lost`.
- `NeverStuck`, in both modules, is stated by who waits for whom, each thread's waiting condition read off
  the guards of its actions, so that it can be proved without `ENABLED`; on every reachable state of the two
  runs it agrees with `ENABLED` of the next-state relation.
  `NeverStuck` (daemon) allows exactly the deadlock of `daemon_wedge`; `NeverStuck`
  (fast scan) allows exactly the one of `fast_scan.py:243`: the collector breaks out
  of its loop on an abort and then waits for walkers that wait for room in the
  outbox it no longer empties. The run reaches both.
- `NamesCaughtUp` and `RemovedRootClean` leave out `astray`: names that the worker
  mirrored for a root that had been removed, and names swept because a root was
  removed and added again between a scan's question and its `delete_under`.
- `HangsOnlyAfterLoss` and `EveryCallReturns` allow a side-car that ended (`rpc.rs:131`
  leaves the pending map as it is and there is no time-out) and a reader that is stuck on a
  body serde refuses, which a reranker's NaN score produces. `ShownIsLatest` leaves out
  the HTTP bridge: its threads answer out of order, and the page does not compare texts.
- `SavesKeepOthers` knows for every handler what others have saved since it loaded, or had on the way to the file then
  (`news`), and lets a save take back only that. So a connection the user chose before the scan of a launch loaded the
  settings outlives the scan; one chosen while the scan waits for its probes is overwritten, and the property says so (see the
  observations).
- `DefaultsCovered` and `SettledAsSaved` let go of handlers that met another save (`met` of a job, `crossed`): two
  read-modify-writes of `settings.toml` lose one change, and one that reads the truncated file writes the defaults back.
- `SweptOnlyIfGone` allows a scan thread that asked while the file was truncated (`blank`): the
  names of a registered root are deleted for a save that was under way.
- `UsageFresh` allows the size that was being measured when the reset returned (`late`).
- `Found` is about words no longer than the overlap that leave a token beside stopwords, where the text
  holds nothing the query excludes. A longer word may be cut by both of its chunks. A row holds a word it was found by (`Hits`)
  and shows whole what stands first of what was typed or searched for (`First`); only where that is a word
  it was found by does it show such a word. "A row always shows a word it was found by" is violated: see the observations.

### Bounds, and why they are enough

- Pipeline: two paths and two contents give every relation of a document to another
  (same name, same path, same content, none); three paths are used where a
  rename needs one. Three or four changes are a write, a second write that meets
  `index_file` anywhere in the first, and a remove or rename. Chunk counts 0, 1
  and 2 differ so that a shorter text leaves a stale chunk to find. `DupWhen`,
  `MoveWhen` and `WriteWhen` restrict when the user makes a copy, a rename or a
  write. Writes and removals race freely in one run, copies and troubles in the other.
  A copy of a file that is being written while it is copied is in neither:
  there `_clone_chunks` can take the chunks of a text the canonical file no
  longer has.
  In `pipeline_races` one of three contents is too large for the watcher: a file that grows, or is renamed and
  grows or goes before the watcher looks, leaves its row at the old path.
- `MaxRaw` bounds the notifications in flight, `MaxTrouble` how often an
  exception, a crash or a forget comes.
- Daemon: one root with one file, a queue of two (one event and the sentinel
  can meet), two calls (a second restart meets the leftovers of the first), three
  scans, one join that times out.
- Fast scan: batches of two and an outbox of one, so that a batch
  is flushed by the top level, by the collector and at the end, and walkers wait;
  two scans (a third one would be the overlap of `index.rescan` with a scan
  of the boot, which has the same steps as the overlap after `add_root`);
  one change of a file and two calls.
- Requests: two calls, so that one can overtake, wait behind or outlive the other; one of
  them has servers to ask, which keeps the attempts of two exchanges from multiplying (they
  share nothing); one streamed chunk is enough to tell "handed on" from "not yet"; two
  texts are needed for an older answer to replace a newer one. Attempts and delays
  are those of the code.
- Handlers: `Scenes` lists which kinds of calls are explored together, how many, at
  a launch or later, and with how many crashes: all pairs of settings handlers; three of the
  four that write roots, roles and extensions (a third save is needed to fill the
  file between the truncation and the write of another); three around reset, size and
  history; three around reset, add and remove. Crashes meet a launch and the
  calls that save or wipe. Four roots: one inside another, one apart, one that is no folder at the
  moment. Four servers: usable, wanting a key, without chat, and one whose list is
  no object. Calls are symmetric.
- Find: the analyser of the run keeps most words as they are, takes a particle off one (`aa` is found by `a`), drops one
  whole and makes two tokens of one; `b` is a stopword that one query asks for together with `a`.
  `Target` 4, `Overlap` 2 and `LastPart` 1 keep `OVERLAP_CHARS < TARGET_CHARS - 200`
  (150 < 800), the inequality the loop's progress rests on, and a text of seven or more symbols has
  three windows; `RrfK` 2 and `ListTop` 3 keep `bm25_top_k < RRF_K + 2` (50 < 62), on which
  `BothFirst` rests, and `SnippetWindow` 3 with `BeforeMatch` 1 keep 60 < 240. These inequalities
  are assumptions of the modules, so TLC evaluates them. Five tokens nest two groups with
  something to hide in them; three kits of tokens keep interacting tokens together.

### Fairness

`EventuallyServed` assumes weak fairness of the watcher, the catch-up scan, the
worker (`Debounce` included), the second half of a forget and the restart after a crash (the last two do
not occur in the run that checks it): threads of one process that block on nothing
but their queue and the lock, which every holder but `stop()` releases within the step. No fairness is assumed of the user,
of exceptions, of crashes or of RPC calls, and the property makes no promise after an
exception, crash or forget. `AddedRootIsWatched` is checked under weak fairness of every thread, so its
counterexample is a real deadlock and not a thread that was never scheduled.

`EveryCallReturns` assumes weak fairness of the loops (reader, side-car, handlers) and of each attempt
of an exchange, which httpx ends with a time-out. These time-outs are per read: a server that
sends a byte now and then for ever is not bounded by the code and not in the model. Nothing is assumed of the user, of
the servers' answers, or of the death of the side-car. In the streamed case the
number of chunks is bounded, as a model's answer is. Handlers and Finding state safety only.

## Proofs

Each theorem holds for every value of the constants that satisfies the assumptions the modules
name, for any number of files, roots, calls, threads and scans; what a theorem assumes beyond
them is in its statement. Every property of a passing run is stated by a theorem, but for the
two about liveness named below. Every argument has one shape: an inductive invariant with the type invariant as a
part, a lemma for each group of actions, the property from the invariant.

| module | theorems | what the invariant adds, and why it is needed |
|---|---|---|
| IndexPipelineProofs | `TypeCorrect`; `UniqueNeverRaises`, `PathsUnique`; `HitsHaveDocuments`; `RowsStay` | `Handling`: the steps of `index_file` read `ev`. `OneOwner` and `KnownOwner`: the worker asks who owns a path in `Stat` and writes steps later. `RowFirst`: a document whose chunks are about to be written has its row. `HomeInv`: a name with a path in it has a row of that path only |
| CatchUpProofs | `NoGhostsLeft`; `FilesAreServed`; `NothingStale` | `NewsInv`: the latest of what is on the way about a file tells what has become of it, wherever it is on the way (notification, queue, hand). `LeftInv`: of a file that is gone and was not stranded, the end is the last thing on the way. `MoveInv`: a rename is made when all is quiet, so it is the first to be noticed and the first to be taken. `RowInv`: a row with the stamp of its file is whole or in hand. `Carried`: the row a rename will take along is whole for the file at its new path and has its name. `RowsOnly`: a content is at home at one path, which is that of its row, or the path the row is to follow to (`Settled`), so no row is taken from another file. `NameInv`: a row with the stamp of its file is named after its content. `PlaceInv`: a file nothing comes after has such a row. `CleanInv`: a document has all of its chunks or none, in both stores |
| IndexerDaemonProofs | `TypeCorrect`; `WorkersCounted`; `NothingIsForgotten`; `NobodyIsStuck` | `GivenUp`: a worker that is not the latest was given up by a join. `EndsWait`: for each worker too many a sentinel still waits in the queue, so whoever takes an item behind the last one is alone. `Safe`: a file is lost, behind every deletion of it on its way, or in the index with no deletion left. `NobodyIsStuck` needs which step of a call holds the lock, and that a call which waits for its worker has turned `_running` off |
| FastScanProofs | `TypeCorrect`; `RemovedRootIsClean`; `NamesAreCaughtUp`; `ScansAreExact`; `NobodyIsStuck` | `SweptLater`: what a late scan wrote it is going to sweep. `NamesComing`: a file's name is there or will be written behind every deletion of it. `InPlace`: a walker that ended was counted or its `Done` is in the outbox. `Exact`: a file not yet met is ahead of the top level, of its walker, or in the outbox before that walker's `Done` |
| RequestsProofs | `TypeCorrect`; `LedgerKept`; `PatienceKept`; `ReplayNever`; `AnswererFails`; `NothingLost`; `LatestShown` | `Patient`: attempts and seconds slept go together. `Placed`: a call that is waited for has one frame or one job, of its own. `Fitting`: what a handler is at goes with what it was asked. `Kept`: a call that waits has a job or a frame while the side-car lives. `FrameOrder`, `ListOrder`: name searches keep their order through both pipes |
| HandlersProofs | `TypeCorrect`; `VersionIsTrue`; `UsageIsFresh`; `RootsStayApart`; `ConnectedIsUsable`; `SavesKeep`; `SettlesAsSaved`; `NamesGoWithRoots`; `FirstLaunchCovers` | `SoundInv`: every settings object a handler holds is in order, not only the file. `SaveInv`: what a handler holds differs from the file by what it was asked to change, or it met another save. `BehindInv`: what a handler holds differs from the file by its own change and by `news`, whatever it met. `SettledInv`: a daemon that watches something else is about to be stopped. `GoneInv`: whoever is to delete names has a dropped root. `OfferInv`: a default folder is registered or the launch has still to come to it |
| FindingProofs | `TypeCorrect`; `TextIsAsMeant`; `NothingFallsBetween`; `WordsAreFound`; `AgreementWins` | `Held`: what is in force is what the innermost open group has said last. `Nested`: each entry of the stack is a group's state where that group began. `Skipping`: what is left of a fallback. `Written`: the text is that of the pieces so far, and the bytes that wait are the last run of bytes. `WindowsInv`, `Carried`: what begins before the next window and is no longer than the overlap is in one of the windows so far. The rest is about operators: a word of a text is a word of the chunk it lies in, `Clip` shows what stands at the place it is given, and `2/(k+n) > 1/(k+1)` for `n < k + 2` |

`LedgerKept` is the refinement: `Init` maps to `Ledger!Init`, and each action to `Issue`, `Settle` or a
stutter, because (`Placed`) a frame or an answer always belongs to the call it is delivered to.

What the theorems assume beyond a sensible universe (`Universe`, `Bounds`, `Setting`, `Shown`, `Listed`,
`Scope`: constants are sets of the right things, numbers are numbers):

- `WindowsAdvance` (the overlap is shorter than a window that was cut back to a break: 150 < 800 in
  `chunker.py`) is a relation between constants of the code, and so is the part of `Scaled` that says a snippet is longer
  than what stands before the match. The other part, lists shorter than `RRF_K + 2`, holds for the shipped 50 and 60;
  `bm25_top_k` and `dense_top_k` are settings of the user (`config/settings.py:87-88`), and from 62 on
  `BothFirst` is not claimed. `Inputs` says that texts are of symbols and that words are words.
- `Inherited`: an earlier launch left settings as this one will: roots apart, assigned servers usable.
  `RootsStayApart` and `ConnectedIsUsable` show that the program leaves them so again. `Nested`: being
  below a folder is a strict order.
- `RowsStay` assumes `MoveWhen = "never"`: with a rename it does not hold (`pipeline_rename` shows how a row is
  taken).
- `NoGhostsLeft` assumes nothing: writes, copies, renames and removals come at any moment, between any two steps, and
  files may be of any size.
- `FilesAreServed` assumes `Restrained`; writes and removals come at any moment, renames when the index is quiet, as in
  `pipeline_races`. With renames no file is too large for the watcher or for `index_file` (`Huge = Large = {}`): see the
  observations. Without them both may be any sets.
  No content is at two paths (`DupWhen = "never"`): `_clone_chunks` may copy a text its
  source no longer has. No empty file: see the first observation. No parser that ends as a stub: a stub has a row and
  no chunks, which `CaughtUp` does not call served. TLC finds `CaughtUp` violated when one of the last three is
  given up while writes come at any moment, and when renames come at any moment; `pipeline_quiet` shows it with copies and
  empty files and writes that wait.
- `NothingStale` assumes `Patient`: renames, copies, empty, large and unreadable files may come, each when the
  index is quiet, and no parser ends as a stub. With writes or renames while a file is
  being indexed, or with stubs, TLC finds `NoStaleRows` violated (the second observation).

Lemmas on the way: `NextAtIs`, `WindowEndIs` (windows advance), `ExchangeStep` (an attempt keeps an exchange
patient), `DecideKeeps`, `DecideSound` (what a handler decides changes only its own part, and keeps settings in order),
`ComingAfterTail` and `ComingAfterAppend` (what a queue does to what is coming), `Ranked` (a finite
set under a strict order, listed), `UpTo` (a set of numbers that holds 0 and with each number the next holds them
all) and `Recursive` (a function defined by a step exists, and its values are those of the steps), by which
`TextIsAsMeant` reasons about recursive functions of a sequence of tokens (`Depth`, `Together`): one token more adds to them
at the end, and leaves what they say of the tokens before as it was (`TogetherAppend`, `GroupAppend`, `FileAppend`).

Only model-checked, and why:

- `EventuallyServed`, `EveryCallReturns` (and `AddedRootIsWatched`, which fails): liveness under fairness.
- `CaughtUp` where the theorem's hypotheses do not hold: with copies and empty files in `pipeline_quiet`.

## Observations

Met while modelling; where no document of the repository promises otherwise they are part
of the model and no finding.

- An empty file that is filled while `index_file` works on it leaves chunks of the new text under the
  name of the empty one (the name was made from the first read, the chunks from the second). When the file, or another one, is
  empty later, the branch for empty files writes a row of that name and leaves the chunks
  (`indexer/pipeline.py:364-390`). Met as the step `FilesAreServed` could not take.
- The row of a file too large to be read is named after its path (`_skipped_doc_id_for`), and a rename keeps the
  name. When another file too large is written at the first path, `index_file` gives its row that name again
  (`indexer/pipeline.py:329`) and so takes it from the renamed file, which has no row then. The watcher drops the rename
  of a file that is too large for it (`collector/watcher.py:81`) with both ends, so a row of the time it
  was smaller is left at a path without a file. Both met as steps the theorems with renames could not take.
- `FtsStore.upsert` replaces rows by chunk id and deletes none. A file whose text is replaced by a longer one
  between hash and parse, and then put back, keeps search rows of the longer text; so does one that parsed before and
  now ends as a stub. Met as the hypotheses of `NothingStale`.
- Under `python -m eoditdeora.api.rpc_server` the loop's `RpcError` is another class than the one
  handlers raise, so every code becomes `ERR_INTERNAL`; the HTTP shim
  keeps the message of an error only (`scripts/dev_server.py:43`).
- A `Retry-After` of `nan` survives `min` and makes `sleep` raise; looking for the detail of a
  refused streamed request raises `ResponseNotRead`, so its status is never classified.
- The shell registers an `Arc<SidecarState>` (`apps/shell/src/lib.rs:52`) and its command asks for
  `State<SidecarState>` (`lib.rs:22`); the model takes the call path as meant.
- `probe` says it never raises; a server whose `/models` is a list raises
  `AttributeError` (`endpoints.py:84`, `290`), which ends the launch's auto-connect.
- "An explicit user choice is never overwritten" (`runtime/auto_connect.py:15-16`): the code loads the settings, waits up
  to seconds for its probes and saves what it loaded (`auto_connect.py:122-166`), so a choice, a root or a list of
  extensions the user saves meanwhile is lost. `SavesKeepOthers` marks the border.
- "Keeps snippet centering in sync with user-visible search semantics" (`retriever/snippet.py:71-73`): the centre is the
  first place where any term stands, typed stopwords and terms inside other words included
  (`snippet.py:80`, `101`), so a row that was found by a word further on may not show it. With a window of 3 and the query
  `b a`, where `b` is a stopword, the chunk `b b / a` shows only `bb /`.
- "Additions, edits and deletions are reflected at once" (`docs/INSTALL.md:76`): the last edit of a burst waits until the
  file's next event or the next scan (`indexer/daemon.py:324-329`).
- A file that is renamed between its hash and its parse is parsed as a stub at its old path; the rename then carries that
  row, which has the file's stamp and no chunks, to the new path, and the file is not searchable until it changes. Met as
  `CaughtUp` with `MoveWhen = "any"`. A file renamed and removed before the watcher looks leaves the row of its old
  path for good (`stranded`).
- Two savers may leave a `settings.toml` that does not parse; from then on every handler
  that loads it raises. A crash in a save loses the settings.
- A reset that overlaps an add or a remove starts the daemon on files it then unlinks.
- A default folder around a registered one is refused, so what is beside the registered one is not
  indexed (`DefaultsCovered` counts it as covered in this sense).
- When a window begins on a separator, `_block_at` falls back to the first block of the document, although
  `chunker.py:69` speaks of the first block that overlaps the window.
- Terms are marked in the snippet after escaping, so that "amp" or "lt" are marked inside html entities
  (`snippet.py:120-132`). A reranker that names an index twice returns a row twice.
- An update of the search index's version empties it while every document row says
  "unchanged".

## What is left out

- Vectors: no caller adds one. Understanders, `claim_job` and `complete_job`: no caller.
- Filters (ignore patterns, extensions, sizes of the fast scan) decide which files exist for the
  index; a modelled file has passed them. The prune of documents whose extension
  was disallowed is left out with them.
- In IndexerDaemon, `index_file` is one step; in FastScan the queue has room and
  the worker does not restart; in Handlers the daemon is what it watches. Each is
  modelled in one of the others.
- The walk with one worker (`fast_scan.py:188-212`), exceptions inside `scan_root`.
- Parsers other than RTF walk an XML tree or call a library, and enter Finding as the text
  they return. `_block_at`, quoted phrases, the html of snippets, the SQL of the
  name search and of the history's orders, and all scores are left out. Kiwi looks at a sentence, `Forms` at a word: which
  tokens a word has does not depend on its neighbours.
- `Wipe` removes the files of the index in one step; the code unlinks them one by one.
- The Ollama kind of an endpoint: no local candidate has it.
- Read-only handlers, windows and tray, autostart entries, the views that render a result, CLI, scripts,
  installers: data conversion and input/output.

## Plan

What could be proved next, in the order of what it says about the system:

1. CatchUpProofs with copies made when all is quiet: `CaughtUp` needs `Copyable` beside `RowInv`, and `OnlyInv` a
   condition that tells harmless renames from the one of `pipeline_rename`.
2. SearchMirror, the abstract promise of the pipeline (per path, the index has no version, a former one or the present
   one; when quiet, the present one), with IndexPipeline shown to implement it. `RowInv` and `PlaceInv` are
   the core of its refinement mapping.
