---------------------------- MODULE IndexStores ----------------------------
(***************************************************************************)
(* What handlers keep in the index directory besides the indexes: the      *)
(* history (storage/history.py) with the version that guards its layout    *)
(* (storage/schema_version.py), and the cached size of the directory       *)
(* (api/methods.py).  index.reset deletes the files; whoever has one open  *)
(* goes on with a file nobody else sees.                                   *)
(***************************************************************************)
EXTENDS Integers

VARIABLES
  gen,           \* how often the directory was wiped
  version,       \* the version recorded for the history: "none", "old", "new"
  layout,        \* the layout of its tables
  cache          \* the cached size: of which generation, and stored by whom

stores == <<gen, version, layout, cache>>

\* "late": the walk that measured it was under way when a reset returned.
Caches == [on : BOOLEAN, gen : Nat, late : BOOLEAN]
Nothing == [on |-> FALSE, gen |-> 0, late |-> FALSE]

\* A new installation, an update from a release with another layout, or any other start.
StoresInit ==
  /\ gen = 0 /\ cache = Nothing
  /\ version \in {"none", "old", "new"} /\ layout = version

\* CREATE TABLE IF NOT EXISTS leaves the tables that are there as they are.
Created == IF layout = "none" THEN "new" ELSE layout

\* ensure_version in a constructor: what it sees, recorded at once when it is the first.
Checked(v) ==
  /\ v = version
  /\ version' = IF version = "none" THEN "new" ELSE version
  /\ UNCHANGED <<gen, layout, cache>>

\* Steps of a store opened in generation g reach the files of that generation only.
RebuildBug(g) ==
  /\ version' = IF g = gen THEN "new" ELSE version
  /\ UNCHANGED <<gen, layout, cache>>

Rebuild(g) ==
  /\ layout' = IF g = gen THEN "new" ELSE layout
  /\ UNCHANGED <<gen, version, cache>>

Recorded(g) ==
  /\ version' = IF g = gen THEN "new" ELSE version
  /\ UNCHANGED <<gen, layout, cache>>

Use(g) ==
  /\ layout' = IF g = gen THEN Created ELSE layout
  /\ UNCHANGED <<gen, version, cache>>

\* _reset_index_dir: the history and the recorded versions are among the files.
Wiped ==
  /\ gen' = gen + 1 /\ version' = "none" /\ layout' = "none"
  /\ UNCHANGED cache

Store(g, late) ==
  /\ cache' = [on |-> TRUE, gen |-> g, late |-> late]
  /\ UNCHANGED <<gen, version, layout>>

ForgetSize ==
  /\ cache' = Nothing
  /\ UNCHANGED <<gen, version, layout>>
=============================================================================
