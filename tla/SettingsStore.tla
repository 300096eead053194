--------------------------- MODULE SettingsStore ---------------------------
(***************************************************************************)
(* settings.toml (config/settings.py) and what the handlers make of what   *)
(* they loaded.  A save opens the file for writing, which truncates it,    *)
(* and writes the new text when it closes it: two steps, without a lock.   *)
(* Of a settings object only what handlers change is kept: the extensions, *)
(* the registered roots, and what each role is connected to.               *)
(***************************************************************************)
EXTENDS Probing, FiniteSets

CONSTANTS
  Roots,         \* the folders that can be registered
  Below,         \* pairs <<f, g>> of roots, f somewhere inside of g
  Exts           \* two extension lists, "default" among them

ASSUME Nested == /\ Below \subseteq Roots \X Roots /\ {"default", "other"} \subseteq Exts
                 /\ \A f, g, h \in Roots :
                      /\ <<f, f>> \notin Below
                      /\ <<f, g>> \in Below /\ <<g, h>> \in Below => <<f, h>> \in Below

VARIABLE file    \* the file: how it reads, and the last settings written whole

Unset == "none"                    \* a role without a base_url
Connections == {Unset, "user"} \cup Range(Ports)
Settings == [ext : Exts, roots : SUBSET Roots, role : [AllRoles -> Connections]]
Default == [ext |-> "default", roots |-> {}, role |-> [r \in AllRoles |-> Unset]]
\* The parts of the settings a save may take back, and those in which two differ.
Parts == {"ext", "roots"} \cup AllRoles
Changed(s, t) == {x \in Parts :
  \/ x = "ext" /\ s.ext # t.ext
  \/ x = "roots" /\ s.roots # t.roots
  \/ x \in AllRoles /\ s.role[x] # t.role[x]}
FileStates == [is : {"absent", "empty", "torn", "whole"}, has : Settings]

(***************************************************************************)
(* The file                                                                *)
(***************************************************************************)
\* An empty file parses: every field takes its default.
Reads(s) == \/ file.is = "empty" /\ s = Default
            \/ file.is = "whole" /\ s = file.has

\* tomllib refuses what two writers left behind.
Unreadable == file.is = "torn"

Truncate == file' = [file EXCEPT !.is = "empty"]

\* The text of a writer whose file was filled meanwhile may be the shorter one.
Dump(s) ==
  \/ file' = [is |-> "whole", has |-> s]
  \/ file.is # "empty" /\ file' = [file EXCEPT !.is = "torn"]

\* The root check of the daemon: whoever cannot tell keeps the root.
IsActiveBug(r) == file.is = "whole" /\ r \in file.has.roots

IsActive(r) == Unreadable \/ \E s \in {Default, file.has} : Reads(s) /\ r \in s.roots

(***************************************************************************)
(* What the handlers change                                                *)
(***************************************************************************)
OverlapBug(f, g) == f = g \/ <<f, g>> \in Below

Overlap(f, g) == f = g \/ <<f, g>> \in Below \/ <<g, f>> \in Below

\* add_root refuses a folder that is registered, or inside or around one that is.
Addable(s, r) == \A q \in s.roots : ~Overlap(r, q)

Apart(s) == \A q, r \in s.roots : q = r \/ ~Overlap(q, r)

\* The roles auto_connect looks for a server for.
NeedBug(s, force) == AllRoles

Need(s, force) == {r \in AllRoles : force \/ s.role[r] = Unset}

Connected(s, force, on) ==
  [s EXCEPT !.role = [r \in AllRoles |->
     IF r \in Need(s, force) /\ Pick(on, r) # Unset THEN Pick(on, r) ELSE s.role[r]]]

\* Something to tell is a reason to save, whether or not a role was assigned.
WorthSaving(s, force, on) == Noted(on) \/ \E r \in Need(s, force) : Pick(on, r) # Unset
=============================================================================
