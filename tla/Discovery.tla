----------------------------- MODULE Discovery -----------------------------
(***************************************************************************)
(* The document folders a first launch offers                              *)
(* (runtime/docpath_discovery.py): of the well-known places of the         *)
(* platform, in order, those that are folders and hold a document, or are  *)
(* where documents will be put.                                            *)
(***************************************************************************)
EXTENDS Integers, Sequences

CONSTANTS
  Folders,       \* what is a folder now
  Places,        \* the candidates: where, the files walked up to a document, a canonical name
  ScanBudget     \* MAX_SCAN_FILES

ASSUME Listed == /\ ScanBudget \in Nat
                 /\ Places \in Seq([root : STRING, upto : Nat, canonical : BOOLEAN])

\* A place that resolves to an earlier one is dropped.
CandidatePaths == {i \in DOMAIN Places : \A j \in 1..(i - 1) : Places[j].root # Places[i].root}

\* The walk gives up after its budget, and with it the document it had not reached;
\* zero: there is none, or only deeper than the walk goes.
HasDocs(p) == p.upto \in 1..ScanBudget

Offered(p) == p.root \in Folders /\ (HasDocs(p) \/ p.canonical)

\* default_roots, by their numbers.
Defaults == {i \in CandidatePaths : Offered(Places[i])}
=============================================================================
