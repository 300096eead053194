---------------------------- MODULE MC_Handlers ----------------------------
EXTENDS Handlers, TLC

CONSTANTS c1, c2, c3

ThreeCalls == {c1, c2, c3}
FourRoots == {"docs", "desk", "inner", "usb"}
Inner == {<<"inner", "docs">>}
TwoExts == {"default", "other"}
AllButUsb == {"docs", "desk", "inner"}
Place(r, n, known) == [root |-> r, upto |-> n, canonical |-> known]
\* Documents is empty, and known twice; Desktop holds a document; Hancom, in
\* Documents, holds one that the walk does not reach.
FivePlaces == <<Place("docs", 0, TRUE), Place("usb", 1, TRUE), Place("docs", 0, TRUE),
                Place("desk", 2, FALSE), Place("inner", 3, FALSE)>>
Docs == {"docs", "inner"}
Names == {"docs", "inner"}
Before == {[Default EXCEPT !.roots = {"docs", "usb"}, !.role["llm"] = "user"], [Default EXCEPT !.roots = {"inner"}]}
Llm == {"llm"}
Scene(k, n, first, x) ==
  [kinds |-> k, calls |-> n, launch |-> first, crashes |-> x]
Scenes == {Scene({"add", "remove", "role", "connect", "ext", "defaults", "rescan", "reset"}, 1, TRUE, 0),
           Scene({"add"}, 1, TRUE, 1), Scene({"record"}, 1, TRUE, 1),
           Scene({"add", "remove", "role", "ext", "connect", "reconnect", "defaults", "rescan"}, 2, FALSE, 0),
           Scene({"remove", "ext", "reset"}, 1, FALSE, 1),
           Scene({"add", "remove", "role", "ext"}, 3, FALSE, 0),
           Scene({"reset", "size", "record", "clear", "open"}, 3, FALSE, 0),
           Scene({"reset", "add", "remove"}, 3, FALSE, 0)}
\* A chat server with everything, one that wants a key, an embedder that wants one, and
\* one whose list of models has no object around it.
FourPorts == <<"p1", "p2", "p3", "p4">>
Model(hints, size) == [hints |-> hints, size |-> size]
Shows == [p1 |-> [get |-> "ok", chat |-> "ok", embeddings |-> "404",
                  models |-> <<Model({}, 7), Model({"embed"}, 0)>>],
          p2 |-> [get |-> "ok", chat |-> "401", embeddings |-> "401",
                  models |-> <<Model({"rerank", "embed"}, 0)>>],
          p3 |-> [get |-> "ok", chat |-> "404", embeddings |-> "401",
                  models |-> <<Model({"embed"}, 0)>>],
          p4 |-> [get |-> "list", chat |-> "ok", embeddings |-> "ok", models |-> <<>>]]
Sym == Permutations(ThreeCalls)
=============================================================================
