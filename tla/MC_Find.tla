------------------------------ MODULE MC_Find ------------------------------
EXTENDS Finding

A == <<"a">>
AB == <<"a", "b">>
BB == <<"b", "b">>
\* Groups and hidden parts; bytes and code pages; characters with fallbacks.
ThreeKits == {{"open", "close", "dest", "char", "cell", "row", "par", "raw"},
              {"open", "close", "byte", "pairs", "word", "char", "other"},
              {"open", "close", "uc0", "uc2", "u", "char", "byte"}}
Tidied(n) == {s \in [1..n -> Symbols \ {"par", "?"}] : Tidy(s) = s}
FourChunks == {<<"a", "b", "gap", "a", "nl", "a", "b", "gap", "b", "b">>,
               <<"a", "a", "b", "nl", "b", "b", "a", "a", "gap", "a", "b">>}
ShortTexts == UNION {Tidied(n) : n \in 0..7} \cup FourChunks
Asked == {[wanted |-> w, unwanted |-> u] :
            w \in {{}, {A}, {AB}, {A, BB}, {A, <<"b">>}}, u \in {{}, {AB}, {BB}}}
Stops == {<<"b">>}
\* A stem and a particle, a particle alone, a word with another form.
FormsOf(w) == CASE w = <<"a", "a">> -> {A}
                [] w = <<"b", "a">> -> {}
                [] w = <<"a", "b", "b">> -> {BB, A}
                [] OTHER -> {w}
Other == (AB :> {BB}) @@ (BB :> {AB})
=============================================================================
