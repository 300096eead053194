------------------------------ MODULE Probing ------------------------------
(***************************************************************************)
(* What a scan for local inference servers finds (runtime/endpoints.py)    *)
(* and which of it auto_connect takes for a role (runtime/auto_connect.py).*)
(* A face is what a server shows: its reply to GET /models, the models it  *)
(* lists, and its replies to one chat and one embeddings request.  All the *)
(* well-known candidates are asked the OpenAI way.                         *)
(***************************************************************************)
EXTENDS Integers, Sequences, Functions, FiniteSetsExt

CONSTANTS
  Ports,         \* the well-known candidates, in order
  Face           \* what the server at a port shows

AllRoles == {"llm", "embed", "rerank"}

\* A name is known by the hints it contains and the size it states.
Models == [hints : SUBSET {"embed", "rerank"}, size : Nat]
Posts == {"ok", "slow", "4xx", "401", "404", "5xx", "dead"}
Faces == [get : {"ok", "list", "text", "401", "other", "dead"}, models : Seq(Models),
          chat : Posts, embeddings : Posts]

ASSUME Shown == /\ Ports \in Seq(STRING) /\ {"none", "user"} \cap Range(Ports) = {}
                /\ Face \in [Range(Ports) -> Faces]

\* A reranker may also be called after an embedder.
ClassifyRole(m) ==
  IF "rerank" \in m.hints THEN "rerank" ELSE IF "embed" \in m.hints THEN "embed" ELSE "llm"

\* A server that is too slow to answer is taken for a cold one.
ClassifyPost(reply) ==
  CASE reply = "401" -> "auth_required"
    [] reply = "404" -> "endpoint_not_found"
    [] reply \in {"5xx", "dead"} -> "failed"
    [] OTHER -> "none"

AuthProbeBug(f) ==
  IF ClassifyPost(f.chat) = "endpoint_not_found" THEN "none" ELSE ClassifyPost(f.chat)

\* A server without chat may be an embedding server.
AuthProbe(f) ==
  LET chat == ClassifyPost(f.chat)
      embed == ClassifyPost(f.embeddings)
  IN  IF chat = "endpoint_not_found" /\ embed \in {"none", "auth_required"} THEN embed ELSE chat

\* A payload whose root is a list has no get(): the one way a probe raises.
Raises(f) == f.get = "list"

Probe(f) ==
  IF f.get = "ok"
  THEN [reachable |-> AuthProbe(f) = "none", models |-> f.models, error |-> AuthProbe(f)]
  ELSE [reachable |-> FALSE, models |-> <<>>,
        error |-> IF f.get = "401" THEN "auth_required" ELSE f.get]

\* The servers that run and list models or are usable.
Discovered(on) == {p \in on : Probe(Face[p]).reachable \/ Probe(Face[p]).models # <<>>}

\* A model of a server that can be used, and the server's place among the ports.
Candidates(on) ==
  UNION {[at : {i}, model : Range(Face[Ports[i]].models)] : i \in
    {k \in DOMAIN Ports : Ports[k] \in Discovered(on) /\ Probe(Face[Ports[k]]).reachable}}

\* The server of the first that fits; for the language model, of the first of the largest.
Pick(on, role) ==
  LET fit == {c \in Candidates(on) : ClassifyRole(c.model) = role}
      best == {c \in fit : role = "llm" => \A d \in fit : d.model.size <= c.model.size}
  IN  IF fit = {} THEN "none" ELSE Ports[Min({c.at : c \in best})]

\* auto_connect has something to save also when all it saw is a server that wants a key.
Noted(on) == \E p \in Discovered(on) : Probe(Face[p]).error = "auth_required"
=============================================================================
