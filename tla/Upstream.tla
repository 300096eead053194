------------------------------ MODULE Upstream ------------------------------
(***************************************************************************)
(* The HTTP clients of the inference servers (runtime/clients.py): one     *)
(* request with its retries, back-off, Retry-After and classification of   *)
(* the reply, and the streamed chat.  Delays are in tenths of a second.    *)
(* One action is one attempt with the sleep that follows it.               *)
(***************************************************************************)
EXTENDS Integers

CONSTANTS
  Calls,         \* calls of the interface: each has at most one exchange at a time
  MaxChunks      \* bound on the chunks of one streamed reply

ASSUME Chunks == MaxChunks \in Nat

VARIABLE up      \* the exchange of every call

MaxAttempts == 3
InitialDelay == 2
MaxDelay == 10

Roles == {"embed", "rerank", "llm", "stream"}

\* Codes of RpcError; a "crash" is any other Python exception.
Codes == {"auth", "not_found", "rate_limit", "bad_request", "unavailable", "bad_response"}
Verdicts == {"ok", "nan", "crash"} \cup Codes

Fresh(role) ==
  [role |-> role, attempt |-> 0, delay |-> InitialDelay, slept |-> 0,
   chunks |-> 0, from |-> 0, out |-> "pending"]
Idle == [Fresh("none") EXCEPT !.out = "none"]

\* What can come back: no answer at all, or a status.
Replies == {"transport", "2xx", "401", "404", "429", "4xx", "5xx"}
Refused(r) == r \notin {"transport", "2xx"}

Retryable(r) == r \in {"429", "5xx"}

\* Retry-After: absent, unreadable or past; a minute, capped; "nan", a float like any other.
Headers == {"none", "minute", "nan"}
Capped(d) == IF d > MaxDelay THEN MaxDelay ELSE d

RetryDelayBug(h, d) ==
  CASE h = "minute" -> 600
    [] h = "nan" -> -1
    [] OTHER -> d

\* min(nan, 1.0) is nan, and no comparison with nan holds.
RetryDelay(h, d) ==
  CASE h = "minute" -> MaxDelay
    [] h = "nan" -> -1
    [] OTHER -> d

Classify(r) ==
  CASE r = "401" -> "auth"
    [] r = "404" -> "not_found"
    [] r = "429" -> "rate_limit"
    [] r = "4xx" -> "bad_request"
    [] OTHER -> "unavailable"

\* The body of a 2xx reply: as expected; expected but with a number that is NaN; no JSON
\* or JSON of another shape; JSON whose root is no object, or (rerank) an infinite index.
Bodies == {"good", "nan", "shape", "list"}

\* An embedding is checked to be finite; the score of a reranker is not.
Read(role, b) ==
  CASE b = "good" -> "ok"
    [] b = "nan" -> (CASE role = "rerank" -> "nan" [] role = "embed" -> "bad_response" [] OTHER -> "ok")
    [] b = "shape" -> "bad_response"
    [] b = "list" -> "crash"

Slept(e, d) ==
  [e EXCEPT !.slept = @ + d, !.delay = Capped(2 * @)]

\* One turn of the loop of _post_json and chat_stream before the reply is read.  httpx has
\* not read the body of a streamed refusal, and looking for its detail raises.
Turn(e, r, h, more) ==
  LET wait == IF r = "transport" THEN e.delay ELSE RetryDelay(h, e.delay)
      f == [e EXCEPT !.attempt = @ + 1]
  IN  IF more /\ (r = "transport" \/ Retryable(r))
      THEN IF wait < 0 THEN [f EXCEPT !.out = "crash"] ELSE Slept(f, wait)
      ELSE [f EXCEPT !.out = IF e.role = "stream" /\ Refused(r) THEN "crash" ELSE Classify(r)]

RefusalBug(e, r, h) == Turn(e, r, h, e.attempt < MaxAttempts)

Refusal(e, r, h) == Turn(e, r, h, e.attempt + 1 < MaxAttempts)

Ready(c) == up[c].out = "pending" /\ up[c].from = 0

\* A reply that is no success, to a request of either kind.
Refuse(c) ==
  /\ Ready(c)
  /\ \E r \in Replies \ {"2xx"}, h \in Headers :
       /\ Refused(r) \/ h = "none"
       /\ up' = [up EXCEPT ![c] = Refusal(@, r, h)]

Received(e, b) == [e EXCEPT !.attempt = @ + 1, !.out = Read(e.role, b)]

\* _post_json reads the body of a success.
Receive(c) ==
  /\ Ready(c) /\ up[c].role # "stream"
  /\ \E b \in Bodies : up' = [up EXCEPT ![c] = Received(@, b)]

Opened(e) == [e EXCEPT !.attempt = @ + 1, !.from = e.attempt + 1]

\* chat_stream: the reply begins; "from" is the attempt that answers.
Open(c) ==
  /\ Ready(c) /\ up[c].role = "stream"
  /\ up' = [up EXCEPT ![c] = Opened(@)]

Streaming(c) == up[c].out = "pending" /\ up[c].from > 0

\* A chunk with text is handed on; the ones without are skipped.
Chunk(c) ==
  /\ Streaming(c) /\ up[c].chunks < MaxChunks
  /\ up' = [up EXCEPT ![c].chunks = @ + 1]

\* [DONE], or the end of the lines without it.
Finish(c) ==
  /\ Streaming(c)
  /\ up' = [up EXCEPT ![c].out = "ok"]

\* A chunk that is no JSON, or JSON of another shape.
Garble(c) ==
  /\ Streaming(c)
  /\ \E o \in {"bad_response", "crash"} : up' = [up EXCEPT ![c].out = o]

CutBug(c) ==
  /\ Streaming(c)
  /\ up' = [up EXCEPT ![c] =
       IF @.attempt < MaxAttempts
       THEN [Slept(@, @.delay) EXCEPT !.from = 0]
       ELSE [@ EXCEPT !.out = "unavailable"]]

\* The connection breaks: tried again only as long as nothing was handed on.
Cut(c) ==
  /\ Streaming(c)
  /\ up' = [up EXCEPT ![c] =
       IF @.chunks = 0 /\ @.attempt < MaxAttempts
       THEN [Slept(@, @.delay) EXCEPT !.from = 0]
       ELSE [@ EXCEPT !.out = "unavailable"]]

Exchange(c) == Refuse(c) \/ Receive(c) \/ Open(c) \/ Chunk(c) \/ Finish(c) \/ Garble(c) \/ Cut(c)
=============================================================================
