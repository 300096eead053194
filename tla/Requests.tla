------------------------------ MODULE Requests ------------------------------
(***************************************************************************)
(* The way of a call from the page to the back end and back.               *)
(*                                                                         *)
(* Three bridges exist.  "sidecar": the Tauri shell (rpc.rs) frames calls  *)
(* to the bundled eoditdeora-core, whose loop serves one at a time.        *)
(* "module": the same with python -m eoditdeora.api.rpc_server, where the  *)
(* loop lives in __main__ and its RpcError is not the class the handlers   *)
(* raise.  "http": the desktop launcher, one thread for every POST.        *)
(*                                                                         *)
(* A handler is search (retriever/service.py, hybrid.py, lexical.py,       *)
(* rag.py) with its exchanges (Upstream), or the search of file names.     *)
(* Ids come from fetch_add, so a call is its own id.                       *)
(***************************************************************************)
EXTENDS Upstream, Sequences, FiniteSets

CONSTANTS
  Bridges,       \* the bridges to explore
  Remote,        \* the calls that may be questions, whose handlers have servers to ask
  MaxTyped       \* bound on the texts typed

ASSUME Setting == Bridges \subseteq {"sidecar", "module", "http"} /\ Remote \subseteq Calls /\ MaxTyped \in Nat

VARIABLES
  bridge,        \* the bridge in use
  child,         \* the sidecar process: "up" or "gone"
  reader,        \* the shell's reader task: "reading", "stuck" or "ended"
  stage,         \* where every call is for its caller
  kind, text,    \* what every call asks for, and the text of a name search
  answer,        \* what every settled call got: whose response, and what it says
  pending,       \* calls with an entry in the pending map
  inbox,         \* frames in the sidecar's stdin
  outbox,        \* frames in its stdout
  job,           \* the handler of every call
  typed, latest, \* the text in the box (0: none); texts typed so far
  due,           \* the debounce timer runs
  shown          \* the text the name results belong to (0: none)

shell == <<pending, inbox, outbox, reader, child>>
page == <<typed, latest, due, shown>>
vars == <<bridge, stage, kind, text, answer, job, up, shell, page>>

Kinds == {"name", "search", "ask", "stream"}
Notes == {"none", "no_results", "index_empty", "search_backend_failed"}
Steps == {"idle", "begin", "retrieve", "dense", "embedding", "rerank", "reranking",
          "warn", "answer", "chatting", "respond", "done"}
NoJob == [at |-> "idle", hits |-> FALSE, note |-> "none", err |-> "none", nan |-> FALSE]

\* What the caller is told: a result, a code, or an error that has none.
Outcomes == {"result", "internal", "shell", "message"} \cup Codes
NoAnswer == [of |-> "nobody", is |-> "none"]

Init ==
  /\ bridge \in Bridges
  /\ child = "up" /\ reader = "reading"
  /\ stage = [c \in Calls |-> "new"]
  /\ kind = [c \in Calls |-> "none"] /\ text = [c \in Calls |-> 0]
  /\ answer = [c \in Calls |-> NoAnswer]
  /\ pending = {} /\ inbox = <<>> /\ outbox = <<>>
  /\ job = [c \in Calls |-> NoJob]
  /\ up = [c \in Calls |-> Idle]
  /\ typed = 0 /\ latest = 0 /\ due = FALSE /\ shown = 0

(***************************************************************************)
(* The page                                                                *)
(***************************************************************************)
Type ==
  /\ latest < MaxTyped
  /\ latest' = latest + 1 /\ typed' = latest + 1 /\ due' = TRUE
  /\ UNCHANGED <<bridge, stage, kind, text, answer, job, up, shell, shown>>

\* Escape clears the box and the results, not the calls that are under way.
Clear ==
  /\ typed # 0
  /\ typed' = 0 /\ due' = FALSE /\ shown' = 0
  /\ UNCHANGED <<bridge, stage, kind, text, answer, job, up, shell, latest>>

\* SidecarState::call up to the lock on the child, or do_POST in a thread of its own.
Ask(c, k, q) ==
  /\ stage[c] = "new"
  /\ kind' = [kind EXCEPT ![c] = k] /\ text' = [text EXCEPT ![c] = IF k = "name" THEN q ELSE 0]
  /\ IF bridge = "http"
     THEN /\ stage' = [stage EXCEPT ![c] = "waiting"]
          /\ job' = [job EXCEPT ![c].at = "begin"]
          /\ UNCHANGED pending
     ELSE /\ stage' = [stage EXCEPT ![c] = "asked"]
          /\ pending' = pending \cup {c}
          /\ UNCHANGED job
  /\ UNCHANGED <<bridge, answer, up, inbox, outbox, reader, child>>

\* The timer: 120 ms after the last key.  By then an earlier call has been written.
Debounce(c) ==
  /\ due /\ \A d \in Calls : stage[d] # "asked"
  /\ Ask(c, "name", typed)
  /\ due' = FALSE
  /\ UNCHANGED <<typed, latest, shown>>

Enter(c) ==
  /\ \E k \in {"search", "ask"} : (k = "ask" => c \in Remote) /\ Ask(c, k, typed)
  /\ UNCHANGED page

\* A caller in the process streams an answer: answer_strict_stream.
Stream(c) ==
  /\ stage[c] = "new" /\ c \in Remote
  /\ kind' = [kind EXCEPT ![c] = "stream"]
  /\ stage' = [stage EXCEPT ![c] = "waiting"]
  /\ job' = [job EXCEPT ![c].at = "chatting"]
  /\ up' = [up EXCEPT ![c] = Fresh("stream")]
  /\ UNCHANGED <<bridge, text, answer, shell, page>>

\* What reaches the page; a name search replaces the list on success only.
Told(c, m) ==
  /\ stage' = [stage EXCEPT ![c] = "settled"]
  /\ answer' = [answer EXCEPT ![c] = m]
  /\ shown' = IF kind[c] = "name" /\ m.is = "result" THEN text[c] ELSE shown
  /\ UNCHANGED <<typed, latest, due>>

Busy(c) == job[c].at \notin {"idle", "done"}

(***************************************************************************)
(* The shell                                                               *)
(***************************************************************************)
\* The frame is written under the lock of the child.  An error leaves the entry behind.
Send(c) ==
  /\ stage[c] = "asked"
  /\ IF child = "up"
     THEN /\ inbox' = Append(inbox, c)
          /\ stage' = [stage EXCEPT ![c] = "waiting"]
          /\ UNCHANGED <<answer, page>>
     ELSE /\ Told(c, [of |-> c, is |-> "shell"])
          /\ UNCHANGED inbox
  /\ UNCHANGED <<bridge, kind, text, job, up, pending, outbox, reader, child>>

DeliverBug ==
  /\ reader = "reading" /\ outbox # <<>>
  /\ LET m == Head(outbox)
         c == CHOOSE d \in pending : \A e \in pending : text[d] <= text[e]
     IN  /\ outbox' = Tail(outbox)
         /\ pending' = pending \ {c}
         /\ Told(c, [of |-> m.of, is |-> m.is])
         /\ UNCHANGED reader
  /\ UNCHANGED <<bridge, kind, text, job, up, inbox, child>>

\* try_take_message gives up on a body serde refuses, NaN, and never drops it;
\* dispatch_message hands a message to the call whose id it has.
Deliver ==
  /\ reader = "reading" /\ outbox # <<>>
  /\ LET m == Head(outbox) IN
     IF m.nan
     THEN /\ reader' = "stuck"
          /\ UNCHANGED <<stage, answer, page, pending, outbox>>
     ELSE /\ outbox' = Tail(outbox)
          /\ pending' = pending \ {m.of}
          /\ Told(m.of, [of |-> m.of, is |-> m.is])
          /\ UNCHANGED reader
  /\ UNCHANGED <<bridge, kind, text, job, up, inbox, child>>

\* The process ends, at any time: what it read and what it had not read are lost.
Die ==
  /\ bridge # "http" /\ child = "up"
  /\ child' = "gone" /\ inbox' = <<>>
  /\ job' = [c \in Calls |-> IF kind[c] # "stream" /\ job[c].at # "idle"
                             THEN [NoJob EXCEPT !.at = "done"] ELSE job[c]]
  /\ up' = [c \in Calls |-> IF kind[c] # "stream" /\ Busy(c) THEN Idle ELSE up[c]]
  /\ UNCHANGED <<bridge, stage, kind, text, answer, pending, outbox, reader, page>>

\* CommandEvent::Terminated follows the last of stdout; the pending map is left as it is.
Terminated ==
  /\ child = "gone" /\ reader # "ended" /\ (outbox = <<>> \/ reader = "stuck")
  /\ reader' = "ended"
  /\ UNCHANGED <<bridge, stage, kind, text, answer, job, up, pending, inbox, outbox, child, page>>

(***************************************************************************)
(* The back end                                                            *)
(***************************************************************************)

ServeBug ==
  /\ child = "up" /\ inbox # <<>>
  /\ \A c \in Calls : Busy(c) => kind[c] = "stream"
  /\ inbox' = SubSeq(inbox, 1, Len(inbox) - 1)
  /\ job' = [job EXCEPT ![inbox[Len(inbox)]].at = "begin"]
  /\ UNCHANGED <<bridge, stage, kind, text, answer, up, pending, outbox, reader, child, page>>

\* The buffer is emptied with every message.
ServeDrainBug ==
  /\ child = "up" /\ inbox # <<>>
  /\ \A c \in Calls : Busy(c) => kind[c] = "stream"
  /\ inbox' = <<>>
  /\ job' = [job EXCEPT ![Head(inbox)].at = "begin"]
  /\ UNCHANGED <<bridge, stage, kind, text, answer, up, pending, outbox, reader, child, page>>

\* run_stdio: one message after the other.
Serve ==
  /\ child = "up" /\ inbox # <<>>
  /\ \A c \in Calls : Busy(c) => kind[c] = "stream"
  /\ inbox' = Tail(inbox)
  /\ job' = [job EXCEPT ![Head(inbox)].at = "begin"]
  /\ UNCHANGED <<bridge, stage, kind, text, answer, up, pending, outbox, reader, child, page>>

At(c, step) == job[c].at = step
Go(c, j) ==
  /\ job' = [job EXCEPT ![c] = j]
  /\ UNCHANGED <<bridge, stage, kind, text, answer, shell, page>>
To(c, step) == Go(c, [job[c] EXCEPT !.at = step]) /\ UNCHANGED up
Call(c, role, step) ==
  /\ c \in Remote
  /\ Go(c, [job[c] EXCEPT !.at = step])
  /\ up' = [up EXCEPT ![c] = Fresh(role)]
Over(c) == up[c].out # "pending"
Forget(c) == up' = [up EXCEPT ![c] = Idle]

\* _files_search in one step; _search and service.search up to the retrieval: an empty
\* query is answered at once, and the history is best effort.
Begin(c) ==
  /\ At(c, "begin")
  /\ IF kind[c] = "name"
     THEN \E e \in {"none", "internal"} :
            Go(c, [job[c] EXCEPT !.at = "respond", !.err = e]) /\ UNCHANGED up
     ELSE \E s \in {"retrieve", "respond"} : To(c, s)

\* lexical_search; fts.search of hybrid_search.  A search that raises is a warning; in
\* hybrid_search that is load_settings only, fts.search alone costs its rows.
Retrieve(c) ==
  /\ At(c, "retrieve") /\ UNCHANGED up
  /\ \/ \E h \in BOOLEAN :
          Go(c, [job[c] EXCEPT !.hits = h, !.at = IF kind[c] = "ask" THEN "dense" ELSE "warn"])
     \/ Go(c, [job[c] EXCEPT !.at = "respond", !.note = "search_backend_failed"])

\* No vector store, or no client for the role.
Dense(c) ==
  /\ At(c, "dense")
  /\ To(c, "rerank") \/ Call(c, "embed", "embedding")

EmbeddedBug(c) ==
  /\ At(c, "embedding") /\ Over(c) /\ Forget(c)
  /\ IF up[c].out \in Codes
     THEN Go(c, [job[c] EXCEPT !.at = "respond", !.err = up[c].out])
     ELSE Go(c, [job[c] EXCEPT !.at = "rerank"])

\* Whatever embed or the vector search raise, the rows of the other store stay.
Embedded(c) ==
  /\ At(c, "embedding") /\ Over(c) /\ Forget(c)
  /\ \E h \in BOOLEAN :
       /\ job[c].hits => h
       /\ h # job[c].hits => up[c].out = "ok"
       /\ Go(c, [job[c] EXCEPT !.at = "rerank", !.hits = h])

Rerank(c) ==
  /\ At(c, "rerank")
  /\ \/ To(c, "warn")
     \/ job[c].hits /\ Call(c, "rerank", "reranking")

\* Any failure keeps the fusion order.  A score that is no number goes into the payload.
Reranked(c) ==
  /\ At(c, "reranking") /\ Over(c) /\ Forget(c)
  /\ \E n \in BOOLEAN :
       /\ n => up[c].out = "nan"
       /\ Go(c, [job[c] EXCEPT !.at = "warn", !.nan = n])

Warn(c) ==
  /\ At(c, "warn") /\ UNCHANGED up
  /\ \E w \in Notes \ {"search_backend_failed"} :
       /\ (w = "none") = job[c].hits
       /\ Go(c, [job[c] EXCEPT !.note = w, !.at = IF kind[c] = "ask" THEN "answer" ELSE "respond"])

\* answer_strict: nothing to cite, no client, or no client to be had.
Answer(c) ==
  /\ At(c, "answer")
  /\ \/ To(c, "respond")
     \/ job[c].hits /\ Call(c, "llm", "chatting")

\* Only an RpcError is answered.
AnsweredBug(c) ==
  /\ At(c, "chatting") /\ Over(c) /\ UNCHANGED up
  /\ Go(c, IF kind[c] = "ask" /\ up[c].out \in Codes THEN [job[c] EXCEPT !.at = "respond", !.err = up[c].out]
            ELSE [job[c] EXCEPT !.at = IF up[c].out = "crash" THEN "done" ELSE "respond"])

\* An RpcError is passed on, and the hits with it are not; any other exception is an answer.
Answered(c) ==
  /\ At(c, "chatting") /\ Over(c) /\ UNCHANGED up
  /\ Go(c, [job[c] EXCEPT !.at = "respond", 
       !.err = IF kind[c] = "ask" /\ up[c].out \in Codes THEN up[c].out ELSE "none"])

\* handle_single.  In __main__ an RpcError is any exception.
Coded(e) == IF bridge = "module" THEN "internal" ELSE e

\* The frame is written; or the POST is answered, and the shim keeps the message of an error
\* only, and cannot parse NaN.  answer_strict_stream turned every error into an event.
Respond(c) ==
  /\ At(c, "respond") /\ Forget(c)
  /\ job' = [job EXCEPT ![c] = [NoJob EXCEPT !.at = "done"]]
  /\ LET o == IF job[c].err = "none" THEN "result" ELSE Coded(job[c].err) IN
     CASE kind[c] = "stream" -> Told(c, [of |-> c, is |-> "result"]) /\ UNCHANGED outbox
       [] kind[c] # "stream" /\ bridge = "http" ->
            /\ Told(c, [of |-> c, is |-> IF o = "result" /\ ~job[c].nan THEN o ELSE "message"])
            /\ UNCHANGED outbox
       [] OTHER ->
            /\ outbox' = Append(outbox, [of |-> c, is |-> o, nan |-> job[c].nan /\ o = "result"])
            /\ UNCHANGED <<stage, answer, page>>
  /\ UNCHANGED <<bridge, kind, text, pending, inbox, reader, child>>

Exchanging(c) ==
  /\ job[c].at \in {"embedding", "reranking", "chatting"}
  /\ Exchange(c)
  /\ UNCHANGED <<bridge, stage, kind, text, answer, job, shell, page>>

Handle(c) ==
  \/ Begin(c) \/ Retrieve(c) \/ Dense(c) \/ Embedded(c) \/ Rerank(c) \/ Reranked(c)
  \/ Warn(c) \/ Answer(c) \/ Answered(c) \/ Respond(c) \/ Exchanging(c)

Next ==
  \/ Type \/ Clear \/ Deliver \/ Die \/ Terminated \/ Serve
  \/ \E c \in Calls : Debounce(c) \/ Enter(c) \/ Stream(c) \/ Send(c) \/ Handle(c)

\* The loops run on; every attempt of httpx has a time-out.  Nobody has to type, or to die.
Fairness ==
  /\ WF_vars(Deliver) /\ WF_vars(Serve) /\ WF_vars(Terminated)
  /\ \A c \in Calls : WF_vars(Send(c)) /\ WF_vars(Handle(c))

Spec == Init /\ [][Next]_vars /\ Fairness

(***************************************************************************)
(* Properties                                                              *)
(***************************************************************************)
\* Every variable keeps its type.
TypeOK ==
  /\ bridge \in Bridges /\ child \in {"up", "gone"} /\ reader \in {"reading", "stuck", "ended"}
  /\ stage \in [Calls -> {"new", "asked", "waiting", "settled"}]
  /\ kind \in [Calls -> Kinds \cup {"none"}] /\ text \in [Calls -> 0..MaxTyped]
  /\ answer \in [Calls -> [of : Calls \cup {"nobody"}, is : Outcomes \cup {"none"}]]
  /\ pending \subseteq Calls /\ inbox \in Seq(Calls)
  /\ outbox \in Seq([of : Calls, is : Outcomes, nan : BOOLEAN])
  /\ job \in [Calls -> [at : Steps, hits : BOOLEAN, note : Notes,
                        err : {"none", "internal"} \cup Codes, nan : BOOLEAN]]
  /\ up \in [Calls -> [role : Roles \cup {"none"}, attempt : 0..MaxAttempts, delay : 1..MaxDelay,
                       slept : Nat, chunks : 0..MaxChunks, from : 0..MaxAttempts,
                       out : Verdicts \cup {"pending", "none"}]]
  /\ typed \in 0..latest /\ latest \in 0..MaxTyped /\ due \in BOOLEAN /\ shown \in 0..latest

\* The page sees a ledger: every call it makes is settled at most once, with the outcome
\* of its own request, however frames queue up and handlers overlap (the pending map of
\* rpc.rs, the ids of handle_single, the thread of a POST).
Ledger == INSTANCE CallLedger WITH
  status <- [c \in Calls |->
    IF stage[c] = "settled" THEN answer[c]
    ELSE [of |-> "nobody", is |-> IF stage[c] = "new" THEN "new" ELSE "waiting"]]
LedgerSpec == Ledger!Spec

\* A call that waits is on its way, unless the side-car ended or a body that is no JSON
\* blocks the frames behind it (dispatch_message, try_take_message): there is no time-out
\* to end the wait, so nothing else may lose a frame.
HangsOnlyAfterLoss ==
  /\ \A c \in Calls : stage[c] = "waiting" =>
       \/ Busy(c)
       \/ \E i \in DOMAIN inbox : inbox[i] = c
       \/ \E i \in DOMAIN outbox : outbox[i].of = c
       \/ child = "gone"
  /\ reader = "stuck" => Head(outbox).nan

\* Whatever the inference servers do, a call that was made returns: retries end, and no
\* failure of a handler is left without a response; the exceptions are the two above.
EveryCallReturns ==
  \A c \in Calls :
    stage[c] \in {"asked", "waiting"} ~> stage[c] = "settled" \/ child = "gone" \/ reader = "stuck"

\* A request is tried three times and sleeps two capped delays at most, Retry-After
\* included; it gives up with "rate limited" on the last attempt only, and with
\* "unavailable" then or after it handed on a part of the answer.
PatienceBounded ==
  \A c \in Calls :
    /\ up[c].slept <= (MaxAttempts - 1) * MaxDelay
    /\ up[c].out = "rate_limit" => up[c].attempt = MaxAttempts
    /\ up[c].out = "unavailable" => up[c].attempt = MaxAttempts \/ up[c].chunks > 0

\* What was streamed comes from one reply: once a chunk was handed on chat_stream
\* never asks again, which would repeat the beginning of the answer.
NoReplay ==
  [][\A c \in Calls : up[c].chunks > 0 /\ up'[c].role = "stream" =>
       up'[c].from = up[c].from /\ up'[c].attempt = up[c].attempt]_up

\* Only the language model can make an answer fail, with the code its client raised, and
\* only the bundled side-car delivers the code: the rows that were found survive every failure of
\* the embedding server and the reranker, and a content search needs no server.
OnlyAnswererFails ==
  \A c \in Calls :
    /\ job[c].err \in Codes => kind[c] = "ask" /\ up[c].role = "llm" /\ up[c].out = job[c].err
    /\ answer[c].is \in Codes => kind[c] = "ask" /\ bridge = "sidecar"
    /\ kind[c] = "search" => up[c] = Idle /\ answer[c].is \notin {"internal", "message"}

\* Once the side-car has answered every name search with rows, the page shows those of the
\* text in the box.  The page does not compare texts: this rests on the order of the frames,
\* and the launcher's threads do not keep it.
ShownIsLatest ==
  /\ bridge # "http" /\ typed # 0 /\ ~due
  /\ \A c \in Calls : kind[c] = "name" => stage[c] = "settled" /\ answer[c].is = "result"
  => shown = typed
=============================================================================
