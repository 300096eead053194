--------------------------- MODULE RequestsProofs ---------------------------
(***************************************************************************)
(* Theorems about the way of a call, for every number of calls, chunks and *)
(* typed texts, every choice of bridges, and whatever the servers, the     *)
(* user and the side-car do.                                               *)
(***************************************************************************)
EXTENDS Requests, TLAPS

(***************************************************************************)
(* The invariants                                                          *)
(***************************************************************************)
(* One exchange.                                                           *)
Exchanges == [role : Roles \cup {"none"}, attempt : 0..MaxAttempts, delay : 1..MaxDelay,
              slept : Nat, chunks : 0..MaxChunks, from : 0..MaxAttempts,
              out : Verdicts \cup {"pending", "none"}]

(* What an exchange knows of itself: only a stream that has begun hands on *)
(* chunks, and every attempt but the one under way has slept once.         *)
Patient(e) ==
  /\ e.out # "none" => e.role \in Roles
  /\ e.chunks > 0 => e.from > 0
  /\ e.from > 0 => e.role = "stream" /\ e.from = e.attempt
  /\ e.out = "pending" /\ e.from = 0 =>
       e.attempt < MaxAttempts /\ e.slept <= e.attempt * MaxDelay
  /\ e.out = "pending" /\ e.from > 0 => e.slept <= (e.attempt - 1) * MaxDelay
  /\ e.slept <= (MaxAttempts - 1) * MaxDelay
  /\ e.out = "rate_limit" => e.attempt = MaxAttempts
  /\ e.out = "unavailable" => e.attempt = MaxAttempts \/ e.chunks > 0

AllPatient == \A c \in Calls : Patient(up[c])

(* A text that was searched for was typed.                                 *)
TextsTyped == \A c \in Calls : text[c] <= latest

TypeInv == TypeOK /\ AllPatient /\ TextsTyped

(* Where a call is: new and asked calls have no job; a call with a job is  *)
(* waited for; a frame belongs to a call that is waited for, whose job is  *)
(* not begun (inbox) or done (outbox), and there is one frame for it.      *)
PlacedCall(c) ==
  /\ stage[c] \in {"new", "asked"} => job[c].at = "idle"
  /\ Busy(c) => stage[c] = "waiting"
  /\ stage[c] = "new" => up[c] = Idle /\ kind[c] = "none"
  /\ kind[c] = "none" => stage[c] = "new"
  /\ stage[c] = "asked" => bridge # "http"
PlacedIn ==
  /\ \A i \in 1..Len(inbox) : stage[inbox[i]] = "waiting" /\ job[inbox[i]].at = "idle"
  /\ \A i, j \in 1..Len(inbox) : inbox[i] = inbox[j] => i = j
PlacedOut ==
  /\ \A i \in 1..Len(outbox) : stage[outbox[i].of] = "waiting" /\ job[outbox[i].of].at = "done"
  /\ \A i, j \in 1..Len(outbox) : outbox[i].of = outbox[j].of => i = j
Placed == (\A c \in Calls : PlacedCall(c)) /\ PlacedIn /\ PlacedOut

PlacedInv == TypeInv /\ Placed

(* What a handler is at goes with what it was asked for, k, and with the   *)
(* exchange e it has.                                                      *)
AskSteps == {"dense", "embedding", "rerank", "reranking", "answer"}
Fits(k, j, e) ==
  /\ j.at = "begin" => k # "stream"
  /\ j.at \in {"retrieve", "warn"} => k \in {"search", "ask"}
  /\ j.at \in AskSteps => k = "ask"
  /\ j.at = "chatting" => k \in {"ask", "stream"} /\ e.role = IF k = "ask" THEN "llm" ELSE "stream"
  /\ j.at \in {"embedding", "reranking", "chatting"} \/ (j.at = "respond" /\ k \in {"ask", "stream"})
     \/ e = Idle
  /\ j.nan => k = "ask"
  /\ j.err # "none" => j.at = "respond"
  /\ j.err = "internal" => k = "name"
  /\ j.err \in Codes => k = "ask" /\ e.role = "llm" /\ e.out = j.err

(* What a frame or an answer may say to a call of kind k.                  *)
Says(k, o) ==
  /\ o \in Codes => k = "ask" /\ bridge = "sidecar"
  /\ k = "search" => o \notin {"internal", "message"}

Fitting ==
  /\ \A c \in Calls :
       /\ Fits(kind[c], job[c], up[c]) /\ Says(kind[c], answer[c].is)
       /\ stage[c] = "new" => answer[c] = NoAnswer
       /\ stage[c] = "asked" => kind[c] # "stream"
  /\ \A i \in 1..Len(inbox) : kind[inbox[i]] # "stream"
  /\ \A i \in 1..Len(outbox) : Says(kind[outbox[i].of], outbox[i].is)

AnswererInv == PlacedInv /\ Fitting

(* Nothing is lost while the side-car lives: a call that waits has a       *)
(* handler or a frame.                                                     *)
InFlight(c) ==
  \/ Busy(c)
  \/ \E i \in 1..Len(inbox) : inbox[i] = c
  \/ \E i \in 1..Len(outbox) : outbox[i].of = c
Kept ==
  /\ \A c \in Calls : stage[c] = "waiting" => InFlight(c) \/ child = "gone"
  /\ reader = "stuck" => outbox # <<>> /\ Head(outbox).nan
LossInv == PlacedInv /\ Kept

(* Name searches keep their order from the box to the list.                *)
Named(c) == kind[c] = "name"
Rows(c) == stage[c] = "settled" /\ answer[c].is = "result"
BoxOrder ==
  /\ typed \in {0, latest}
  /\ due => typed = latest /\ latest > 0
  /\ \A c \in Calls : Named(c) => text[c] \in 1..latest /\ (due => text[c] < latest)
  /\ \A c, d \in Calls : Named(c) /\ Named(d) /\ text[c] = text[d] => c = d
  /\ typed # 0 /\ ~due => \E c \in Calls : Named(c) /\ text[c] = typed
OneBusy ==
  \A c, d \in Calls : Busy(c) /\ Busy(d) /\ kind[c] # "stream" /\ kind[d] # "stream" => c = d
InOrder ==
  \A i, j \in 1..Len(inbox) :
    i < j /\ Named(inbox[i]) /\ Named(inbox[j]) => text[inbox[i]] < text[inbox[j]]
OutOrder ==
  \A i, j \in 1..Len(outbox) :
    i < j /\ Named(outbox[i].of) /\ Named(outbox[j].of) => text[outbox[i].of] < text[outbox[j].of]
BusyBefore ==
  \A c \in Calls, i \in 1..Len(inbox) :
    Busy(c) /\ Named(c) /\ Named(inbox[i]) => text[c] < text[inbox[i]]
BusyAfter ==
  \A c \in Calls, i \in 1..Len(outbox) :
    Busy(c) /\ Named(c) /\ Named(outbox[i].of) => text[outbox[i].of] < text[c]
OutBeforeIn ==
  \A i \in 1..Len(inbox), j \in 1..Len(outbox) :
    Named(inbox[i]) /\ Named(outbox[j].of) => text[outbox[j].of] < text[inbox[i]]
FrameOrder == OneBusy /\ InOrder /\ OutOrder /\ BusyBefore /\ BusyAfter /\ OutBeforeIn
ListOrder ==
  /\ \A c, d \in Calls : stage[c] = "asked" /\ Named(c) /\ Named(d) /\ c # d => text[d] < text[c]
  /\ \A c, d \in Calls : Rows(c) /\ InFlight(d) /\ Named(c) /\ Named(d) => text[c] < text[d]
  /\ \A c \in Calls : Named(c) /\ Rows(c) /\ text[c] = typed => shown = typed
ShownInv == PlacedInv /\ BoxOrder /\ (bridge # "http" => FrameOrder /\ ListOrder)
-----------------------------------------------------------------------------
(* Exchanges.                                                              *)

LEMMA FreshExchange ==
  ASSUME NEW role \in Roles
  PROVE  Fresh(role) \in Exchanges /\ Patient(Fresh(role)) /\ Fresh(role).role = role
BY Chunks DEF Fresh, Exchanges, Patient, MaxAttempts, MaxDelay, InitialDelay, Roles

LEMMA IdleExchange == Idle \in Exchanges /\ Patient(Idle)
BY Chunks DEF Idle, Fresh, Exchanges, Patient, MaxAttempts, MaxDelay, InitialDelay, Roles

(* A refusal is retried while attempts are left, and then given its code.  *)
LEMMA RefusalIs ==
  ASSUME NEW e \in Exchanges, Patient(e), e.out = "pending", e.from = 0,
         NEW r \in Replies \ {"2xx"}, NEW h \in Headers, Refused(r) \/ h = "none"
  PROVE  /\ Refusal(e, r, h) \in Exchanges
         /\ Patient(Refusal(e, r, h))
         /\ Refusal(e, r, h).role = e.role
         /\ Refusal(e, r, h).out # "none"
<1> DEFINE wait == IF r = "transport" THEN e.delay ELSE RetryDelay(h, e.delay)
           more == e.attempt + 1 < MaxAttempts
           f == [e EXCEPT !.attempt = @ + 1]
<1>1. /\ e.attempt \in 0..2 /\ e.delay \in 1..10 /\ e.slept \in Nat /\ e.chunks = 0
      /\ e.slept <= e.attempt * 10 /\ e.role \in Roles /\ e.from = 0
  BY Chunks DEF Exchanges, Patient, MaxAttempts, MaxDelay
<1>2. f \in Exchanges /\ f.attempt = e.attempt + 1 /\ f.role = e.role /\ f.slept = e.slept
      /\ f.delay = e.delay /\ f.chunks = 0 /\ f.from = 0 /\ f.out = "pending"
  BY <1>1 DEF Exchanges, MaxAttempts
<1>3. wait \in {-1} \cup 1..10
  BY <1>1 DEF RetryDelay, MaxDelay, Headers
<1>4. Refusal(e, r, h) = Turn(e, r, h, more)
  BY DEF Refusal
<1>5. CASE more /\ (r = "transport" \/ Retryable(r))
  <2>1. CASE wait < 0
    <3>1. Refusal(e, r, h) = [f EXCEPT !.out = "crash"]
      BY <1>4, <1>5, <2>1 DEF Turn
    <3> HIDE DEF f
    <3> DEFINE g == [f EXCEPT !.out = "crash"]
    <3>2. g \in Exchanges
      BY <1>2 DEF Exchanges, Verdicts
    <3>3. g.out = "crash" /\ g.role = e.role /\ g.slept = e.slept /\ g.chunks = 0 /\ g.from = 0
      BY <1>2 DEF Exchanges
    <3> HIDE DEF g
    <3>4. Patient(g)
      BY <1>1, <3>3 DEF Patient, MaxAttempts, MaxDelay
    <3> QED BY <3>1, <3>2, <3>3, <3>4 DEF g
  <2>2. CASE wait >= 0
    <3>1. Refusal(e, r, h) = Slept(f, wait)
      BY <1>3, <1>4, <1>5, <2>2 DEF Turn
    <3>2. wait \in 1..10
      BY <1>3, <2>2
    <3>3. Capped(2 * e.delay) \in 1..10
      BY <1>1 DEF Capped, MaxDelay
    <3>4. Slept(f, wait) = [f EXCEPT !.slept = f.slept + wait, !.delay = Capped(2 * e.delay)]
      BY <1>2 DEF Slept
    <3> HIDE DEF wait, f
    <3> DEFINE g == [f EXCEPT !.slept = f.slept + wait, !.delay = Capped(2 * e.delay)]
    <3>5. g \in Exchanges
      <4> DEFINE n == f.slept + wait
                 d == Capped(2 * e.delay)
      <4>1. n \in Nat /\ d \in 1..MaxDelay
        BY <1>1, <1>2, <3>2, <3>3 DEF MaxDelay
      <4> HIDE DEF n, d
      <4>2. [f EXCEPT !.slept = n, !.delay = d] \in Exchanges
        BY <1>2, <4>1 DEF Exchanges
      <4> QED BY <4>2 DEF n, d
    <3>6. g.out = "pending" /\ g.role = e.role /\ g.slept = e.slept + wait /\ g.chunks = 0
          /\ g.from = 0 /\ g.attempt = e.attempt + 1
      BY <1>2 DEF Exchanges
    <3> HIDE DEF g
    <3>7. Patient(g)
      BY <1>1, <1>5, <3>2, <3>6 DEF Patient, MaxAttempts, MaxDelay
    <3> QED BY <3>1, <3>4, <3>5, <3>6, <3>7 DEF g
  <2> QED BY <1>3, <2>1, <2>2
<1>6. CASE ~(more /\ (r = "transport" \/ Retryable(r)))
  <2> DEFINE o == IF e.role = "stream" /\ Refused(r) THEN "crash" ELSE Classify(r)
  <2>1. Refusal(e, r, h) = [f EXCEPT !.out = o]
    BY <1>4, <1>6 DEF Turn
  <2>2. o \in Verdicts
    BY DEF Classify, Verdicts, Codes
  <2>3. o \in {"rate_limit", "unavailable"} => e.attempt + 1 = MaxAttempts
    BY <1>1, <1>6 DEF Classify, Retryable, Replies, MaxAttempts
  <2>4. o \notin {"pending", "none"}
    BY <2>2 DEF Verdicts, Codes
  <2> HIDE DEF o, f
  <2> DEFINE g == [f EXCEPT !.out = o]
  <2>5. g \in Exchanges
    BY <1>2, <2>2 DEF Exchanges
  <2>6. g.out = o /\ g.role = e.role /\ g.slept = e.slept /\ g.chunks = 0 /\ g.from = 0
        /\ g.attempt = e.attempt + 1
    BY <1>2 DEF Exchanges
  <2> HIDE DEF g
  <2>7. Patient(g)
    BY <1>1, <2>3, <2>4, <2>6 DEF Patient, MaxAttempts, MaxDelay
  <2> QED BY <2>1, <2>4, <2>5, <2>6, <2>7 DEF g
<1> QED BY <1>5, <1>6

(* Every step of an exchange goes on with it: patience and the role stay,  *)
(* and a stream that has handed on something keeps its reply.              *)
LEMMA ExchangeStep ==
  ASSUME NEW c \in Calls, up \in [Calls -> Exchanges], Patient(up[c]), Exchange(c)
  PROVE  /\ up[c].out = "pending"
         /\ \E f \in Exchanges :
              /\ up' = [up EXCEPT ![c] = f]
              /\ Patient(f) /\ f.role = up[c].role /\ f.out # "none"
              /\ up[c].chunks > 0 => f.from = up[c].from /\ f.attempt = up[c].attempt
<1> DEFINE e == up[c]
           Goal(f) == /\ up' = [up EXCEPT ![c] = f]
                      /\ Patient(f) /\ f.role = e.role /\ f.out # "none"
                      /\ e.chunks > 0 => f.from = e.from /\ f.attempt = e.attempt
<1>0. e \in Exchanges /\ Patient(e)
  OBVIOUS
<1> SUFFICES e.out = "pending" /\ \E f \in Exchanges : Goal(f)
  OBVIOUS
<1> HIDE DEF e
<1>1. ASSUME Ready(c)
      PROVE  /\ e.out = "pending" /\ e.from = 0 /\ e.chunks = 0 /\ e.attempt \in 0..2
             /\ e.role \in Roles /\ e.slept \in Nat /\ e.slept <= e.attempt * 10
  BY <1>0, <1>1, Chunks DEF e, Ready, Patient, Exchanges, MaxAttempts, MaxDelay
<1>2. ASSUME Streaming(c)
      PROVE  /\ e.out = "pending" /\ e.from \in 1..3 /\ e.attempt = e.from /\ e.role = "stream"
             /\ e.slept \in Nat /\ e.slept <= (e.attempt - 1) * 10 /\ e.chunks \in Nat
             /\ e.delay \in 1..10
  BY <1>0, <1>2, Chunks DEF e, Streaming, Patient, Exchanges, MaxAttempts, MaxDelay
<1>3. CASE Refuse(c)
  <2>1. PICK r \in Replies \ {"2xx"}, h \in Headers :
          /\ Refused(r) \/ h = "none"
          /\ up' = [up EXCEPT ![c] = Refusal(e, r, h)]
    BY <1>3 DEF Refuse, e
  <2>2. Ready(c)
    BY <1>3 DEF Refuse
  <2>3. PICK f : f = Refusal(e, r, h)
    OBVIOUS
  <2>4. f \in Exchanges /\ Patient(f) /\ f.role = e.role /\ f.out # "none"
    BY <1>0, <1>1, <2>1, <2>2, <2>3, RefusalIs
  <2>5. Goal(f)
    BY <1>1, <2>1, <2>2, <2>3, <2>4
  <2> QED BY <1>1, <2>2, <2>4, <2>5
<1>4. CASE Receive(c)
  <2>1. PICK b \in Bodies :
          up' = [up EXCEPT ![c] = Received(e, b)]
    BY <1>4 DEF Receive, e
  <2>2. Ready(c)
    BY <1>4 DEF Receive
  <2>3. Read(e.role, b) \in {"ok", "nan", "crash", "bad_response"}
    BY DEF Read, Bodies
  <2>4. PICK f : f = Received(e, b)
    OBVIOUS
  <2>5. up' = [up EXCEPT ![c] = f]
    BY <2>1, <2>4
  <2> DEFINE n == e.attempt + 1
             o == Read(e.role, b)
  <2>6. f = [e EXCEPT !.attempt = n, !.out = o]
    BY <2>4 DEF Received
  <2>7. n \in 0..MaxAttempts /\ o \in Verdicts
    BY <1>1, <2>2, <2>3 DEF MaxAttempts, Verdicts, Codes
  <2> HIDE DEF n, o
  <2>8. f \in Exchanges
    BY <1>0, <2>6, <2>7 DEF Exchanges
  <2>9. f.role = e.role /\ f.out = o /\ f.attempt = n
        /\ f.slept = e.slept /\ f.chunks = e.chunks /\ f.from = e.from
    BY <1>0, <2>6 DEF Exchanges
  <2>10. Patient(f)
    BY <1>1, <2>2, <2>3, <2>9 DEF Patient, MaxAttempts, MaxDelay, n, o
  <2>11. Goal(f)
    BY <1>1, <2>2, <2>3, <2>5, <2>9, <2>10 DEF o
  <2> QED BY <1>1, <2>2, <2>8, <2>11
<1>5. CASE Open(c)
  <2>1. Ready(c) /\ e.role = "stream"
    BY <1>5 DEF Open, e
  <2>2. PICK f : f = Opened(e)
    OBVIOUS
  <2>3. up' = [up EXCEPT ![c] = f]
    BY <1>5, <2>2 DEF Open, e
  <2> DEFINE n == e.attempt + 1
  <2>4. f = [e EXCEPT !.attempt = n, !.from = n]
    BY <2>2 DEF Opened
  <2>5. n \in 0..MaxAttempts
    BY <1>1, <2>1 DEF MaxAttempts
  <2> HIDE DEF n
  <2>6. f \in Exchanges
    BY <1>0, <2>4, <2>5 DEF Exchanges, MaxAttempts
  <2>7. f.role = e.role /\ f.out = e.out /\ f.attempt = n
        /\ f.slept = e.slept /\ f.chunks = e.chunks /\ f.from = n
    BY <1>0, <2>4 DEF Exchanges
  <2>8. Patient(f)
    BY <1>1, <2>1, <2>5, <2>7 DEF Patient, MaxAttempts, MaxDelay, n
  <2>9. Goal(f)
    BY <1>1, <2>1, <2>3, <2>7, <2>8
  <2> QED BY <1>1, <2>1, <2>6, <2>9
<1>6. CASE Chunk(c)
  <2> DEFINE f == [e EXCEPT !.chunks = @ + 1]
  <2>1. Streaming(c) /\ up' = [up EXCEPT ![c] = f] /\ e.chunks < MaxChunks
    BY <1>0, <1>6 DEF Chunk, Exchanges, e
  <2>2. f \in Exchanges
    BY <1>0, <1>2, <2>1, Chunks DEF Exchanges
  <2>3. f.role = e.role /\ f.out = e.out /\ f.attempt = e.attempt
        /\ f.slept = e.slept /\ f.chunks = e.chunks + 1 /\ f.from = e.from
    BY <1>0 DEF Exchanges
  <2> HIDE DEF f
  <2>4. Patient(f)
    BY <1>2, <2>1, <2>3 DEF Patient, Roles, MaxAttempts, MaxDelay
  <2> QED BY <1>2, <2>1, <2>2, <2>3, <2>4
<1>7. ASSUME NEW o \in {"ok", "bad_response", "crash", "unavailable"}, Streaming(c),
             up' = [up EXCEPT ![c].out = o],
             o = "unavailable" => e.chunks > 0 \/ e.attempt = MaxAttempts
      PROVE  e.out = "pending" /\ \E f \in Exchanges : Goal(f)
  <2> DEFINE f == [e EXCEPT !.out = o]
  <2>1. up' = [up EXCEPT ![c] = f]
    BY <1>7 DEF e
  <2>2. f \in Exchanges
    BY <1>0, <1>7 DEF Exchanges, Verdicts, Codes
  <2>3. f.role = e.role /\ f.out = o /\ f.attempt = e.attempt
        /\ f.slept = e.slept /\ f.chunks = e.chunks /\ f.from = e.from
    BY <1>0 DEF Exchanges
  <2> HIDE DEF f
  <2>4. Patient(f)
    BY <1>2, <1>7, <2>3 DEF Patient, Roles, MaxAttempts, MaxDelay
  <2> QED BY <1>2, <1>7, <2>1, <2>2, <2>3, <2>4
<1>8. CASE Finish(c) \/ Garble(c)
  BY <1>7, <1>8 DEF Finish, Garble
<1>9. CASE Cut(c)
  <2>1. Streaming(c)
    BY <1>9 DEF Cut
  <2>2. CASE e.chunks = 0 /\ e.attempt < MaxAttempts
    <3> DEFINE n == e.slept + e.delay
               d == Capped(2 * e.delay)
    <3>1. PICK f : f = [Slept(up[c], up[c].delay) EXCEPT !.from = 0]
      OBVIOUS
    <3>2. up' = [up EXCEPT ![c] = f]
      BY <1>9, <2>2, <3>1 DEF Cut, e
    <3>3. n \in Nat /\ d \in 1..MaxDelay /\ e.delay \in 1..10
      BY <1>2, <2>1 DEF Capped, MaxDelay
    <3>4. Slept(e, e.delay) = [e EXCEPT !.slept = n, !.delay = d]
      BY DEF Slept
    <3> HIDE DEF d, n
    <3>5. Slept(e, e.delay) \in Exchanges
      BY ZenonT(60), <1>0, <3>3, <3>4 DEF Exchanges
    <3>6. f = [Slept(e, e.delay) EXCEPT !.from = 0]
      BY <3>1 DEF e
    <3>7. f \in Exchanges
      BY <3>5, <3>6 DEF Exchanges, MaxAttempts
    <3>8. f.role = e.role /\ f.out = e.out /\ f.attempt = e.attempt
          /\ f.slept = n /\ f.chunks = e.chunks /\ f.from = 0
      BY <1>0, <3>4, <3>5, <3>6 DEF Exchanges
    <3>9. Patient(f)
      BY <1>2, <2>1, <2>2, <3>3, <3>8 DEF Patient, Roles, MaxAttempts, MaxDelay, n
    <3>10. Goal(f)
      BY <1>2, <2>1, <2>2, <3>2, <3>8, <3>9
    <3> QED BY <1>2, <2>1, <3>7, <3>10
  <2>3. CASE ~(e.chunks = 0 /\ e.attempt < MaxAttempts)
    <3>1. up' = [up EXCEPT ![c].out = "unavailable"]
      BY <1>9, <2>3 DEF Cut, e
    <3>2. e.chunks > 0 \/ e.attempt = MaxAttempts
      BY <1>2, <2>1, <2>3 DEF MaxAttempts
    <3> QED BY <1>7, <2>1, <3>1, <3>2
  <2> QED BY <2>2, <2>3
<1> QED BY <1>3, <1>4, <1>5, <1>6, <1>7, <1>8, <1>9 DEF Exchange

-----------------------------------------------------------------------------
(* Types.                                                                  *)

Jobs == [at : Steps, hits : BOOLEAN, note : Notes,
         err : {"none", "internal"} \cup Codes, nan : BOOLEAN]
Answers == [of : Calls \cup {"nobody"}, is : Outcomes \cup {"none"}]
Frames == [of : Calls, is : Outcomes, nan : BOOLEAN]

PageOK == typed \in 0..latest /\ latest \in 0..MaxTyped /\ due \in BOOLEAN /\ shown \in 0..latest
ShellOK == /\ child \in {"up", "gone"} /\ reader \in {"reading", "stuck", "ended"}
           /\ pending \subseteq Calls /\ inbox \in Seq(Calls) /\ outbox \in Seq(Frames)
CallsOK == /\ bridge \in Bridges /\ stage \in [Calls -> {"new", "asked", "waiting", "settled"}]
           /\ kind \in [Calls -> Kinds \cup {"none"}] /\ answer \in [Calls -> Answers]
TextOK == text \in [Calls -> 0..MaxTyped] /\ TextsTyped
JobOK == job \in [Calls -> Jobs]
UpOK == up \in [Calls -> Exchanges] /\ AllPatient

LEMMA TypeParts == TypeInv <=> PageOK /\ ShellOK /\ CallsOK /\ TextOK /\ JobOK /\ UpOK
BY DEF TypeInv, TypeOK, PageOK, ShellOK, CallsOK, TextOK, JobOK, UpOK, Exchanges, Jobs, Answers,
       Frames

LEMMA TypePartsNext ==
  TypeInv' <=> PageOK' /\ ShellOK' /\ CallsOK' /\ TextOK' /\ JobOK' /\ UpOK'
BY DEF TypeInv, TypeOK, PageOK, ShellOK, CallsOK, TextOK, JobOK, UpOK, Exchanges, Jobs, Answers,
       Frames

LEMMA TypeInit == Init => TypeInv
<1> SUFFICES ASSUME Init PROVE TypeInv
  OBVIOUS
<1>0. due \in BOOLEAN
  BY Zenon DEF Init
<1>1. PageOK /\ TextOK
  BY <1>0, Setting DEF Init, PageOK, TextOK, TextsTyped
<1>5. ShellOK
  BY DEF Init, ShellOK
<1>2. CallsOK
  BY DEF Init, CallsOK, NoAnswer, Answers
<1>3. JobOK
  BY DEF Init, JobOK, NoJob, Jobs, Steps, Notes
<1>4. UpOK
  BY IdleExchange DEF Init, UpOK, AllPatient
<1> QED BY <1>1, <1>2, <1>3, <1>4, <1>5, TypeParts

(* What a step leaves alone keeps its type.                                *)
LEMMA Unchanged ==
  ASSUME TypeInv
  PROVE  /\ UNCHANGED <<bridge, stage, kind, answer>> => CallsOK'
         /\ UNCHANGED shell => ShellOK'
         /\ UNCHANGED page => PageOK'
         /\ UNCHANGED <<text, latest>> => TextOK'
         /\ UNCHANGED job => JobOK'
         /\ UNCHANGED up => UpOK'
BY TypeParts DEF PageOK, ShellOK, CallsOK, TextOK, TextsTyped, JobOK, UpOK, AllPatient, shell, page

LEMMA ExchangeUpdate ==
  ASSUME TypeInv, NEW c \in Calls, NEW f \in Exchanges, Patient(f), up' = [up EXCEPT ![c] = f]
  PROVE  UpOK'
BY TypeParts DEF UpOK, AllPatient

LEMMA JobUpdate ==
  ASSUME TypeInv, NEW c \in Calls, NEW j \in Jobs, job' = [job EXCEPT ![c] = j]
  PROVE  JobOK'
BY TypeParts DEF JobOK

(* What reaches the page is an outcome.                                    *)
LEMMA ToldType ==
  ASSUME TypeInv, NEW c \in Calls, NEW m, m.of \in Calls, m.is \in Outcomes, m \in Answers,
         Told(c, m), UNCHANGED <<bridge, kind>>
  PROVE  CallsOK' /\ PageOK'
<1>1. CallsOK'
  BY TypeParts DEF Told, CallsOK
<1>2. PageOK'
  BY TypeParts DEF Told, PageOK, TextOK, TextsTyped
<1> QED BY <1>1, <1>2

(* The page and the shell.                                                 *)
LEMMA TypePage ==
  ASSUME TypeInv, Type \/ Clear \/ \E c \in Calls : Debounce(c) \/ Enter(c) \/ Stream(c)
  PROVE  TypeInv'
<1> USE TypeParts
<1>1. CASE Type
  BY <1>1, TypePartsNext, Unchanged, Setting DEF Type, PageOK, TextOK, TextsTyped
<1>2. CASE Clear
  <2>1. PageOK'
    <3>1. due' \in BOOLEAN
      BY <1>2, Zenon DEF Clear
    <3> QED BY <1>2, <3>1, Setting DEF Clear, PageOK
  <2> QED BY <1>2, <2>1, TypePartsNext, Unchanged DEF Clear
<1>3. ASSUME NEW c \in Calls, NEW k \in Kinds \ {"stream"}, NEW q \in 0..latest, Ask(c, k, q),
             UNCHANGED latest
      PROVE  CallsOK' /\ ShellOK' /\ TextOK' /\ JobOK' /\ UpOK'
  <2>1. CallsOK'
    BY <1>3 DEF Ask, CallsOK
  <2>2. ShellOK'
    BY <1>3 DEF Ask, ShellOK
  <2>3. TextOK'
    <3>1. /\ latest \in 0..MaxTyped /\ text \in [Calls -> 0..MaxTyped]
          /\ latest' = latest /\ \A d \in Calls : text[d] <= latest
      BY <1>3 DEF PageOK, TextOK, TextsTyped
    <3>2. PICK x \in {0, q} : text' = [text EXCEPT ![c] = x]
      BY <1>3 DEF Ask
    <3>3. x \in 0..MaxTyped /\ x <= latest
      BY <1>3, <3>1, <3>2, Setting
    <3> QED BY <3>1, <3>2, <3>3 DEF TextOK, TextsTyped
  <2>4. JobOK'
    BY <1>3 DEF Ask, JobOK, Jobs, Steps
  <2>5. UpOK'
    BY <1>3, Unchanged DEF Ask
  <2> QED BY <2>1, <2>2, <2>3, <2>4, <2>5
<1>4. ASSUME NEW c \in Calls, Debounce(c) \/ Enter(c) PROVE TypeInv'
  <2>1. UNCHANGED latest /\ PageOK'
    BY <1>4 DEF Debounce, Enter, Ask, page, PageOK
  <2>2. \E k \in Kinds \ {"stream"} : Ask(c, k, typed)
    BY <1>4 DEF Debounce, Enter, Kinds
  <2>3. typed \in 0..latest
    BY DEF PageOK
  <2> QED BY <1>3, <2>1, <2>2, <2>3, TypePartsNext
<1>5. ASSUME NEW c \in Calls, Stream(c) PROVE TypeInv'
  <2>1. CallsOK'
    BY <1>5 DEF Stream, CallsOK, Kinds
  <2>2. JobOK'
    BY <1>5 DEF Stream, JobOK, Jobs, Steps
  <2>3. UpOK'
    BY <1>5, FreshExchange, ExchangeUpdate DEF Stream, Roles
  <2>4. PageOK' /\ ShellOK' /\ TextOK'
    BY <1>5, Unchanged DEF Stream, page
  <2> QED BY <2>1, <2>2, <2>3, <2>4, TypePartsNext
<1> QED BY <1>1, <1>2, <1>4, <1>5

LEMMA TypeShell ==
  ASSUME TypeInv, Deliver \/ Die \/ Terminated \/ Serve \/ \E c \in Calls : Send(c)
  PROVE  TypeInv'
<1> USE TypeParts
<1>1. CASE Deliver
  <2> DEFINE m == Head(outbox)
  <2>1. m \in Frames /\ Tail(outbox) \in Seq(Frames)
    BY <1>1 DEF Deliver, ShellOK
  <2>2. CASE m.nan
    BY <1>1, <2>2, TypePartsNext, Unchanged DEF Deliver, page, ShellOK
  <2>3. CASE ~m.nan
    <3>1. ShellOK'
      BY <1>1, <2>1, <2>3 DEF Deliver, ShellOK
    <3>2. /\ Told(m.of, [of |-> m.of, is |-> m.is])
          /\ UNCHANGED <<bridge, kind, text, job, up>>
      BY <1>1, <2>3 DEF Deliver
    <3>3. latest' = latest
      BY <3>2 DEF Told
    <3>4. m.of \in Calls /\ m.is \in Outcomes
      BY <2>1 DEF Frames
    <3>5. [of |-> m.of, is |-> m.is] \in Answers
      BY <3>4 DEF Answers
    <3>6. CallsOK' /\ PageOK'
      BY <3>2, <3>4, <3>5, ToldType
    <3> QED BY <3>1, <3>2, <3>3, <3>6, TypePartsNext, Unchanged
  <2> QED BY <2>2, <2>3
<1>2. CASE Die
  <2>1. ShellOK'
    BY <1>2 DEF Die, ShellOK
  <2>2. JobOK'
    BY <1>2 DEF Die, JobOK, Jobs, NoJob, Steps, Notes
  <2>3. UpOK'
    BY <1>2, IdleExchange DEF Die, UpOK, AllPatient
  <2> QED BY <1>2, <2>1, <2>2, <2>3, TypePartsNext, Unchanged DEF Die, page
<1>3. CASE Terminated
  BY <1>3, TypePartsNext, Unchanged DEF Terminated, page, ShellOK
<1>4. CASE Serve
  <2>1. ShellOK'
    BY <1>4 DEF Serve, ShellOK
  <2>2. JobOK'
    <3>1. Head(inbox) \in Calls
      BY <1>4 DEF Serve, ShellOK
    <3> QED BY <1>4, <3>1 DEF Serve, JobOK, Jobs, Steps
  <2> QED BY <1>4, <2>1, <2>2, TypePartsNext, Unchanged DEF Serve, page
<1>5. ASSUME NEW c \in Calls, Send(c) PROVE TypeInv'
  <2>1. latest' = latest
    BY <1>5 DEF Send, Told, page
  <2>0. ShellOK'
    <3>1. inbox \in Seq(Calls) /\ Append(inbox, c) \in Seq(Calls)
      BY DEF ShellOK
    <3>2. inbox' \in Seq(Calls)
      BY <1>5, <3>1 DEF Send
    <3>3. UNCHANGED <<pending, outbox, reader, child>>
      BY <1>5 DEF Send
    <3> QED BY <3>2, <3>3 DEF ShellOK
  <2>2. CASE child = "up"
    <3>1. CallsOK'
      BY <1>5, <2>2 DEF Send, CallsOK
    <3> QED BY <1>5, <2>0, <2>1, <2>2, <3>1, TypePartsNext, Unchanged DEF Send
  <2>3. CASE child # "up"
    <3>1. [of |-> c, is |-> "shell"] \in Answers
      BY DEF Answers, Outcomes
    <3>2. CallsOK' /\ PageOK'
      BY <1>5, <2>3, <3>1, ToldType DEF Send, Outcomes
    <3> QED BY <1>5, <2>0, <2>1, <3>2, TypePartsNext, Unchanged DEF Send
  <2> QED BY <2>2, <2>3
<1> QED BY <1>1, <1>2, <1>3, <1>4, <1>5

(* The handlers.                                                           *)
LEMMA TypeHandler ==
  ASSUME TypeInv, NEW c \in Calls, Handle(c)
  PROVE  TypeInv'
<1> USE TypeParts
<1> DEFINE j == job[c]
<1>1. j \in Jobs /\ up[c] \in Exchanges /\ Patient(up[c])
  BY DEF JobOK, UpOK, AllPatient
<1>2. ASSUME NEW k \in Jobs, Go(c, k), UpOK' PROVE TypeInv'
  BY <1>2, JobUpdate, TypePartsNext, Unchanged DEF Go, page
<1>3. ASSUME NEW s \in Steps, To(c, s) PROVE TypeInv'
  <2>1. [j EXCEPT !.at = s] \in Jobs
    BY <1>1 DEF Jobs
  <2> QED BY <1>2, <1>3, <2>1, Unchanged DEF To
<1>4. ASSUME NEW s \in Steps, NEW r \in Roles, Call(c, r, s) PROVE TypeInv'
  <2>1. [j EXCEPT !.at = s] \in Jobs
    BY <1>1 DEF Jobs
  <2>2. UpOK'
    BY <1>4, FreshExchange, ExchangeUpdate DEF Call
  <2> QED BY <1>2, <1>4, <2>1, <2>2 DEF Call
<1>5. ASSUME Forget(c) PROVE UpOK'
  BY <1>5, IdleExchange, ExchangeUpdate DEF Forget
<1>6. CASE Begin(c)
  <2>1. ASSUME NEW e \in {"none", "internal"}
        PROVE  [j EXCEPT !.at = "respond", !.err = e] \in Jobs
    BY <1>1 DEF Jobs, Steps
  <2>2. {"retrieve", "respond"} \subseteq Steps
    BY DEF Steps
  <2> QED BY <1>2, <1>3, <1>6, <2>1, <2>2, Unchanged DEF Begin
<1>7. CASE Retrieve(c)
  <2>1. ASSUME NEW h \in BOOLEAN, NEW s \in Steps
        PROVE  [j EXCEPT !.hits = h, !.at = s] \in Jobs
    BY <1>1 DEF Jobs
  <2>2. [j EXCEPT !.at = "respond", !.note = "search_backend_failed"] \in Jobs
    BY <1>1 DEF Jobs, Steps, Notes
  <2>3. {"dense", "warn"} \subseteq Steps
    BY DEF Steps
  <2>4. UpOK'
    BY <1>7, Unchanged DEF Retrieve
  <2> QED BY <1>2, <1>7, <2>1, <2>2, <2>3, <2>4 DEF Retrieve
<1>8. CASE Dense(c)
  BY <1>3, <1>4, <1>8 DEF Dense, Steps, Roles
<1>9. CASE Embedded(c)
  <2>1. ASSUME NEW h \in BOOLEAN
        PROVE  [j EXCEPT !.at = "rerank", !.hits = h] \in Jobs
    BY <1>1 DEF Jobs, Steps
  <2> QED BY <1>2, <1>5, <1>9, <2>1 DEF Embedded
<1>10. CASE Rerank(c)
  BY <1>3, <1>4, <1>10 DEF Rerank, Steps, Roles
<1>11. CASE Reranked(c)
  <2>1. ASSUME NEW n \in BOOLEAN
        PROVE  [j EXCEPT !.at = "warn", !.nan = n] \in Jobs
    BY <1>1 DEF Jobs, Steps
  <2> QED BY <1>2, <1>5, <1>11, <2>1 DEF Reranked
<1>12. CASE Warn(c)
  <2>1. ASSUME NEW w \in Notes, NEW s \in {"answer", "respond"}
        PROVE  [j EXCEPT !.note = w, !.at = s] \in Jobs
    BY <1>1 DEF Jobs, Steps
  <2>2. UpOK'
    BY <1>12, Unchanged DEF Warn
  <2> QED BY <1>2, <1>12, <2>1, <2>2 DEF Warn
<1>13. CASE Answer(c)
  BY <1>3, <1>4, <1>13 DEF Answer, Steps, Roles
<1>14. CASE Answered(c)
  <2>1. ASSUME NEW e \in {"none", "internal"} \cup Codes
        PROVE  [j EXCEPT !.at = "respond", !.err = e] \in Jobs
    BY <1>1 DEF Jobs, Steps
  <2>2. UpOK'
    BY <1>14, Unchanged DEF Answered
  <2> QED BY <1>2, <1>14, <2>1, <2>2 DEF Answered
<1>15. CASE Respond(c)
  <2>1. UpOK' /\ bridge' = bridge /\ kind' = kind /\ text' = text
    BY <1>5, <1>15 DEF Respond
  <2>2. [NoJob EXCEPT !.at = "done"] \in Jobs
    BY DEF NoJob, Jobs, Steps, Notes
  <2>3. JobOK'
    BY <1>15, <2>2, JobUpdate DEF Respond
  <2> DEFINE o == IF j.err = "none" THEN "result" ELSE Coded(j.err)
             x == IF o = "result" /\ ~j.nan THEN o ELSE "message"
  <2>4. o \in Outcomes
    BY <1>1 DEF Coded, Outcomes, Jobs
  <2>5. x \in Outcomes
    BY <2>4 DEF Outcomes
  <2>6. \A y \in Outcomes : [of |-> c, is |-> y] \in Answers
    BY DEF Answers
  <2>7. CASE kind[c] = "stream"
    <3>1. Told(c, [of |-> c, is |-> "result"]) /\ UNCHANGED <<outbox, pending, inbox, reader, child>>
      BY <1>15, <2>7 DEF Respond
    <3>2. CallsOK' /\ PageOK'
      BY <2>1, <2>6, <3>1, ToldType DEF Outcomes
    <3> QED BY <2>1, <2>3, <3>1, <3>2, Unchanged, TypePartsNext DEF shell, Told
  <2>8. CASE kind[c] # "stream" /\ bridge = "http"
    <3>1. Told(c, [of |-> c, is |-> x]) /\ UNCHANGED <<outbox, pending, inbox, reader, child>>
      BY <1>15, <2>8 DEF Respond
    <3>2. CallsOK' /\ PageOK'
      BY <2>1, <2>5, <2>6, <3>1, ToldType
    <3> QED BY <2>1, <2>3, <3>1, <3>2, Unchanged, TypePartsNext DEF shell, Told
  <2>9. CASE kind[c] # "stream" /\ bridge # "http"
    <3>1. /\ outbox' = Append(outbox, [of |-> c, is |-> o, nan |-> j.nan /\ o = "result"])
          /\ UNCHANGED <<stage, answer, page, pending, inbox, reader, child>>
      BY <1>15, <2>9 DEF Respond
    <3>2. [of |-> c, is |-> o, nan |-> j.nan /\ o = "result"] \in Frames
      BY <1>1, <2>4 DEF Frames, Jobs
    <3>3. ShellOK'
      BY <3>1, <3>2 DEF ShellOK
    <3> QED BY <2>1, <2>3, <3>1, <3>3, Unchanged, TypePartsNext DEF page
  <2> QED BY <2>7, <2>8, <2>9
<1>16. CASE Exchanging(c)
  <2>1. UpOK'
    BY <1>1, <1>16, ExchangeStep, ExchangeUpdate DEF Exchanging, UpOK
  <2> QED BY <1>16, <2>1, Unchanged, TypePartsNext DEF Exchanging, page
<1> QED BY <1>6, <1>7, <1>8, <1>9, <1>10, <1>11, <1>12, <1>13, <1>14, <1>15, <1>16 DEF Handle

LEMMA TypeStep == TypeInv /\ [Next]_vars => TypeInv'
<1> SUFFICES ASSUME TypeInv, [Next]_vars PROVE TypeInv'
  OBVIOUS
<1>1. CASE UNCHANGED vars
  BY <1>1, Unchanged, TypePartsNext DEF vars, shell, page
<1> QED BY <1>1, TypePage, TypeShell, TypeHandler DEF Next

(* Every variable of the way of a call always has its type.                *)
THEOREM TypeCorrect == Spec => []TypeOK
<1>1. TypeInv => TypeOK
  BY DEF TypeInv
<1> QED BY <1>1, TypeInit, TypeStep, PTL DEF Spec

-----------------------------------------------------------------------------
(* Where calls and frames are.                                             *)

LEMMA AppendIs ==
  ASSUME NEW S, NEW s \in Seq(S), NEW x \in S
  PROVE  /\ Append(s, x) \in Seq(S) /\ Len(s) \in Nat /\ Len(Append(s, x)) = Len(s) + 1
         /\ \A i \in 1..Len(s) : Append(s, x)[i] = s[i] /\ s[i] \in S
         /\ Append(s, x)[Len(s) + 1] = x
OBVIOUS

LEMMA TailIs ==
  ASSUME NEW S, NEW s \in Seq(S), s # <<>>
  PROVE  /\ Tail(s) \in Seq(S) /\ Len(s) \in Nat /\ Len(s) >= 1 /\ Len(Tail(s)) = Len(s) - 1
         /\ Head(s) \in S /\ Head(s) = s[1]
         /\ \A i \in 1..Len(Tail(s)) : Tail(s)[i] = s[i + 1] /\ i + 1 \in 1..Len(s)
         /\ \A i \in 1..Len(s) : s[i] \in S
OBVIOUS

(* A handler's step leaves the call busy and touches nothing else, or it   *)
(* is the response.                                                        *)
LEMMA HandlerMoves ==
  ASSUME TypeInv, NEW c \in Calls, Handle(c), ~Respond(c)
  PROVE  /\ Busy(c)
         /\ \E k \in Jobs : Go(c, k) /\ k.at \notin {"idle", "done"}
         /\ \A d \in Calls \ {c} : up'[d] = up[d]
<1> USE TypeParts
<1> DEFINE j == job[c]
           Goal == /\ \E k \in Jobs : Go(c, k) /\ k.at \notin {"idle", "done"}
                   /\ \A d \in Calls \ {c} : up'[d] = up[d]
<1>1. j \in Jobs /\ up \in [Calls -> Exchanges] /\ Patient(up[c]) /\ job \in [Calls -> Jobs]
  BY DEF JobOK, UpOK, AllPatient
<1>2. ASSUME NEW s \in Steps \ {"idle", "done"}, To(c, s) \/ \E r \in Roles : Call(c, r, s)
      PROVE  Goal
  <2>1. [j EXCEPT !.at = s] \in Jobs /\ [j EXCEPT !.at = s].at = s
    BY <1>1 DEF Jobs
  <2>2. Go(c, [j EXCEPT !.at = s])
    BY <1>2 DEF To, Call
  <2>3. \A d \in Calls \ {c} : up'[d] = up[d]
    BY <1>1, <1>2 DEF To, Call
  <2> QED BY <2>1, <2>2, <2>3
<1>3. ASSUME Forget(c) \/ UNCHANGED up PROVE \A d \in Calls \ {c} : up'[d] = up[d]
  BY <1>1, <1>3 DEF Forget
<1>4. CASE Begin(c)
  <2>1. ASSUME NEW e \in {"none", "internal"}
        PROVE  /\ [j EXCEPT !.at = "respond", !.err = e] \in Jobs
               /\ [j EXCEPT !.at = "respond", !.err = e].at = "respond"
    BY <1>1 DEF Jobs, Steps
  <2> QED BY <1>2, <1>3, <1>4, <2>1 DEF Begin, At, Busy, Steps
<1>5. CASE Retrieve(c)
  <2>1. ASSUME NEW h \in BOOLEAN, NEW s \in Steps
        PROVE  [j EXCEPT !.hits = h, !.at = s] \in Jobs /\ [j EXCEPT !.hits = h, !.at = s].at = s
    BY <1>1 DEF Jobs
  <2>2. /\ [j EXCEPT !.at = "respond", !.note = "search_backend_failed"] \in Jobs
        /\ [j EXCEPT !.at = "respond", !.note = "search_backend_failed"].at = "respond"
    BY <1>1 DEF Jobs, Steps, Notes
  <2> QED BY <1>3, <1>5, <2>1, <2>2 DEF Retrieve, At, Busy, Steps
<1>6. CASE Dense(c)
  BY <1>2, <1>6 DEF Dense, Steps, Roles, At, Busy
<1>7. CASE Embedded(c)
  <2>1. ASSUME NEW h \in BOOLEAN
        PROVE  /\ [j EXCEPT !.at = "rerank", !.hits = h] \in Jobs
               /\ [j EXCEPT !.at = "rerank", !.hits = h].at = "rerank"
    BY <1>1 DEF Jobs, Steps
  <2> QED BY <1>3, <1>7, <2>1 DEF Embedded, At, Busy
<1>8. CASE Rerank(c)
  BY <1>2, <1>8 DEF Rerank, Steps, Roles, At, Busy
<1>9. CASE Reranked(c)
  <2>1. ASSUME NEW n \in BOOLEAN
        PROVE  /\ [j EXCEPT !.at = "warn", !.nan = n] \in Jobs
               /\ [j EXCEPT !.at = "warn", !.nan = n].at = "warn"
    BY <1>1 DEF Jobs, Steps
  <2> QED BY <1>3, <1>9, <2>1 DEF Reranked, At, Busy
<1>10. CASE Warn(c)
  <2>1. ASSUME NEW w \in Notes, NEW s \in {"answer", "respond"}
        PROVE  [j EXCEPT !.note = w, !.at = s] \in Jobs /\ [j EXCEPT !.note = w, !.at = s].at = s
    BY <1>1 DEF Jobs, Steps
  <2> QED BY <1>3, <1>10, <2>1 DEF Warn, At, Busy
<1>11. CASE Answer(c)
  BY <1>2, <1>11 DEF Answer, Steps, Roles, At, Busy
<1>12. CASE Answered(c)
  <2>1. ASSUME NEW e \in {"none", "internal"} \cup Codes
        PROVE  /\ [j EXCEPT !.at = "respond", !.err = e] \in Jobs
               /\ [j EXCEPT !.at = "respond", !.err = e].at = "respond"
    BY <1>1 DEF Jobs, Steps
  <2> QED BY <1>3, <1>12, <2>1 DEF Answered, At, Busy
<1>13. CASE Exchanging(c)
  <2>1. Busy(c) /\ Go(c, j) /\ j.at \notin {"idle", "done"}
    BY <1>1, <1>13 DEF Exchanging, Busy, Go
  <2>2. \A d \in Calls \ {c} : up'[d] = up[d]
    BY <1>1, <1>13, ExchangeStep DEF Exchanging
  <2> QED BY <1>1, <2>1, <2>2
<1> QED BY <1>4, <1>5, <1>6, <1>7, <1>8, <1>9, <1>10, <1>11, <1>12, <1>13 DEF Handle

LEMMA PlacedInit == Init => Placed
BY DEF Init, Placed, PlacedCall, PlacedIn, PlacedOut, Busy, NoJob

(* What is read of a state to place its calls and frames.                  *)
LEMMA PlacedSame ==
  ASSUME Placed, UNCHANGED <<bridge, stage, kind, job, up, inbox, outbox>>
  PROVE  Placed'
BY DEF Placed, PlacedCall, PlacedIn, PlacedOut, Busy

(* Every frame is a call's.                                                *)
LEMMA FramesAre ==
  ASSUME TypeInv
  PROVE  /\ Len(inbox) \in Nat /\ \A i \in 1..Len(inbox) : inbox[i] \in Calls
         /\ Len(outbox) \in Nat
         /\ \A i \in 1..Len(outbox) : outbox[i] \in Frames /\ outbox[i].of \in Calls
<1>1. inbox \in Seq(Calls) /\ outbox \in Seq(Frames)
  BY TypeParts DEF ShellOK
<1>2. \A i \in 1..Len(outbox) : outbox[i] \in Frames
  BY <1>1
<1>3. \A m \in Frames : m.of \in Calls
  BY DEF Frames
<1> QED BY <1>1, <1>2, <1>3

(* A call with no frame can go on without moving the frames of others.     *)
LEMMA FramesElsewhere ==
  ASSUME PlacedInv, NEW c \in Calls,
         \A d \in Calls \ {c} : stage'[d] = stage[d] /\ job'[d] = job[d]
  PROVE  /\ inbox' = inbox /\ (\A i \in 1..Len(inbox) : inbox[i] # c) => PlacedIn'
         /\ outbox' = outbox /\ (\A i \in 1..Len(outbox) : outbox[i].of # c) => PlacedOut'
<1> QED BY SMTT(30), FramesAre DEF PlacedInv, Placed, PlacedIn, PlacedOut

LEMMA PlacedPage ==
  ASSUME PlacedInv, Type \/ Clear \/ \E c \in Calls : Debounce(c) \/ Enter(c) \/ Stream(c)
  PROVE  Placed'
<1> USE TypeParts DEF PlacedInv
<1>1. CASE Type \/ Clear
  BY <1>1, PlacedSame DEF Type, Clear, shell
<1>2. ASSUME NEW c \in Calls, NEW k \in Kinds \ {"stream"}, NEW q, Ask(c, k, q) PROVE Placed'
  <2>1. stage[c] = "new" /\ kind' = [kind EXCEPT ![c] = k] /\ UNCHANGED <<bridge, up, inbox, outbox>>
    BY <1>2 DEF Ask
  <2>2. /\ job[c].at = "idle"
        /\ \A i \in 1..Len(inbox) : inbox[i] # c
        /\ \A i \in 1..Len(outbox) : outbox[i].of # c
    BY <2>1 DEF Placed, PlacedCall, PlacedIn, PlacedOut
  <2>7. \A d \in Calls \ {c} : stage'[d] = stage[d] /\ job'[d] = job[d]
    BY <1>2 DEF Ask, CallsOK, JobOK
  <2>3. \A d \in Calls \ {c} : PlacedCall(d)'
    BY <1>2, <2>1 DEF Placed, PlacedCall, Ask, Busy, CallsOK, JobOK
  <2>4. PlacedCall(c)'
    BY <1>2, <2>1, <2>2 DEF Placed, PlacedCall, Ask, Busy, CallsOK, JobOK, Jobs, Kinds
  <2>5. PlacedIn'
    BY <2>1, <2>2, <2>7, FramesElsewhere
  <2>6. PlacedOut'
    BY <2>1, <2>2, <2>7, FramesElsewhere
  <2> QED BY <2>3, <2>4, <2>5, <2>6 DEF Placed
<1>3. ASSUME NEW c \in Calls, Debounce(c) \/ Enter(c) PROVE Placed'
  <2>1. \E k \in Kinds \ {"stream"} : Ask(c, k, typed)
    BY <1>3 DEF Debounce, Enter, Kinds
  <2> QED BY <1>2, <2>1
<1>4. ASSUME NEW c \in Calls, Stream(c) PROVE Placed'
  <2>1. stage[c] = "new" /\ kind' = [kind EXCEPT ![c] = "stream"] /\ UNCHANGED <<bridge, inbox, outbox>>
    BY <1>4 DEF Stream, shell
  <2>2. /\ job[c].at = "idle"
        /\ \A i \in 1..Len(inbox) : inbox[i] # c
        /\ \A i \in 1..Len(outbox) : outbox[i].of # c
    BY <2>1 DEF Placed, PlacedCall, PlacedIn, PlacedOut
  <2>3. \A d \in Calls \ {c} : PlacedCall(d)'
    BY <1>4, <2>1 DEF Placed, PlacedCall, Stream, Busy, CallsOK, JobOK, UpOK
  <2>4. PlacedCall(c)'
    BY <1>4, <2>1, <2>2 DEF Placed, PlacedCall, Stream, Busy, CallsOK, JobOK, Jobs, Kinds
  <2>5. PlacedIn'
    BY <1>4, <2>1, <2>2 DEF Placed, PlacedIn, Stream, CallsOK, JobOK, ShellOK
  <2>6. PlacedOut'
    BY <1>4, <2>1, <2>2 DEF Placed, PlacedOut, Stream, CallsOK, JobOK, ShellOK, Frames
  <2> QED BY <2>3, <2>4, <2>5, <2>6 DEF Placed
<1> QED BY <1>1, <1>3, <1>4

LEMMA PlacedShell ==
  ASSUME PlacedInv, Deliver \/ Die \/ Terminated \/ Serve \/ \E c \in Calls : Send(c)
  PROVE  Placed'
<1> USE TypeParts DEF PlacedInv
<1>1. CASE Deliver
  <2> DEFINE m == Head(outbox)
  <2>0. outbox \in Seq(Frames) /\ outbox # <<>>
    BY <1>1 DEF Deliver, ShellOK
  <2>4. m \in Frames /\ m = outbox[1] /\ Len(outbox) >= 1
    BY <2>0, TailIs
  <2>1. m = outbox[1] /\ Len(outbox) >= 1 /\ m.of \in Calls
    BY <2>4 DEF Frames
  <2>2. CASE m.nan
    BY <1>1, <2>2, PlacedSame DEF Deliver
  <2>3. CASE ~m.nan
    <3>1. /\ stage' = [stage EXCEPT ![m.of] = "settled"] /\ outbox' = Tail(outbox)
          /\ UNCHANGED <<bridge, kind, job, up, inbox>>
      BY <1>1, <2>3 DEF Deliver, Told
    <3>2. stage[m.of] = "waiting" /\ job[m.of].at = "done"
      BY <2>0, <2>1, TailIs DEF Placed, PlacedOut
    <3>3. \A c \in Calls : PlacedCall(c)'
      BY <2>1, <3>1, <3>2 DEF Placed, PlacedCall, Busy, CallsOK
    <3>4. PlacedIn'
      BY <2>1, <3>1, <3>2 DEF Placed, PlacedIn, CallsOK, ShellOK
    <3>5. \A i \in 1..Len(outbox') :
            outbox'[i] = outbox[i + 1] /\ i + 1 \in 1..Len(outbox) /\ outbox[i + 1].of # m.of
      BY <2>0, <2>1, <3>1, TailIs DEF Placed, PlacedOut
    <3>6. Len(outbox') = Len(outbox) - 1 /\ \A i \in 1..Len(outbox) : outbox[i] \in Frames
      BY <2>0, <3>1, TailIs
    <3>7. PlacedOut'
      BY <2>1, <3>1, <3>5, <3>6 DEF Placed, PlacedOut, CallsOK, Frames
    <3> QED BY <3>3, <3>4, <3>7 DEF Placed
  <2> QED BY <2>2, <2>3
<1>2. CASE Die
  <2>1. \A c \in Calls : PlacedCall(c)'
    BY <1>2 DEF Die, Placed, PlacedCall, Busy, CallsOK, JobOK, Jobs, NoJob, UpOK
  <2>2. PlacedIn'
    BY <1>2 DEF Die, PlacedIn
  <2>3. PlacedOut'
    <3>1. \A c \in Calls : job[c].at = "done" => job'[c].at = "done"
      BY <1>2 DEF Die, JobOK, NoJob
    <3> QED BY <1>2, <3>1, FramesAre DEF Die, Placed, PlacedOut
  <2> QED BY <2>1, <2>2, <2>3 DEF Placed
<1>3. CASE Terminated
  BY <1>3, PlacedSame DEF Terminated
<1>4. CASE Serve
  <2> DEFINE h == Head(inbox)
  <2>0. inbox \in Seq(Calls) /\ inbox # <<>>
    BY <1>4 DEF Serve, ShellOK
  <2>1. h = inbox[1] /\ Len(inbox) >= 1 /\ h \in Calls
    BY <2>0, TailIs
  <2>2. /\ job' = [job EXCEPT ![h].at = "begin"] /\ inbox' = Tail(inbox)
        /\ UNCHANGED <<bridge, stage, kind, up, outbox>>
    BY <1>4 DEF Serve
  <2>3. stage[h] = "waiting" /\ job[h].at = "idle"
    BY <2>0, <2>1, TailIs DEF Placed, PlacedIn
  <2>4. \A c \in Calls : PlacedCall(c)'
    BY <2>1, <2>2, <2>3 DEF Placed, PlacedCall, Busy, CallsOK, JobOK, Jobs
  <2>5. /\ \A i \in 1..Len(inbox') :
             inbox'[i] = inbox[i + 1] /\ i + 1 \in 1..Len(inbox) /\ inbox[i + 1] # h
        /\ Len(inbox') = Len(inbox) - 1 /\ \A i \in 1..Len(inbox) : inbox[i] \in Calls
    BY SMTT(30), <2>0, <2>1, <2>2, TailIs DEF Placed, PlacedIn
  <2>6. PlacedIn'
    BY <2>1, <2>2, <2>5 DEF Placed, PlacedIn, JobOK, Jobs
  <2>7. PlacedOut'
    BY <2>1, <2>2, <2>3 DEF Placed, PlacedOut, JobOK, Jobs, ShellOK, Frames
  <2> QED BY <2>4, <2>6, <2>7 DEF Placed
<1>5. ASSUME NEW c \in Calls, Send(c) PROVE Placed'
  <2>1. /\ stage[c] = "asked" /\ UNCHANGED <<bridge, kind, job, up, outbox>>
        /\ stage' = [stage EXCEPT ![c] = IF child = "up" THEN "waiting" ELSE "settled"]
        /\ inbox' = IF child = "up" THEN Append(inbox, c) ELSE inbox
    BY <1>5 DEF Send, Told
  <2>2. /\ job[c].at = "idle"
        /\ \A i \in 1..Len(inbox) : inbox[i] # c
        /\ \A i \in 1..Len(outbox) : outbox[i].of # c
    BY <2>1 DEF Placed, PlacedCall, PlacedIn, PlacedOut
  <2>3. \A d \in Calls : PlacedCall(d)'
    BY <2>1, <2>2 DEF Placed, PlacedCall, Busy, CallsOK
  <2>4. PlacedIn'
    <3>1. CASE child = "up"
      <4>1. /\ Len(inbox') = Len(inbox) + 1 /\ Len(inbox) \in Nat /\ inbox'[Len(inbox) + 1] = c
            /\ \A i \in 1..Len(inbox) : inbox'[i] = inbox[i] /\ inbox[i] \in Calls
        BY <2>1, <3>1, AppendIs DEF ShellOK
      <4> QED BY <2>1, <2>2, <3>1, <4>1 DEF Placed, PlacedIn, CallsOK
    <3>2. CASE child # "up"
      BY <2>1, <2>2, <3>2 DEF Placed, PlacedIn, CallsOK, ShellOK
    <3> QED BY <3>1, <3>2
  <2>5. PlacedOut'
    BY <2>1, <2>2 DEF Placed, PlacedOut, CallsOK, ShellOK, Frames
  <2> QED BY <2>3, <2>4, <2>5 DEF Placed
<1> QED BY <1>1, <1>2, <1>3, <1>4, <1>5

(* A response settles the call, or leaves a frame of its own.              *)
LEMMA RespondIs ==
  ASSUME TypeInv, NEW c \in Calls, Respond(c)
  PROVE  (stage' = [stage EXCEPT ![c] = "settled"] /\ outbox' = outbox)
         \/ \E m \in Frames : m.of = c /\ outbox' = Append(outbox, m) /\ stage' = stage
<1> DEFINE o == IF job[c].err = "none" THEN "result" ELSE Coded(job[c].err)
           m == [of |-> c, is |-> o, nan |-> job[c].nan /\ o = "result"]
<1>1. job[c] \in Jobs
  BY TypeParts DEF JobOK
<1>2. o \in Outcomes
  BY <1>1 DEF Coded, Outcomes, Jobs
<1>3. m \in Frames /\ m.of = c
  BY <1>1, <1>2 DEF Frames, Jobs
<1> QED BY <1>3 DEF Respond, Told

LEMMA PlacedHandler ==
  ASSUME PlacedInv, NEW c \in Calls, Handle(c)
  PROVE  Placed'
<1> USE TypeParts DEF PlacedInv
<1>1. ASSUME Busy(c)
      PROVE  /\ stage[c] = "waiting" /\ kind[c] # "none"
             /\ \A i \in 1..Len(inbox) : inbox[i] # c
             /\ \A i \in 1..Len(outbox) : outbox[i].of # c
  BY <1>1 DEF Placed, PlacedCall, PlacedIn, PlacedOut, Busy
<1>2. CASE ~Respond(c)
  <2>1. PICK k \in Jobs : Go(c, k) /\ k.at \notin {"idle", "done"}
    BY <1>2, HandlerMoves
  <2>2. Busy(c) /\ \A d \in Calls \ {c} : up'[d] = up[d]
    BY <1>2, HandlerMoves
  <2>3. \A d \in Calls : PlacedCall(d)'
    BY <1>1, <2>1, <2>2 DEF Go, Placed, PlacedCall, Busy, CallsOK, JobOK
  <2>4. PlacedIn' /\ PlacedOut'
    <3>1. UNCHANGED <<inbox, outbox>> /\ \A d \in Calls \ {c} : stage'[d] = stage[d] /\ job'[d] = job[d]
      BY <2>1 DEF Go, shell, JobOK
    <3> QED BY <1>1, <2>2, <3>1, FramesElsewhere
  <2> QED BY <2>3, <2>4 DEF Placed
<1>3. CASE Respond(c)
  <2>1. /\ Busy(c) /\ up' = [up EXCEPT ![c] = Idle]
        /\ job' = [job EXCEPT ![c] = [NoJob EXCEPT !.at = "done"]]
        /\ UNCHANGED <<bridge, kind, inbox>>
    BY <1>3 DEF Respond, At, Busy, Forget
  <2>2. [NoJob EXCEPT !.at = "done"].at = "done"
    BY DEF NoJob
  <2>3. CASE stage' = [stage EXCEPT ![c] = "settled"] /\ outbox' = outbox
    <3>1. \A d \in Calls : PlacedCall(d)'
      BY <1>1, <2>1, <2>2, <2>3 DEF Placed, PlacedCall, Busy, CallsOK, JobOK, UpOK
    <3>2. PlacedIn' /\ PlacedOut'
      BY <1>1, <2>1, <2>2, <2>3 DEF Placed, PlacedIn, PlacedOut, JobOK, CallsOK, ShellOK, Frames
    <3> QED BY <3>1, <3>2 DEF Placed
  <2>4. ASSUME NEW m \in Frames, m.of = c, outbox' = Append(outbox, m), stage' = stage
        PROVE  Placed'
    <3>1. \A d \in Calls : PlacedCall(d)'
      BY <1>1, <2>1, <2>2, <2>4 DEF Placed, PlacedCall, Busy, CallsOK, JobOK, UpOK
    <3>2. PlacedIn'
      BY <1>1, <2>1, <2>2, <2>4 DEF Placed, PlacedIn, JobOK, ShellOK
    <3>3. /\ Len(outbox') = Len(outbox) + 1 /\ Len(outbox) \in Nat /\ outbox'[Len(outbox) + 1] = m
          /\ \A i \in 1..Len(outbox) : outbox'[i] = outbox[i] /\ outbox[i] \in Frames
      BY <2>4, AppendIs DEF ShellOK
    <3>4. PlacedOut'
      BY <1>1, <2>1, <2>2, <2>4, <3>3 DEF Placed, PlacedOut, JobOK, Frames
    <3> QED BY <3>1, <3>2, <3>4 DEF Placed
  <2>5. (stage' = [stage EXCEPT ![c] = "settled"] /\ outbox' = outbox)
        \/ \E m \in Frames : m.of = c /\ outbox' = Append(outbox, m) /\ stage' = stage
    BY <1>3, RespondIs
  <2> QED BY <2>3, <2>4, <2>5
<1> QED BY <1>2, <1>3

LEMMA PlacedStep == PlacedInv /\ [Next]_vars => PlacedInv'
<1> SUFFICES ASSUME PlacedInv, [Next]_vars PROVE PlacedInv'
  OBVIOUS
<1>1. TypeInv'
  BY TypeStep DEF PlacedInv
<1>2. CASE UNCHANGED vars
  BY <1>1, <1>2, PlacedSame DEF vars, shell, PlacedInv
<1> QED BY <1>1, <1>2, PlacedPage, PlacedShell, PlacedHandler DEF Next, PlacedInv

-----------------------------------------------------------------------------
(* The ledger.                                                             *)

(* The four ways in which a call can move.                                 *)
Issued(c) ==
  /\ stage[c] = "new" /\ answer' = answer
  /\ \E s \in {"asked", "waiting"} : stage' = [stage EXCEPT ![c] = s]
Sent(c) ==
  stage[c] = "asked" /\ answer' = answer /\ stage' = [stage EXCEPT ![c] = "waiting"]
Settled(c) ==
  /\ stage[c] \in {"asked", "waiting"} /\ stage' = [stage EXCEPT ![c] = "settled"]
  /\ \E o \in Outcomes : answer' = [answer EXCEPT ![c] = [of |-> c, is |-> o]]

LEMMA CallMoves ==
  ASSUME PlacedInv, [Next]_vars
  PROVE  UNCHANGED <<stage, answer>> \/ \E c \in Calls : Issued(c) \/ Sent(c) \/ Settled(c)
<1> USE TypeParts DEF PlacedInv
<1>1. CASE UNCHANGED vars
  BY <1>1 DEF vars
<1>2. CASE Type \/ Clear \/ Die \/ Terminated \/ Serve
  BY <1>2 DEF Type, Clear, Die, Terminated, Serve
<1>3. ASSUME NEW c \in Calls, Debounce(c) \/ Enter(c) \/ Stream(c) PROVE Issued(c)
  BY <1>3 DEF Debounce, Enter, Ask, Stream, Issued
<1>4. CASE Deliver
  <2> DEFINE m == Head(outbox)
  <2>1. outbox \in Seq(Frames) /\ outbox # <<>>
    BY <1>4 DEF Deliver, ShellOK
  <2>2. m \in Frames /\ m = outbox[1] /\ Len(outbox) >= 1
    BY <2>1, TailIs
  <2>3. m.of \in Calls /\ m.is \in Outcomes
    BY <2>2 DEF Frames
  <2>4. stage[m.of] = "waiting"
    BY <2>1, <2>2, FramesAre DEF Placed, PlacedOut
  <2>5. CASE m.nan
    BY <1>4, <2>5 DEF Deliver
  <2>6. CASE ~m.nan
    <3>1. Settled(m.of)
      BY <1>4, <2>3, <2>4, <2>6 DEF Deliver, Told, Settled
    <3> QED BY <2>3, <3>1
  <2> QED BY <2>5, <2>6
<1>5. ASSUME NEW c \in Calls, Send(c) PROVE Sent(c) \/ Settled(c)
  <2>1. CASE child = "up"
    BY <1>5, <2>1 DEF Send, Sent
  <2>2. CASE child # "up"
    <3>1. Told(c, [of |-> c, is |-> "shell"]) /\ stage[c] = "asked"
      BY <1>5, <2>2 DEF Send
    <3> QED BY <3>1 DEF Told, Settled, Outcomes
  <2> QED BY <2>1, <2>2
<1>6. ASSUME NEW c \in Calls, Handle(c), ~Respond(c) PROVE UNCHANGED <<stage, answer>>
  BY <1>6, HandlerMoves DEF Go
<1>7. ASSUME NEW c \in Calls, Respond(c) PROVE UNCHANGED <<stage, answer>> \/ Settled(c)
  <2> DEFINE o == IF job[c].err = "none" THEN "result" ELSE Coded(job[c].err)
  <2>1. job[c] \in Jobs
    BY DEF JobOK
  <2>2. o \in Outcomes /\ "result" \in Outcomes /\ "message" \in Outcomes
    BY <2>1 DEF Coded, Outcomes, Jobs
  <2>3. stage[c] = "waiting"
    BY <1>7 DEF Respond, At, Busy, Placed, PlacedCall
  <2>4. \A x \in Outcomes : Told(c, [of |-> c, is |-> x]) => Settled(c)
    BY <2>3 DEF Told, Settled
  <2> QED BY <1>7, <2>2, <2>4 DEF Respond
<1> QED BY <1>1, <1>2, <1>3, <1>4, <1>5, <1>6, <1>7 DEF Next, Handle

(* The page's view of the calls.                                           *)
Status == [c \in Calls |->
  IF stage[c] = "settled" THEN answer[c]
  ELSE [of |-> "nobody", is |-> IF stage[c] = "new" THEN "new" ELSE "waiting"]]

LEMMA LedgerInit == Init => Ledger!Init
BY DEF Init, Ledger!Init, Ledger!New

LEMMA LedgerStep == PlacedInv /\ [Next]_vars => [Ledger!Next]_Status
<1> SUFFICES ASSUME PlacedInv, [Next]_vars PROVE Ledger!Next \/ UNCHANGED Status
  OBVIOUS
<1>0. /\ stage \in [Calls -> {"new", "asked", "waiting", "settled"}] /\ answer \in [Calls -> Answers]
  BY TypeParts DEF PlacedInv, CallsOK
<1>1. CASE UNCHANGED <<stage, answer>>
  BY <1>1 DEF Status
<1>2. ASSUME NEW c \in Calls, Sent(c) PROVE UNCHANGED Status
  BY <1>0, <1>2 DEF Sent, Status
<1>3. ASSUME NEW c \in Calls, Issued(c) PROVE Ledger!Issue(c)
  BY <1>0, <1>3 DEF Issued, Ledger!Issue, Ledger!New, Ledger!Waiting
<1>4. ASSUME NEW c \in Calls, Settled(c) PROVE Ledger!Settle(c)
  BY <1>0, <1>4 DEF Settled, Ledger!Settle, Ledger!Settled, Ledger!Waiting
<1> QED BY <1>1, <1>2, <1>3, <1>4, CallMoves DEF Ledger!Next

(* Whatever the shell, the side-car, the threads of the launcher and the   *)
(* handlers do, the page sees a ledger: every call is settled at most once *)
(* and with an outcome of its own (the pending map of rpc.rs).             *)
THEOREM LedgerKept == Spec => LedgerSpec
<1>1. Init => PlacedInv
  BY TypeInit, PlacedInit DEF PlacedInv
<1> QED BY <1>1, PlacedStep, LedgerInit, LedgerStep, PTL DEF Spec, LedgerSpec, Ledger!Spec, Status

-----------------------------------------------------------------------------
(* Retries.                                                                *)

(* No request outlasts its patience, and it gives up for the reasons it    *)
(* says (the loops of _post_json and chat_stream).                         *)
THEOREM PatienceKept == Spec => []PatienceBounded
<1>1. TypeInv => PatienceBounded
  BY DEF TypeInv, AllPatient, Patient, PatienceBounded
<1> QED BY <1>1, TypeInit, TypeStep, PTL DEF Spec

(* A step of the call goes on with the same reply, or with no stream.      *)
SameReply(c) ==
  up[c].chunks > 0 /\ up'[c].role = "stream" =>
    up'[c].from = up[c].from /\ up'[c].attempt = up[c].attempt

LEMMA ReplayStep == PlacedInv /\ [Next]_vars => \A c \in Calls : SameReply(c)
<1> SUFFICES ASSUME PlacedInv, [Next]_vars PROVE \A c \in Calls : SameReply(c)
  OBVIOUS
<1> USE TypeParts DEF PlacedInv
<1>0. up \in [Calls -> Exchanges] /\ \A c \in Calls : Patient(up[c])
  BY DEF UpOK, AllPatient
<1>1. CASE UNCHANGED up
  BY <1>1 DEF SameReply
<1>2. Idle.chunks = 0 /\ Idle.role = "none"
  BY DEF Idle, Fresh
<1>3. ASSUME NEW c \in Calls, Stream(c) PROVE \A d \in Calls : SameReply(d)
  <2>1. up[c] = Idle
    BY <1>3 DEF Stream, Placed, PlacedCall
  <2> QED BY <1>0, <1>2, <1>3, <2>1 DEF Stream, SameReply
<1>4. CASE Die
  BY <1>0, <1>2, <1>4 DEF Die, SameReply
<1>5. ASSUME NEW c \in Calls, Exchanging(c) PROVE \A d \in Calls : SameReply(d)
  BY <1>0, <1>5, ExchangeStep DEF Exchanging, SameReply
<1>6. ASSUME NEW c \in Calls, Forget(c) PROVE \A d \in Calls : SameReply(d)
  BY <1>0, <1>2, <1>6 DEF Forget, SameReply
<1>7. ASSUME NEW c \in Calls, NEW r \in Roles \ {"stream"}, NEW s, Call(c, r, s)
      PROVE  \A d \in Calls : SameReply(d)
  BY <1>0, <1>7, FreshExchange DEF Call, SameReply
<1>8. ASSUME NEW c \in Calls, Handle(c), ~Exchanging(c), ~Forget(c)
      PROVE  UNCHANGED up \/ \E r \in Roles \ {"stream"}, s \in Steps : Call(c, r, s)
  BY <1>8 DEF Handle, Begin, Retrieve, Dense, Embedded, Rerank, Reranked, Warn, Answer, Answered,
              Respond, To, Roles, Steps
<1>9. CASE Type \/ Clear \/ Deliver \/ Terminated \/ Serve
  BY <1>1, <1>9 DEF Type, Clear, Deliver, Terminated, Serve
<1>10. ASSUME NEW c \in Calls, Debounce(c) \/ Enter(c) \/ Send(c) PROVE UNCHANGED up
  BY <1>10 DEF Debounce, Enter, Ask, Send
<1> QED BY <1>1, <1>3, <1>4, <1>5, <1>6, <1>7, <1>8, <1>9, <1>10 DEF Next, vars

(* No answer is ever repeated in part (chat_stream).                       *)
THEOREM ReplayNever == Spec => NoReplay
<1>1. Init => PlacedInv
  BY TypeInit, PlacedInit DEF PlacedInv
<1> QED BY <1>1, PlacedStep, ReplayStep, PTL DEF Spec, NoReplay, SameReply

-----------------------------------------------------------------------------
(* What can fail.                                                          *)

LEMMA FittingInit == Init => Fitting
BY DEF Init, Fitting, Fits, Says, NoJob, NoAnswer, Codes, AskSteps

(* A call for which something new fits, all others as they were.           *)
LEMMA FitsOne ==
  ASSUME AnswererInv, NEW c \in Calls,
         UNCHANGED <<bridge, inbox, outbox>>,
         \A d \in Calls \ {c} : /\ kind'[d] = kind[d] /\ job'[d] = job[d] /\ up'[d] = up[d]
                                /\ stage'[d] = stage[d] /\ answer'[d] = answer[d],
         Fits(kind'[c], job'[c], up'[c]), Says(kind'[c], answer'[c].is),
         stage'[c] = "new" => answer'[c] = NoAnswer,
         stage'[c] = "asked" => kind'[c] # "stream",
         kind'[c] # kind[c] => stage[c] = "new"
  PROVE  Fitting'
<1>1. TypeInv /\ Placed /\ Fitting
  BY DEF AnswererInv, PlacedInv
<1>3. \A d \in Calls : /\ Fits(kind'[d], job'[d], up'[d]) /\ Says(kind'[d], answer'[d].is)
                       /\ stage'[d] = "new" => answer'[d] = NoAnswer
                       /\ stage'[d] = "asked" => kind'[d] # "stream"
  BY <1>1 DEF Fitting
<1>4. \A i \in 1..Len(inbox) : kind'[inbox[i]] = kind[inbox[i]]
  BY <1>1, FramesAre DEF Placed, PlacedIn
<1>5. \A i \in 1..Len(outbox) : kind'[outbox[i].of] = kind[outbox[i].of]
  BY <1>1, FramesAre DEF Placed, PlacedOut
<1> QED BY <1>1, <1>3, <1>4, <1>5 DEF Fitting, Says

LEMMA FittingPage ==
  ASSUME AnswererInv, Type \/ Clear \/ \E c \in Calls : Debounce(c) \/ Enter(c) \/ Stream(c)
  PROVE  Fitting'
<1> USE TypeParts DEF AnswererInv, PlacedInv
<1>1. CASE Type \/ Clear
  BY <1>1 DEF Type, Clear, shell, Fitting, Says
<1>0. /\ kind \in [Calls -> Kinds \cup {"none"}] /\ job \in [Calls -> Jobs]
      /\ up \in [Calls -> Exchanges] /\ stage \in [Calls -> {"new", "asked", "waiting", "settled"}]
  BY DEF CallsOK, JobOK, UpOK
<1>2. ASSUME NEW c \in Calls, NEW k \in Kinds \ {"stream"}, NEW q, Ask(c, k, q) PROVE Fitting'
  <2>1. /\ UNCHANGED <<bridge, answer, up, inbox, outbox>> /\ stage[c] = "new"
        /\ kind' = [kind EXCEPT ![c] = k]
        /\ \E s \in {"asked", "waiting"} : stage' = [stage EXCEPT ![c] = s]
        /\ job' = job \/ job' = [job EXCEPT ![c].at = "begin"]
    BY <1>2 DEF Ask
  <2>2. /\ kind[c] = "none" /\ up[c] = Idle /\ job[c].at = "idle" /\ answer[c] = NoAnswer
        /\ Fits(kind[c], job[c], up[c])
    BY <2>1 DEF Placed, PlacedCall, Fitting
  <2>3. job[c].err = "none" /\ job[c].nan = FALSE
    BY <1>0, <2>2, Zenon DEF Fits, Jobs
  <2>4. /\ job'[c].at \in {"idle", "begin"} /\ job'[c].err = job[c].err /\ job'[c].nan = job[c].nan
        /\ kind'[c] = k /\ up'[c] = Idle
    BY <1>0, <2>1, <2>2 DEF Jobs
  <2>5. Fits(k, job'[c], Idle)
    BY <2>3, <2>4 DEF Fits, Codes, AskSteps
  <2>6. Says(k, answer[c].is)
    BY <2>2 DEF Says, NoAnswer, Codes
  <2>7. \A d \in Calls \ {c} : /\ kind'[d] = kind[d] /\ job'[d] = job[d] /\ up'[d] = up[d]
                               /\ stage'[d] = stage[d] /\ answer'[d] = answer[d]
    BY <1>0, <2>1
  <2> QED BY <1>0, <2>1, <2>2, <2>4, <2>5, <2>6, <2>7, FitsOne
<1>3. ASSUME NEW c \in Calls, Debounce(c) \/ Enter(c) PROVE Fitting'
  <2>1. \E k \in Kinds \ {"stream"} : Ask(c, k, typed)
    BY <1>3 DEF Debounce, Enter, Kinds
  <2> QED BY <1>2, <2>1
<1>4. ASSUME NEW c \in Calls, Stream(c) PROVE Fitting'
  <2>1. /\ UNCHANGED <<bridge, answer, inbox, outbox>> /\ stage[c] = "new"
        /\ kind' = [kind EXCEPT ![c] = "stream"] /\ stage' = [stage EXCEPT ![c] = "waiting"]
        /\ job' = [job EXCEPT ![c].at = "chatting"] /\ up' = [up EXCEPT ![c] = Fresh("stream")]
    BY <1>4 DEF Stream, shell
  <2>2. /\ kind[c] = "none" /\ up[c] = Idle /\ job[c].at = "idle" /\ answer[c] = NoAnswer
        /\ Fits(kind[c], job[c], up[c])
    BY <2>1 DEF Placed, PlacedCall, Fitting
  <2>3. job[c].err = "none" /\ job[c].nan = FALSE
    BY <1>0, <2>2, Zenon DEF Fits, Jobs
  <2>4. /\ job'[c].at = "chatting" /\ job'[c].err = job[c].err /\ job'[c].nan = job[c].nan
        /\ kind'[c] = "stream" /\ up'[c].role = "stream"
    BY <1>0, <2>1, <2>2, FreshExchange DEF Jobs, Roles
  <2>5. Fits("stream", job'[c], up'[c])
    BY <2>3, <2>4 DEF Fits, Codes, AskSteps
  <2>6. Says("stream", answer[c].is)
    BY <2>2 DEF Says, NoAnswer, Codes
  <2>7. \A d \in Calls \ {c} : /\ kind'[d] = kind[d] /\ job'[d] = job[d] /\ up'[d] = up[d]
                               /\ stage'[d] = stage[d] /\ answer'[d] = answer[d]
    BY <1>0, <2>1
  <2> QED BY <1>0, <2>1, <2>2, <2>4, <2>5, <2>6, <2>7, FitsOne
<1> QED BY <1>1, <1>3, <1>4

LEMMA FittingShell ==
  ASSUME AnswererInv, Deliver \/ Die \/ Terminated \/ Serve \/ \E c \in Calls : Send(c)
  PROVE  Fitting'
<1> USE TypeParts DEF AnswererInv, PlacedInv
<1>0. /\ kind \in [Calls -> Kinds \cup {"none"}] /\ job \in [Calls -> Jobs]
      /\ up \in [Calls -> Exchanges] /\ stage \in [Calls -> {"new", "asked", "waiting", "settled"}]
      /\ answer \in [Calls -> Answers]
  BY DEF CallsOK, JobOK, UpOK
<1>1. CASE Deliver
  <2> DEFINE m == Head(outbox)
  <2>0. outbox \in Seq(Frames) /\ outbox # <<>>
    BY <1>1 DEF Deliver, ShellOK
  <2>4. m \in Frames /\ m = outbox[1] /\ Len(outbox) >= 1
    BY <2>0, TailIs
  <2>1. m = outbox[1] /\ Len(outbox) >= 1 /\ m.of \in Calls /\ Len(outbox) \in Nat
    BY <2>0, <2>4, TailIs DEF Frames
  <2>2. CASE m.nan
    BY <1>1, <2>2 DEF Deliver, Fitting, Says
  <2>3. CASE ~m.nan
    <3>1. /\ stage' = [stage EXCEPT ![m.of] = "settled"] /\ outbox' = Tail(outbox)
          /\ answer' = [answer EXCEPT ![m.of] = [of |-> m.of, is |-> m.is]]
          /\ UNCHANGED <<bridge, kind, job, up, inbox>>
      BY <1>1, <2>3 DEF Deliver, Told
    <3>2. stage[m.of] = "waiting" /\ Says(kind[m.of], m.is)
      BY <2>1 DEF Placed, PlacedOut, Fitting
    <3>3. /\ Len(outbox') = Len(outbox) - 1
          /\ \A i \in 1..Len(outbox') : outbox'[i] = outbox[i + 1] /\ i + 1 \in 1..Len(outbox)
      BY <2>0, <3>1, TailIs
    <3>4. \A i \in 1..Len(outbox') : Says(kind[outbox'[i].of], outbox'[i].is)
      BY <3>1, <3>3 DEF Fitting
    <3>5. \A c \in Calls : /\ Fits(kind'[c], job'[c], up'[c]) /\ Says(kind'[c], answer'[c].is)
                           /\ stage'[c] = "new" => answer'[c] = NoAnswer
                           /\ stage'[c] = "asked" => kind'[c] # "stream"
      BY <1>0, <2>1, <3>1, <3>2 DEF Fitting
    <3> QED BY <3>1, <3>4, <3>5 DEF Fitting, Says
  <2> QED BY <2>2, <2>3
<1>2. CASE Die
  <2> DEFINE over == [NoJob EXCEPT !.at = "done"]
  <2>1. over.at = "done" /\ over.err = "none" /\ over.nan = FALSE
    BY DEF NoJob
  <2>2. \A k : Fits(k, over, Idle)
    BY <2>1 DEF Fits, AskSteps, Codes
  <2>3. \A c \in Calls : (job'[c] = job[c] /\ up'[c] = up[c]) \/ (job'[c] = over /\ up'[c] = Idle)
    <3> SUFFICES ASSUME NEW c \in Calls PROVE (job'[c] = job[c] /\ up'[c] = up[c]) \/ (job'[c] = over /\ up'[c] = Idle)
      OBVIOUS
    <3>1. CASE Busy(c)
      <4>1. job[c].at # "idle"
        BY <3>1 DEF Busy
      <4> QED BY <1>2, <3>1, <4>1 DEF Die
    <3>2. CASE ~Busy(c)
      <4>1. up[c] = Idle /\ up'[c] = up[c]
        BY <1>2, <3>2 DEF Die, Busy, Fitting, Fits
      <4> QED BY <1>2, <4>1 DEF Die
    <3> QED BY <3>1, <3>2
  <2>4. UNCHANGED <<bridge, stage, kind, answer, outbox>> /\ inbox' = <<>>
    BY <1>2 DEF Die
  <2> QED BY <2>2, <2>3, <2>4 DEF Fitting, Says
<1>3. CASE Terminated
  BY <1>3 DEF Terminated, Fitting, Says
<1>4. CASE Serve
  <2> DEFINE h == Head(inbox)
  <2>0. inbox \in Seq(Calls) /\ inbox # <<>>
    BY <1>4 DEF Serve, ShellOK
  <2>1. h = inbox[1] /\ Len(inbox) >= 1 /\ h \in Calls /\ Len(inbox) \in Nat
    BY <2>0, TailIs
  <2>2. /\ job' = [job EXCEPT ![h].at = "begin"] /\ inbox' = Tail(inbox)
        /\ UNCHANGED <<bridge, stage, kind, answer, up, outbox>>
    BY <1>4 DEF Serve
  <2>3. job[h].at = "idle" /\ kind[h] # "stream" /\ Fits(kind[h], job[h], up[h])
    BY <2>1 DEF Placed, PlacedIn, Fitting
  <2>4. job[h].err = "none" /\ up[h] = Idle
    BY <2>3 DEF Fits
  <2>5. job'[h].at = "begin" /\ job'[h].err = job[h].err /\ job'[h].nan = job[h].nan
    BY <1>0, <2>1, <2>2 DEF Jobs
  <2>6. Fits(kind[h], job'[h], up[h])
    BY <2>3, <2>4, <2>5 DEF Fits, AskSteps, Codes
  <2>7. \A c \in Calls : Fits(kind'[c], job'[c], up'[c])
    BY <1>0, <2>2, <2>6 DEF Fitting
  <2>8. \A i \in 1..Len(inbox') : kind[inbox'[i]] # "stream"
    BY <2>0, <2>2, TailIs DEF Fitting
  <2> QED BY <2>2, <2>7, <2>8 DEF Fitting, Says
<1>5. ASSUME NEW c \in Calls, Send(c) PROVE Fitting'
  <2>1. /\ stage[c] = "asked" /\ UNCHANGED <<bridge, kind, job, up, outbox>>
        /\ stage' = [stage EXCEPT ![c] = IF child = "up" THEN "waiting" ELSE "settled"]
        /\ inbox' = IF child = "up" THEN Append(inbox, c) ELSE inbox
        /\ answer' = answer \/ answer' = [answer EXCEPT ![c] = [of |-> c, is |-> "shell"]]
    BY <1>5 DEF Send, Told
  <2>2. kind[c] # "stream" /\ Says(kind[c], "shell")
    BY <2>1 DEF Fitting, Says, Codes
  <2>3. \A i \in 1..Len(inbox') : kind[inbox'[i]] # "stream"
    <3>1. CASE child = "up"
      <4>1. /\ Len(inbox') = Len(inbox) + 1 /\ Len(inbox) \in Nat /\ inbox'[Len(inbox) + 1] = c
            /\ \A i \in 1..Len(inbox) : inbox'[i] = inbox[i] /\ inbox[i] \in Calls
        BY <2>1, <3>1, AppendIs DEF ShellOK
      <4> QED BY <2>2, <4>1 DEF Fitting
    <3>2. CASE child # "up"
      BY <2>1, <3>2 DEF Fitting
    <3> QED BY <3>1, <3>2
  <2>4. \A d \in Calls : /\ Says(kind[d], answer'[d].is)
                         /\ stage'[d] = "new" => answer'[d] = NoAnswer
                         /\ stage'[d] = "asked" => kind[d] # "stream"
    BY <1>0, <2>1, <2>2 DEF Fitting
  <2> QED BY <2>1, <2>3, <2>4 DEF Fitting, Says
<1> QED BY <1>1, <1>2, <1>3, <1>4, <1>5

(* A handler goes on with what fits.                                       *)
LEMMA FitsStep ==
  ASSUME AnswererInv, NEW c \in Calls, NEW j, Go(c, j), \A d \in Calls \ {c} : up'[d] = up[d],
         Fits(kind[c], j, up'[c])
  PROVE  Fitting'
<1>1. /\ UNCHANGED <<bridge, stage, kind, answer, inbox, outbox>>
      /\ job' = [job EXCEPT ![c] = j] /\ job \in [Calls -> Jobs]
  BY TypeParts DEF AnswererInv, PlacedInv, Go, shell, JobOK
<1>2. job'[c] = j /\ \A d \in Calls \ {c} : job'[d] = job[d]
  BY <1>1
<1>3. /\ Says(kind[c], answer[c].is)
      /\ stage[c] = "new" => answer[c] = NoAnswer
      /\ stage[c] = "asked" => kind[c] # "stream"
  BY DEF AnswererInv, Fitting
<1> QED BY <1>1, <1>2, <1>3, FitsOne

LEMMA FittingHandler ==
  ASSUME AnswererInv, NEW c \in Calls, Handle(c), ~Respond(c)
  PROVE  Fitting'
<1> USE TypeParts DEF AnswererInv, PlacedInv
<1> DEFINE j == job[c]
           k == kind[c]
<1>0. /\ j \in Jobs /\ up \in [Calls -> Exchanges] /\ up[c] \in Exchanges /\ Patient(up[c])
      /\ Fits(k, j, up[c]) /\ k \in Kinds
  <2>1. Busy(c)
    BY HandlerMoves
  <2> QED BY <2>1 DEF JobOK, UpOK, AllPatient, Fitting, CallsOK, Placed, PlacedCall
<1>1. j.at \notin {"respond"} => j.err = "none"
  BY <1>0 DEF Fits
<1>2. \A d \in Calls \ {c} : up'[d] = up[d]
  BY HandlerMoves
<1>3. ASSUME Forget(c) PROVE up'[c] = Idle
  BY <1>0, <1>3 DEF Forget
<1>4. ASSUME NEW s \in Steps
      PROVE  /\ [j EXCEPT !.at = s].at = s /\ [j EXCEPT !.at = s].err = j.err
             /\ [j EXCEPT !.at = s].nan = j.nan
  BY <1>0 DEF Jobs
<1>5. ASSUME NEW s \in Steps, To(c, s), j.err = "none", Fits(k, [j EXCEPT !.at = s], up[c])
      PROVE  Fitting'
  BY <1>2, <1>5, FitsStep DEF To
<1>6. ASSUME NEW s \in Steps, NEW r \in Roles, Call(c, r, s), j.err = "none", k = "ask",
             s \in {"embedding", "reranking"} \/ (s = "chatting" /\ r = "llm")
      PROVE  Fitting'
  <2>1. up'[c] = Fresh(r) /\ up'[c].role = r
    BY <1>0, <1>6, FreshExchange DEF Call
  <2>2. Fits(k, [j EXCEPT !.at = s], up'[c])
    BY <1>0, <1>4, <1>6, <2>1 DEF Fits, AskSteps, Codes
  <2> QED BY <1>2, <1>6, <2>2, FitsStep DEF Call
<1>7. CASE Begin(c)
  <2>1. j.at = "begin" /\ j.err = "none" /\ up[c] = Idle /\ k # "stream"
    BY <1>0, <1>1, <1>7 DEF Begin, At, Fits
  <2>2. CASE k = "name"
    <3>1. PICK e \in {"none", "internal"} :
            Go(c, [j EXCEPT !.at = "respond", !.err = e]) /\ UNCHANGED up
      BY <1>7, <2>2 DEF Begin
    <3> DEFINE n == [j EXCEPT !.at = "respond", !.err = e]
    <3>2. n.at = "respond" /\ n.err = e /\ n.nan = j.nan
      BY <1>0 DEF Jobs
    <3>3. Fits(k, n, up'[c])
      BY <1>0, <2>1, <2>2, <3>1, <3>2 DEF Fits, AskSteps, Codes
    <3> QED BY <1>2, <3>1, <3>3, FitsStep
  <2>3. CASE k # "name"
    <3>1. PICK s \in {"retrieve", "respond"} : To(c, s)
      BY <1>7, <2>3 DEF Begin
    <3>2. s \in Steps /\ k \in {"search", "ask"}
      BY <1>0, <2>1, <2>3 DEF Steps, Kinds
    <3>3. Fits(k, [j EXCEPT !.at = s], up[c])
      BY <1>0, <1>4, <2>1, <3>1, <3>2 DEF Fits, AskSteps, Codes
    <3> QED BY <1>5, <2>1, <3>1, <3>2, <3>3
  <2> QED BY <2>2, <2>3
<1>8. CASE Retrieve(c)
  <2>1. j.at = "retrieve" /\ j.err = "none" /\ up[c] = Idle /\ k \in {"search", "ask"} /\ up' = up
    BY <1>0, <1>1, <1>8 DEF Retrieve, At, Fits
  <2>2. ASSUME NEW h \in BOOLEAN, Go(c, [j EXCEPT !.hits = h, !.at = IF k = "ask" THEN "dense" ELSE "warn"])
        PROVE  Fitting'
    <3> DEFINE n == [j EXCEPT !.hits = h, !.at = IF k = "ask" THEN "dense" ELSE "warn"]
    <3>1. n.at = (IF k = "ask" THEN "dense" ELSE "warn") /\ n.err = j.err /\ n.nan = j.nan
      BY <1>0 DEF Jobs
    <3>2. Fits(k, n, up'[c])
      BY <1>0, <2>1, <3>1 DEF Fits, AskSteps, Codes
    <3> QED BY <1>2, <2>2, <3>2, FitsStep
  <2>3. ASSUME Go(c, [j EXCEPT !.at = "respond", !.note = "search_backend_failed"])
        PROVE  Fitting'
    <3> DEFINE n == [j EXCEPT !.at = "respond", !.note = "search_backend_failed"]
    <3>1. n.at = "respond" /\ n.err = j.err /\ n.nan = j.nan
      BY <1>0 DEF Jobs
    <3>2. Fits(k, n, up'[c])
      BY <1>0, <2>1, <3>1 DEF Fits, AskSteps, Codes
    <3> QED BY <1>2, <2>3, <3>2, FitsStep
  <2> QED BY <1>8, <2>2, <2>3 DEF Retrieve
<1>9. CASE Dense(c)
  <2>1. j.at = "dense" /\ j.err = "none" /\ up[c] = Idle /\ k = "ask"
    BY <1>0, <1>1, <1>9 DEF Dense, At, Fits, AskSteps
  <2>2. Fits(k, [j EXCEPT !.at = "rerank"], up[c])
    BY <1>0, <1>4, <2>1 DEF Fits, AskSteps, Codes, Steps
  <2> QED BY <1>5, <1>6, <1>9, <2>1, <2>2 DEF Dense, Steps, Roles
<1>10. CASE Embedded(c)
  <2>1. j.at = "embedding" /\ j.err = "none" /\ k = "ask"
    BY <1>0, <1>1, <1>10 DEF Embedded, At, Fits, AskSteps
  <2>2. PICK h \in BOOLEAN : Go(c, [j EXCEPT !.at = "rerank", !.hits = h])
    BY <1>10 DEF Embedded
  <2> DEFINE n == [j EXCEPT !.at = "rerank", !.hits = h]
  <2>3. n.at = "rerank" /\ n.err = j.err /\ n.nan = j.nan
    BY <1>0 DEF Jobs
  <2>4. Fits(k, n, up'[c])
    BY <1>0, <1>3, <1>10, <2>1, <2>3 DEF Fits, AskSteps, Codes, Embedded
  <2> QED BY <1>2, <2>2, <2>4, FitsStep
<1>11. CASE Rerank(c)
  <2>1. j.at = "rerank" /\ j.err = "none" /\ up[c] = Idle /\ k = "ask"
    BY <1>0, <1>1, <1>11 DEF Rerank, At, Fits, AskSteps
  <2>2. Fits(k, [j EXCEPT !.at = "warn"], up[c])
    BY <1>0, <1>4, <2>1 DEF Fits, AskSteps, Codes, Steps
  <2> QED BY <1>5, <1>6, <1>11, <2>1, <2>2 DEF Rerank, Steps, Roles
<1>12. CASE Reranked(c)
  <2>1. j.at = "reranking" /\ j.err = "none" /\ k = "ask"
    BY <1>0, <1>1, <1>12 DEF Reranked, At, Fits, AskSteps
  <2>2. PICK b \in BOOLEAN : Go(c, [j EXCEPT !.at = "warn", !.nan = b])
    BY <1>12 DEF Reranked
  <2> DEFINE n == [j EXCEPT !.at = "warn", !.nan = b]
  <2>3. n.at = "warn" /\ n.err = j.err
    BY <1>0 DEF Jobs
  <2>4. Fits(k, n, up'[c])
    BY <1>0, <1>3, <1>12, <2>1, <2>3 DEF Fits, AskSteps, Codes, Reranked
  <2> QED BY <1>2, <2>2, <2>4, FitsStep
<1>13. CASE Warn(c)
  <2>1. j.at = "warn" /\ j.err = "none" /\ up[c] = Idle /\ k \in {"search", "ask"} /\ up' = up
    BY <1>0, <1>1, <1>13 DEF Warn, At, Fits
  <2>2. PICK w \in Notes : Go(c, [j EXCEPT !.note = w, !.at = IF k = "ask" THEN "answer" ELSE "respond"])
    BY <1>13 DEF Warn
  <2> DEFINE n == [j EXCEPT !.note = w, !.at = IF k = "ask" THEN "answer" ELSE "respond"]
  <2>3. n.at = (IF k = "ask" THEN "answer" ELSE "respond") /\ n.err = j.err /\ n.nan = j.nan
    BY <1>0 DEF Jobs
  <2>4. Fits(k, n, up'[c])
    BY <1>0, <2>1, <2>3 DEF Fits, AskSteps, Codes
  <2> QED BY <1>2, <2>2, <2>4, FitsStep
<1>14. CASE Answer(c)
  <2>1. j.at = "answer" /\ j.err = "none" /\ up[c] = Idle /\ k = "ask"
    BY <1>0, <1>1, <1>14 DEF Answer, At, Fits, AskSteps
  <2>2. Fits(k, [j EXCEPT !.at = "respond"], up[c])
    BY <1>0, <1>4, <2>1 DEF Fits, AskSteps, Codes, Steps
  <2> QED BY <1>5, <1>6, <1>14, <2>1, <2>2 DEF Answer, Steps, Roles
<1>15. CASE Answered(c)
  <2>1. j.at = "chatting" /\ k \in {"ask", "stream"} /\ up' = up /\ (k = "ask" => up[c].role = "llm")
    BY <1>0, <1>15 DEF Answered, At, Fits
  <2> DEFINE e == IF k = "ask" /\ up[c].out \in Codes THEN up[c].out ELSE "none"
             n == [j EXCEPT !.at = "respond", !.err = e]
  <2>2. Go(c, n)
    BY <1>15 DEF Answered
  <2>3. n.at = "respond" /\ n.err = e /\ n.nan = j.nan
    BY <1>0 DEF Jobs
  <2>4. e \in Codes \cup {"none"} /\ (e # "none" => k = "ask" /\ e = up[c].out)
    OBVIOUS
  <2> HIDE DEF e, n
  <2>5. Fits(k, n, up'[c])
    BY <1>0, <2>1, <2>3, <2>4 DEF Fits, AskSteps, Codes
  <2> QED BY <1>2, <2>2, <2>5, FitsStep
<1>16. CASE Exchanging(c)
  <2>1. Go(c, j) /\ j.at \in {"embedding", "reranking", "chatting"}
    BY <1>16 DEF Exchanging, Go, JobOK
  <2>2. up'[c].role = up[c].role
    BY <1>0, <1>16, ExchangeStep DEF Exchanging
  <2>3. Fits(k, j, up'[c])
    BY <1>0, <1>1, <2>1, <2>2 DEF Fits, AskSteps, Codes
  <2> QED BY <1>2, <2>1, <2>3, FitsStep
<1> QED BY <1>7, <1>8, <1>9, <1>10, <1>11, <1>12, <1>13, <1>14, <1>15, <1>16 DEF Handle

LEMMA FittingRespond ==
  ASSUME AnswererInv, NEW c \in Calls, Respond(c)
  PROVE  Fitting'
<1> USE TypeParts DEF AnswererInv, PlacedInv
<1> DEFINE j == job[c]
           k == kind[c]
           over == [NoJob EXCEPT !.at = "done"]
           o == IF j.err = "none" THEN "result" ELSE Coded(j.err)
           x == IF o = "result" /\ ~j.nan THEN o ELSE "message"
           m == [of |-> c, is |-> o, nan |-> j.nan /\ o = "result"]
<1>0. /\ j \in Jobs /\ up \in [Calls -> Exchanges] /\ job \in [Calls -> Jobs] /\ Fits(k, j, up[c])
      /\ stage \in [Calls -> {"new", "asked", "waiting", "settled"}] /\ answer \in [Calls -> Answers]
      /\ bridge \in {"sidecar", "module", "http"}
  BY Setting DEF JobOK, UpOK, Fitting, CallsOK
<1>1. /\ up' = [up EXCEPT ![c] = Idle] /\ job' = [job EXCEPT ![c] = over]
      /\ UNCHANGED <<bridge, kind, inbox>>
  BY DEF Respond, Forget
<1>2. over.at = "done" /\ over.err = "none" /\ over.nan = FALSE
  BY DEF NoJob
<1>3. Fits(k, job'[c], up'[c])
  BY <1>0, <1>1, <1>2 DEF Fits, AskSteps, Codes
<1>4. \A d \in Calls \ {c} : /\ kind'[d] = kind[d] /\ job'[d] = job[d] /\ up'[d] = up[d]
  BY <1>0, <1>1
<1>5. /\ o \in Codes => k = "ask" /\ bridge # "module"
      /\ k = "search" => o = "result" /\ ~j.nan
      /\ o \in {"result", "internal"} \cup Codes
  BY <1>0 DEF Fits, Coded, Jobs, Codes
<1>6. stage[c] = "waiting"
  BY DEF Respond, At, Busy, Placed, PlacedCall
<1>7. ASSUME NEW y, Told(c, [of |-> c, is |-> y]), UNCHANGED outbox, Says(k, y)
      PROVE  Fitting'
  <2>1. /\ stage'[c] = "settled" /\ answer'[c].is = y
        /\ \A d \in Calls \ {c} : stage'[d] = stage[d] /\ answer'[d] = answer[d]
    BY <1>0, <1>7 DEF Told
  <2> QED BY <1>1, <1>3, <1>4, <1>7, <2>1, FitsOne
<1>8. CASE k = "stream"
  <2>1. Says(k, "result")
    BY <1>8 DEF Says, Codes
  <2> QED BY <1>7, <1>8, <2>1 DEF Respond
<1>9. CASE k # "stream" /\ bridge = "http"
  <2>1. Told(c, [of |-> c, is |-> x]) /\ UNCHANGED outbox
    BY <1>9 DEF Respond
  <2>2. Says(k, x)
    BY <1>5 DEF Says, Codes
  <2> QED BY <1>7, <2>1, <2>2
<1>10. CASE k # "stream" /\ bridge # "http"
  <2>1. outbox' = Append(outbox, m) /\ UNCHANGED <<stage, answer>>
    BY <1>10 DEF Respond
  <2>2. Says(k, o)
    BY <1>0, <1>5, <1>10 DEF Says, Codes
  <2>3. m \in Frames
    BY <1>0, <1>5 DEF Frames, Jobs, Outcomes
  <2>4. m.of = c /\ m.is = o
    OBVIOUS
  <2> HIDE DEF m
  <2>5. /\ Len(outbox') = Len(outbox) + 1 /\ Len(outbox) \in Nat /\ outbox'[Len(outbox) + 1] = m
        /\ \A i \in 1..Len(outbox) : outbox'[i] = outbox[i] /\ outbox[i] \in Frames
    BY <2>1, <2>3, AppendIs DEF ShellOK
  <2>6. \A i \in 1..Len(outbox') : Says(kind[outbox'[i].of], outbox'[i].is)
    BY <2>2, <2>4, <2>5 DEF Fitting
  <2>7. \A d \in Calls : Fits(kind[d], job'[d], up'[d])
    BY <1>1, <1>3, <1>4 DEF Fitting
  <2> QED BY <1>1, <2>1, <2>6, <2>7 DEF Fitting, Says
<1> QED BY <1>8, <1>9, <1>10

LEMMA FittingStep == AnswererInv /\ [Next]_vars => AnswererInv'
<1> SUFFICES ASSUME AnswererInv, [Next]_vars PROVE AnswererInv'
  OBVIOUS
<1>1. PlacedInv'
  BY PlacedStep DEF AnswererInv
<1>2. CASE UNCHANGED vars
  BY <1>1, <1>2 DEF AnswererInv, vars, shell, Fitting, Says
<1>3. CASE Next
  BY <1>1, <1>3, FittingPage, FittingShell, FittingHandler, FittingRespond DEF Next, AnswererInv
<1> QED BY <1>2, <1>3

(* Only the language model makes an answer fail, and a search of the       *)
(* contents needs no server (hybrid_search, answer_strict, handle_single). *)
THEOREM AnswererFails == Spec => []OnlyAnswererFails
<1>1. Init => AnswererInv
  BY TypeInit, PlacedInit, FittingInit DEF AnswererInv, PlacedInv
<1>2. AnswererInv => OnlyAnswererFails
  <2> SUFFICES ASSUME AnswererInv, NEW c \in Calls
               PROVE /\ job[c].err \in Codes => kind[c] = "ask" /\ up[c].role = "llm" /\ up[c].out = job[c].err
                     /\ answer[c].is \in Codes => kind[c] = "ask" /\ bridge = "sidecar"
                     /\ kind[c] = "search" => up[c] = Idle /\ answer[c].is \notin {"internal", "message"}
    BY DEF OnlyAnswererFails
  <2>1. Fits(kind[c], job[c], up[c]) /\ Says(kind[c], answer[c].is)
    BY DEF AnswererInv, Fitting
  <2>2. kind[c] = "search" => up[c] = Idle
    BY <2>1 DEF Fits, AskSteps
  <2> QED BY <2>1, <2>2 DEF Fits, Says
<1> QED BY <1>1, <1>2, FittingStep, PTL DEF Spec

-----------------------------------------------------------------------------
(* What can be lost.                                                       *)

LEMMA KeptInit == Init => Kept
BY DEF Init, Kept

LEMMA KeptPage ==
  ASSUME LossInv, Type \/ Clear \/ \E c \in Calls : Debounce(c) \/ Enter(c) \/ Stream(c)
  PROVE  Kept'
<1> USE TypeParts DEF LossInv, PlacedInv
<1>1. CASE Type \/ Clear
  BY <1>1 DEF Type, Clear, shell, Kept, InFlight, Busy
<1>2. ASSUME NEW c \in Calls, UNCHANGED <<inbox, outbox, reader, child>>,
             \E s \in {"asked", "waiting"} : stage' = [stage EXCEPT ![c] = s],
             stage'[c] = "waiting" => job' = [job EXCEPT ![c].at = "begin"]
                                      \/ job' = [job EXCEPT ![c].at = "chatting"],
             stage'[c] = "waiting" \/ job' = job
      PROVE  Kept'
  <2>1. \A d \in Calls \ {c} : stage'[d] = stage[d] /\ job'[d] = job[d]
    BY <1>2 DEF CallsOK, JobOK
  <2>2. stage'[c] = "waiting" => job'[c].at \in {"begin", "chatting"}
    BY <1>2 DEF JobOK, Jobs
  <2> QED BY <1>2, <2>1, <2>2 DEF Kept, InFlight, Busy
<1>3. ASSUME NEW c \in Calls, Debounce(c) \/ Enter(c) PROVE Kept'
  <2>1. PICK k \in Kinds : Ask(c, k, typed)
    BY <1>3 DEF Debounce, Enter, Kinds
  <2> QED BY <1>2, <2>1 DEF Ask, CallsOK
<1>4. ASSUME NEW c \in Calls, Stream(c) PROVE Kept'
  BY <1>2, <1>4 DEF Stream, shell, CallsOK
<1> QED BY <1>1, <1>3, <1>4

LEMMA KeptShell ==
  ASSUME LossInv, Deliver \/ Die \/ Terminated \/ Serve \/ \E c \in Calls : Send(c)
  PROVE  Kept'
<1> USE TypeParts DEF LossInv, PlacedInv
<1>1. CASE Deliver
  <2> DEFINE m == Head(outbox)
  <2>0. outbox \in Seq(Frames) /\ outbox # <<>> /\ UNCHANGED <<job, inbox, child>>
    BY <1>1 DEF Deliver, ShellOK
  <2>1. /\ m \in Frames /\ m = outbox[1] /\ Len(outbox) >= 1 /\ Len(outbox) \in Nat
    BY <2>0, TailIs
  <2>2. CASE m.nan
    BY <1>1, <2>0, <2>2 DEF Deliver, Kept, InFlight, Busy
  <2>3. CASE ~m.nan
    <3>1. /\ stage' = [stage EXCEPT ![m.of] = "settled"] /\ outbox' = Tail(outbox)
          /\ reader' = reader /\ reader # "stuck"
      BY <1>1, <2>3 DEF Deliver, Told
    <3>2. /\ Len(outbox') = Len(outbox) - 1
          /\ \A i \in 1..Len(outbox') : outbox'[i] = outbox[i + 1]
      BY <2>0, <3>1, TailIs
    <3>3. ASSUME NEW c \in Calls, c # m.of, NEW i \in 1..Len(outbox), outbox[i].of = c
          PROVE  \E n \in 1..Len(outbox') : outbox'[n].of = c
      <4>1. i - 1 \in 1..Len(outbox') /\ outbox'[i - 1] = outbox[i]
        BY <2>1, <3>2, <3>3
      <4> QED BY <3>3, <4>1
    <3> QED BY <2>0, <3>1, <3>3 DEF Kept, InFlight, Busy, CallsOK
  <2> QED BY <2>2, <2>3
<1>2. CASE Die
  BY <1>2 DEF Die, Kept
<1>3. CASE Terminated
  BY <1>3 DEF Terminated, Kept, InFlight, Busy
<1>4. CASE Serve
  <2> DEFINE h == Head(inbox)
  <2>0. /\ inbox \in Seq(Calls) /\ inbox # <<>>
        /\ job' = [job EXCEPT ![h].at = "begin"] /\ inbox' = Tail(inbox)
        /\ UNCHANGED <<stage, outbox, child, reader>>
    BY <1>4 DEF Serve, ShellOK
  <2>1. /\ h = inbox[1] /\ Len(inbox) >= 1 /\ h \in Calls /\ Len(inbox) \in Nat
        /\ Len(inbox') = Len(inbox) - 1
        /\ \A i \in 1..Len(inbox') : inbox'[i] = inbox[i + 1]
    BY <2>0, TailIs
  <2>2. job'[h].at = "begin" /\ \A c \in Calls \ {h} : job'[c] = job[c]
    BY <2>0, <2>1 DEF JobOK, Jobs
  <2>3. ASSUME NEW c \in Calls, c # h, NEW i \in 1..Len(inbox), inbox[i] = c
        PROVE  \E n \in 1..Len(inbox') : inbox'[n] = c
    <3>1. i - 1 \in 1..Len(inbox') /\ inbox'[i - 1] = inbox[i]
      BY <2>1, <2>3
    <3> QED BY <2>3, <3>1
  <2> QED BY <2>0, <2>2, <2>3 DEF Kept, InFlight, Busy
<1>5. ASSUME NEW c \in Calls, Send(c) PROVE Kept'
  <2>1. /\ stage[c] = "asked" /\ UNCHANGED <<job, outbox, reader, child>>
        /\ stage' = [stage EXCEPT ![c] = IF child = "up" THEN "waiting" ELSE "settled"]
        /\ inbox' = IF child = "up" THEN Append(inbox, c) ELSE inbox
    BY <1>5 DEF Send, Told
  <2>2. CASE child = "up"
    <3>1. /\ Len(inbox') = Len(inbox) + 1 /\ Len(inbox) \in Nat /\ inbox'[Len(inbox) + 1] = c
          /\ \A i \in 1..Len(inbox) : inbox'[i] = inbox[i]
      BY <2>1, <2>2, AppendIs DEF ShellOK
    <3>2. \A d \in Calls, i \in 1..Len(inbox) : inbox[i] = d => \E n \in 1..Len(inbox') : inbox'[n] = d
      BY <3>1
    <3>3. \E n \in 1..Len(inbox') : inbox'[n] = c
      BY <3>1
    <3> QED BY <2>1, <3>2, <3>3 DEF Kept, InFlight, Busy, CallsOK
  <2>3. CASE child # "up"
    BY <2>1, <2>3 DEF Kept, InFlight, Busy, CallsOK
  <2> QED BY <2>2, <2>3
<1> QED BY <1>1, <1>2, <1>3, <1>4, <1>5

LEMMA KeptHandler ==
  ASSUME LossInv, NEW c \in Calls, Handle(c)
  PROVE  Kept'
<1> USE TypeParts DEF LossInv, PlacedInv
<1>1. CASE ~Respond(c)
  <2>1. PICK k \in Jobs : Go(c, k) /\ k.at \notin {"idle", "done"}
    BY <1>1, HandlerMoves
  <2>2. /\ job'[c] = k /\ UNCHANGED <<stage, inbox, outbox, child, reader>>
        /\ \A d \in Calls \ {c} : job'[d] = job[d]
    BY <2>1 DEF Go, shell, JobOK
  <2> QED BY <2>1, <2>2 DEF Kept, InFlight, Busy
<1>2. CASE Respond(c)
  <2>1. /\ UNCHANGED <<inbox, reader, child>> /\ stage[c] = "waiting"
        /\ \A d \in Calls \ {c} : job'[d] = job[d]
    BY <1>2 DEF Respond, JobOK, At, Busy, Placed, PlacedCall
  <2>2. CASE stage' = [stage EXCEPT ![c] = "settled"] /\ outbox' = outbox
    BY <2>1, <2>2 DEF Kept, InFlight, Busy, CallsOK
  <2>3. ASSUME NEW m \in Frames, m.of = c, outbox' = Append(outbox, m), stage' = stage
        PROVE  Kept'
    <3>1. /\ Len(outbox') = Len(outbox) + 1 /\ Len(outbox) \in Nat /\ outbox'[Len(outbox) + 1] = m
          /\ \A i \in 1..Len(outbox) : outbox'[i] = outbox[i]
      BY <2>3, AppendIs DEF ShellOK
    <3>2. \A d \in Calls, i \in 1..Len(outbox) :
            outbox[i].of = d => \E n \in 1..Len(outbox') : outbox'[n].of = d
      BY <3>1
    <3>3. \E n \in 1..Len(outbox') : outbox'[n].of = c
      BY <2>3, <3>1
    <3>4. outbox # <<>> => outbox' # <<>> /\ Head(outbox') = Head(outbox)
      BY <2>3, <3>1 DEF ShellOK
    <3> QED BY <2>1, <2>3, <3>2, <3>3, <3>4 DEF Kept, InFlight, Busy
  <2>4. (stage' = [stage EXCEPT ![c] = "settled"] /\ outbox' = outbox)
        \/ \E m \in Frames : m.of = c /\ outbox' = Append(outbox, m) /\ stage' = stage
    BY <1>2, RespondIs
  <2> QED BY <2>2, <2>3, <2>4
<1> QED BY <1>1, <1>2

LEMMA KeptStep == LossInv /\ [Next]_vars => LossInv'
<1> SUFFICES ASSUME LossInv, [Next]_vars PROVE LossInv'
  OBVIOUS
<1>1. PlacedInv'
  BY PlacedStep DEF LossInv
<1>2. CASE UNCHANGED vars
  BY <1>1, <1>2 DEF LossInv, vars, shell, Kept, InFlight, Busy
<1>3. CASE Next
  BY <1>1, <1>3, KeptPage, KeptShell, KeptHandler DEF Next, LossInv
<1> QED BY <1>2, <1>3

(* No frame is lost but with the side-car, or behind a body that is no     *)
(* JSON (try_take_message, run_stdio, do_POST).                            *)
THEOREM NothingLost == Spec => []HangsOnlyAfterLoss
<1>1. Init => LossInv
  BY TypeInit, PlacedInit, KeptInit DEF LossInv, PlacedInv
<1>2. LossInv => HangsOnlyAfterLoss
  BY TypeParts DEF LossInv, PlacedInv, Kept, InFlight, HangsOnlyAfterLoss, ShellOK
<1> QED BY <1>1, <1>2, KeptStep, PTL DEF Spec

-----------------------------------------------------------------------------
(* What the page shows.                                                    *)

LEMMA ShownInit == Init => BoxOrder /\ FrameOrder /\ ListOrder
BY DEF Init, BoxOrder, FrameOrder, OneBusy, InOrder, OutOrder, BusyBefore, BusyAfter, OutBeforeIn,
       ListOrder, Named, Rows, Busy, NoJob

(* Nothing of the box changes.                                             *)
LEMMA BoxSame ==
  ASSUME BoxOrder, UNCHANGED <<kind, text, typed, latest, due>>
  PROVE  BoxOrder'
BY DEF BoxOrder, Named

(* No frame moves, and no named call gets busy.                            *)
LEMMA FrameSame ==
  ASSUME TypeInv, FrameOrder, UNCHANGED <<inbox, outbox>>,
         \A c \in Calls : InFlight(c) => kind'[c] = kind[c] /\ text'[c] = text[c],
         \A c \in Calls : Busy(c)' /\ kind'[c] # "stream" => Busy(c)
  PROVE  FrameOrder'
<1>1. /\ \A c \in Calls : Busy(c) => kind'[c] = kind[c] /\ text'[c] = text[c]
      /\ \A i \in 1..Len(inbox) : kind'[inbox[i]] = kind[inbox[i]] /\ text'[inbox[i]] = text[inbox[i]]
      /\ \A i \in 1..Len(outbox) : kind'[outbox[i].of] = kind[outbox[i].of]
                                   /\ text'[outbox[i].of] = text[outbox[i].of]
  BY FramesAre DEF InFlight
<1>2. OneBusy'
  BY <1>1 DEF FrameOrder, OneBusy
<1>3. InOrder'
  BY <1>1 DEF FrameOrder, InOrder, Named
<1>4. OutOrder'
  BY <1>1 DEF FrameOrder, OutOrder, Named
<1>5. BusyBefore'
  BY <1>1 DEF FrameOrder, BusyBefore, Named
<1>6. BusyAfter'
  BY <1>1 DEF FrameOrder, BusyAfter, Named
<1>7. OutBeforeIn'
  BY <1>1 DEF FrameOrder, OutBeforeIn, Named
<1> QED BY <1>2, <1>3, <1>4, <1>5, <1>6, <1>7 DEF FrameOrder

(* No call is asked, gets its rows or sets out.                            *)
LEMMA ListSame ==
  ASSUME ListOrder, UNCHANGED <<kind, text>>, shown' = shown, typed' = typed,
         \A c \in Calls : /\ stage'[c] = "asked" => stage[c] = "asked"
                          /\ Rows(c)' => Rows(c)
                          /\ InFlight(c)' /\ Named(c) => InFlight(c)
  PROVE  ListOrder'
BY DEF ListOrder, Named

LEMMA ShownPage ==
  ASSUME ShownInv, Type \/ Clear \/ \E c \in Calls : Debounce(c) \/ Enter(c) \/ Stream(c)
  PROVE  BoxOrder' /\ (bridge' # "http" => FrameOrder' /\ ListOrder')
<1> USE TypeParts DEF ShownInv, PlacedInv
<1>0. /\ latest \in Nat /\ typed \in Nat /\ text \in [Calls -> 0..MaxTyped] /\ TextsTyped /\ bridge' = bridge
      /\ kind \in [Calls -> Kinds \cup {"none"}] /\ job \in [Calls -> Jobs]
      /\ stage \in [Calls -> {"new", "asked", "waiting", "settled"}]
  BY DEF PageOK, CallsOK, TextOK, JobOK, Type, Clear, Debounce, Enter, Stream, Ask
<1>1. CASE Type
  <2>1. BoxOrder'
    BY <1>0, <1>1 DEF Type, BoxOrder, Named
  <2>2. FrameOrder => FrameOrder'
    BY <1>1, FrameSame DEF Type, shell, Busy
  <2>3. ListOrder => ListOrder'
    BY <1>0, <1>1 DEF Type, shell, ListOrder, Named, Rows, InFlight, Busy, TextsTyped
  <2> QED BY <1>0, <2>1, <2>2, <2>3
<1>2. CASE Clear
  <2>1. BoxOrder'
    BY <1>0, <1>2 DEF Clear, BoxOrder, Named
  <2>2. FrameOrder => FrameOrder'
    BY <1>2, FrameSame DEF Clear, shell, Busy
  <2>3. ListOrder => ListOrder'
    BY <1>0, <1>2 DEF Clear, shell, ListOrder, BoxOrder, Named, Rows, InFlight, Busy
  <2> QED BY <1>0, <2>1, <2>2, <2>3
<1>3. ASSUME NEW c \in Calls, stage[c] = "new"
      PROVE  /\ ~InFlight(c) /\ ~Busy(c) /\ ~Rows(c) /\ ~Named(c)
  BY <1>3 DEF Placed, PlacedCall, PlacedIn, PlacedOut, InFlight, Busy, Rows, Named
<1>4. ASSUME NEW c \in Calls, stage[c] = "new", NEW k \in Kinds, kind' = [kind EXCEPT ![c] = k],
             \A d \in Calls \ {c} : stage'[d] = stage[d] /\ job'[d] = job[d] /\ text'[d] = text[d],
             UNCHANGED <<answer, inbox, outbox>>,
             bridge # "http" => k = "stream" \/ job'[c] = job[c], stage'[c] # "settled"
      PROVE  /\ bridge # "http" => FrameOrder'
             /\ \A d \in Calls \ {c} : Named(d)' = Named(d) /\ Rows(d)' = Rows(d) /\ InFlight(d)' = InFlight(d)
             /\ ~Rows(c)'
             /\ bridge # "http" /\ Named(c)' => ~InFlight(c)'
  <2>1. bridge # "http" => FrameOrder'
    BY <1>0, <1>3, <1>4, FrameSame DEF Busy
  <2>2. \A d \in Calls \ {c} : Named(d)' = Named(d) /\ Rows(d)' = Rows(d) /\ InFlight(d)' = InFlight(d)
    BY <1>0, <1>4 DEF Named, Rows, InFlight, Busy
  <2>3. bridge # "http" /\ Named(c)' => ~InFlight(c)'
    BY <1>0, <1>3, <1>4 DEF Named, InFlight, Busy
  <2> QED BY <1>4, <2>1, <2>2, <2>3 DEF Rows
<1>5. ASSUME NEW c \in Calls, Debounce(c)
      PROVE  BoxOrder' /\ (bridge # "http" => FrameOrder' /\ ListOrder')
  <2>1. /\ stage[c] = "new" /\ kind' = [kind EXCEPT ![c] = "name"] /\ text' = [text EXCEPT ![c] = typed]
        /\ UNCHANGED <<answer, inbox, outbox, typed, latest, shown>> /\ due /\ ~due'
        /\ \A d \in Calls : stage[d] # "asked"
        /\ bridge # "http" => job' = job /\ stage' = [stage EXCEPT ![c] = "asked"]
        /\ \A d \in Calls \ {c} : stage'[d] = stage[d] /\ job'[d] = job[d] /\ text'[d] = text[d]
        /\ stage'[c] # "settled"
    BY <1>0, <1>5 DEF Debounce, Ask
  <2>2. typed = latest /\ latest > 0 /\ ~Named(c) /\ \A d \in Calls : Named(d) => text[d] < latest
    BY <1>3, <2>1 DEF BoxOrder
  <2>3. kind'[c] = "name" /\ text'[c] = latest /\ \A d \in Calls \ {c} : kind'[d] = kind[d]
    BY <1>0, <2>1, <2>2
  <2>4. BoxOrder'
    BY <1>0, <2>1, <2>2, <2>3 DEF BoxOrder, Named
  <2>5. /\ bridge # "http" => FrameOrder'
        /\ \A d \in Calls \ {c} : Named(d)' = Named(d) /\ Rows(d)' = Rows(d) /\ InFlight(d)' = InFlight(d)
        /\ ~Rows(c)'
        /\ bridge # "http" /\ Named(c)' => ~InFlight(c)'
    BY <1>4, <2>1 DEF Kinds
  <2>6. ASSUME bridge # "http", ListOrder PROVE ListOrder'
    <3>1. \A d \in Calls : stage'[d] = "asked" => d = c
      BY <1>0, <2>1, <2>6
    <3> QED BY <1>0, <2>1, <2>2, <2>3, <2>5, <2>6, <3>1 DEF ListOrder, Named
  <2> QED BY <2>4, <2>5, <2>6
<1>6. ASSUME NEW c \in Calls, Enter(c) \/ Stream(c)
      PROVE  BoxOrder' /\ (bridge # "http" => FrameOrder' /\ ListOrder')
  <2>1. /\ stage[c] = "new" /\ UNCHANGED <<answer, inbox, outbox, typed, latest, shown, due>>
        /\ \A d \in Calls \ {c} : stage'[d] = stage[d] /\ job'[d] = job[d] /\ text'[d] = text[d]
        /\ stage'[c] # "settled"
    BY <1>0, <1>6 DEF Enter, Stream, Ask, shell, page
  <2>2. PICK k \in Kinds \ {"name"} :
          kind' = [kind EXCEPT ![c] = k] /\ (bridge # "http" => k = "stream" \/ job'[c] = job[c])
    BY <1>6 DEF Enter, Stream, Ask, Kinds
  <2>3. ~Named(c) /\ kind'[c] = k /\ \A d \in Calls \ {c} : kind'[d] = kind[d]
    BY <1>0, <1>3, <2>1, <2>2
  <2>4. BoxOrder'
    BY <1>0, <2>1, <2>2, <2>3 DEF BoxOrder, Named
  <2>5. /\ bridge # "http" => FrameOrder'
        /\ \A d \in Calls \ {c} : Named(d)' = Named(d) /\ Rows(d)' = Rows(d) /\ InFlight(d)' = InFlight(d)
    BY <1>4, <2>1, <2>2
  <2>6. ASSUME ListOrder PROVE ListOrder'
    BY <1>0, <2>1, <2>2, <2>3, <2>5, <2>6 DEF ListOrder, Named
  <2> QED BY <2>4, <2>5, <2>6
<1> QED BY <1>0, <1>1, <1>2, <1>5, <1>6

LEMMA ShownDeliver ==
  ASSUME ShownInv, Deliver
  PROVE  BoxOrder' /\ (bridge' # "http" => FrameOrder' /\ ListOrder')
<1> USE TypeParts DEF ShownInv, PlacedInv
<1> DEFINE m == Head(outbox)
           c == m.of
<1>0. /\ outbox \in Seq(Frames) /\ outbox # <<>>
      /\ UNCHANGED <<bridge, kind, text, job, up, inbox, typed, latest, due>>
  BY DEF Deliver, ShellOK, Told, page
<1>1. /\ m \in Frames /\ m = outbox[1] /\ Len(outbox) >= 1 /\ Len(outbox) \in Nat /\ c \in Calls
  <2>1. m \in Frames /\ m = outbox[1] /\ Len(outbox) >= 1 /\ Len(outbox) \in Nat
    BY <1>0, TailIs
  <2> QED BY <2>1 DEF Frames
<1>2. BoxOrder'
  BY <1>0, BoxSame
<1>3. CASE m.nan
  <2>1. UNCHANGED <<stage, answer, page, outbox>>
    BY <1>3 DEF Deliver
  <2>2. FrameOrder => FrameOrder'
    BY <1>0, <2>1, FrameSame DEF Busy
  <2>3. ListOrder => ListOrder'
    BY <1>0, <2>1, ListSame DEF page, Rows, InFlight, Busy
  <2> QED BY <1>0, <1>2, <2>2, <2>3
<1>4. CASE ~m.nan
  <2> SUFFICES ASSUME bridge # "http", FrameOrder, ListOrder PROVE FrameOrder' /\ ListOrder'
    BY <1>0, <1>2
  <2>1. /\ stage' = [stage EXCEPT ![c] = "settled"] /\ outbox' = Tail(outbox)
        /\ answer' = [answer EXCEPT ![c] = [of |-> c, is |-> m.is]]
        /\ shown' = IF kind[c] = "name" /\ m.is = "result" THEN text[c] ELSE shown
    BY <1>4 DEF Deliver, Told
  <2>2. /\ Len(outbox') = Len(outbox) - 1
        /\ \A i \in 1..Len(outbox') : outbox'[i] = outbox[i + 1] /\ i + 1 \in 1..Len(outbox)
    BY <1>0, <2>1, TailIs
  <2>3. stage[c] = "waiting" /\ job[c].at = "done"
    BY <1>1 DEF Placed, PlacedOut
  <2>4. /\ stage'[c] = "settled" /\ answer'[c].is = m.is
        /\ \A d \in Calls \ {c} : stage'[d] = stage[d] /\ answer'[d] = answer[d]
    BY <1>1, <2>1 DEF CallsOK
  <2>5. OneBusy' /\ InOrder' /\ BusyBefore'
    BY <1>0 DEF FrameOrder, OneBusy, InOrder, BusyBefore, Busy, Named
  <2>6. OutOrder' /\ BusyAfter' /\ OutBeforeIn'
    <3>1. OutOrder'
      <4>1. UNCHANGED <<kind, text>>
        BY <1>0
      <4>2. SUFFICES ASSUME NEW i \in 1..Len(outbox'), NEW j \in 1..Len(outbox'), i < j,
                            Named(outbox'[i].of), Named(outbox'[j].of)
                     PROVE  text[outbox'[i].of] < text[outbox'[j].of]
        BY <4>1 DEF OutOrder, Named
      <4>3. i + 1 \in 1..Len(outbox) /\ j + 1 \in 1..Len(outbox) /\ i + 1 < j + 1
        BY <1>1, <2>2, <4>2
      <4> QED BY <2>2, <4>2, <4>3 DEF FrameOrder, OutOrder
    <3>2. BusyAfter'
      BY <1>0, <1>1, <2>2 DEF FrameOrder, BusyAfter, Busy, Named
    <3>3. OutBeforeIn'
      BY <1>0, <1>1, <2>2 DEF FrameOrder, OutBeforeIn, Named
    <3> QED BY <3>1, <3>2, <3>3
  <2>7. \A d \in Calls : InFlight(d)' => InFlight(d) /\ d # c
    <3>1. ~Busy(c) /\ \A i \in 1..Len(inbox) : inbox[i] # c
      BY <2>3 DEF Busy, Placed, PlacedIn
    <3>2. \A i \in 1..Len(outbox') : outbox'[i].of # c
      BY <1>1, <2>2 DEF Placed, PlacedOut
    <3> QED BY <1>0, <2>2, <3>1, <3>2 DEF InFlight, Busy
  <2>8. \A d \in Calls : InFlight(d)' /\ Named(c) /\ Named(d) => text[c] < text[d]
    <3>1. \A i \in 2..Len(outbox) : Named(c) /\ Named(outbox[i].of) => text[c] < text[outbox[i].of]
      BY <1>1 DEF FrameOrder, OutOrder
    <3>2. \A i \in 1..Len(inbox) : Named(c) /\ Named(inbox[i]) => text[c] < text[inbox[i]]
      BY <1>1 DEF FrameOrder, OutBeforeIn
    <3>3. \A d \in Calls : Busy(d) /\ Named(c) /\ Named(d) => text[c] < text[d]
      BY <1>1 DEF FrameOrder, BusyAfter
    <3>4. \A i \in 1..Len(outbox') : i + 1 \in 2..Len(outbox) /\ outbox'[i] = outbox[i + 1]
      BY <1>1, <2>2
    <3> QED BY SMTT(30), <1>0, <3>1, <3>2, <3>3, <3>4 DEF InFlight, Busy
  <2>9. \A d, e \in Calls : stage'[d] = "asked" /\ Named(d) /\ Named(e) /\ d # e => text[e] < text[d]
    BY <2>4 DEF ListOrder
  <2>10. \A d, e \in Calls : Rows(d)' /\ InFlight(e)' /\ Named(d) /\ Named(e) => text[d] < text[e]
    BY <2>4, <2>7, <2>8 DEF ListOrder, Rows
  <2>11. \A d \in Calls : Named(d) /\ Rows(d)' /\ text[d] = typed => shown' = typed
    <3>1. CASE Named(c) /\ m.is = "result"
      <4>1. shown' = text[c]
        BY <2>1, <3>1 DEF Named
      <4>2. InFlight(c)
        BY <1>1 DEF InFlight
      <4>3. \A d \in Calls : Named(d) /\ Rows(d) => text[d] < text[c]
        BY <1>1, <3>1, <4>2 DEF ListOrder
      <4>4. /\ typed \in {0, latest} /\ latest \in Nat /\ text[c] \in 1..latest
            /\ \A d \in Calls : Named(d) => text[d] \in 1..latest
        BY <1>1, <3>1 DEF BoxOrder, PageOK
      <4>5. \A d \in Calls \ {c} : Named(d) /\ Rows(d)' => text[d] < text[c]
        BY <2>4, <4>3 DEF Rows
      <4> QED BY <1>1, <4>1, <4>4, <4>5
    <3>2. CASE ~(Named(c) /\ m.is = "result")
      <4>1. shown' = shown
        BY <2>1, <3>2 DEF Named
      <4>2. \A d \in Calls : Named(d) /\ Rows(d)' => Rows(d)
        BY <2>4, <3>2 DEF Rows
      <4> QED BY <4>1, <4>2 DEF ListOrder
    <3> QED BY <3>1, <3>2
  <2>12. ListOrder'
    BY <1>0, <2>9, <2>10, <2>11 DEF ListOrder, Named
  <2> QED BY <2>5, <2>6, <2>12 DEF FrameOrder
<1> QED BY <1>3, <1>4

LEMMA ShownShell ==
  ASSUME ShownInv, Die \/ Terminated \/ Serve \/ \E c \in Calls : Send(c)
  PROVE  BoxOrder' /\ (bridge' # "http" => FrameOrder' /\ ListOrder')
<1> USE TypeParts DEF ShownInv, PlacedInv
<1>0. UNCHANGED <<bridge, kind, text, typed, latest, due>> /\ job \in [Calls -> Jobs]
  BY DEF Die, Terminated, Serve, Send, Told, page, JobOK
<1>1. BoxOrder'
  BY <1>0, BoxSame
<1> SUFFICES ASSUME bridge # "http", FrameOrder, ListOrder PROVE FrameOrder' /\ ListOrder'
  BY <1>0, <1>1
<1>2. CASE Die
  <2>1. UNCHANGED <<stage, answer, outbox, shown>> /\ inbox' = <<>>
    BY <1>2 DEF Die, page
  <2>2. \A c \in Calls : Busy(c)' => Busy(c)
    BY <1>2 DEF Die, Busy, NoJob
  <2>3. FrameOrder'
    BY <1>0, <2>1, <2>2 DEF FrameOrder, OneBusy, InOrder, OutOrder, BusyBefore, BusyAfter, OutBeforeIn,
                            Named
  <2>4. ListOrder'
    BY <1>0, <2>1, <2>2, ListSame DEF Rows, InFlight
  <2> QED BY <2>3, <2>4
<1>3. CASE Terminated
  <2>1. UNCHANGED <<stage, answer, job, inbox, outbox, shown>>
    BY <1>3 DEF Terminated, page
  <2>2. FrameOrder'
    BY <1>0, <2>1, FrameSame DEF Busy
  <2>3. ListOrder'
    BY <1>0, <2>1, ListSame DEF Rows, InFlight, Busy
  <2> QED BY <2>2, <2>3
<1>4. CASE Serve
  <2>0. PICK h : h = Head(inbox)
    OBVIOUS
  <2>1. /\ inbox \in Seq(Calls) /\ inbox # <<>>
        /\ job' = [job EXCEPT ![h].at = "begin"] /\ inbox' = Tail(inbox)
        /\ UNCHANGED <<stage, answer, outbox, shown>>
    BY <1>4, <2>0 DEF Serve, ShellOK, page
  <2>2. /\ h = inbox[1] /\ Len(inbox) >= 1 /\ h \in Calls /\ Len(inbox) \in Nat
        /\ Len(inbox') = Len(inbox) - 1
        /\ \A i \in 1..Len(inbox') : inbox'[i] = inbox[i + 1] /\ i + 1 \in 2..Len(inbox)
    BY <2>0, <2>1, TailIs
  <2>3. Busy(h)' /\ \A c \in Calls \ {h} : Busy(c)' = Busy(c)
    <3>1. job'[h].at = "begin" /\ \A c \in Calls \ {h} : job'[c] = job[c]
      BY <1>0, <2>1, <2>2 DEF Jobs
    <3>2. Busy(h)'
      BY <3>1 DEF Busy
    <3>3. \A c \in Calls \ {h} : Busy(c)' = Busy(c)
      BY <3>1 DEF Busy
    <3> QED BY <3>2, <3>3
  <2>4. \A c \in Calls : Busy(c) => kind[c] = "stream"
    BY <1>4 DEF Serve
  <2>5. OneBusy'
    BY <1>0, <2>3, <2>4 DEF OneBusy
  <2>6. InOrder' /\ OutOrder' /\ OutBeforeIn'
    <3>1. InOrder'
      <4>1. \A i, j \in 2..Len(inbox) :
              i < j /\ Named(inbox[i]) /\ Named(inbox[j]) => text[inbox[i]] < text[inbox[j]]
        BY <2>2 DEF FrameOrder, InOrder
      <4>2. \A i, j \in 1..Len(inbox') : i < j => i + 1 < j + 1
        BY <2>2
      <4> QED BY <1>0, <2>2, <4>1, <4>2 DEF InOrder, Named
    <3>2. OutOrder'
      BY <1>0, <2>1 DEF FrameOrder, OutOrder, Named
    <3>3. OutBeforeIn'
      <4>1. \A i \in 2..Len(inbox), j \in 1..Len(outbox) :
              Named(inbox[i]) /\ Named(outbox[j].of) => text[outbox[j].of] < text[inbox[i]]
        BY <2>2 DEF FrameOrder, OutBeforeIn
      <4> QED BY <1>0, <2>1, <2>2, <4>1 DEF OutBeforeIn, Named
    <3> QED BY <3>1, <3>2, <3>3
  <2>7. BusyBefore'
    <3>1. \A i \in 2..Len(inbox) : Named(h) /\ Named(inbox[i]) => text[h] < text[inbox[i]]
      BY <2>2 DEF FrameOrder, InOrder
    <3>2. \A c \in Calls : Busy(c)' /\ Named(c) => c = h
      BY <2>3, <2>4 DEF Named
    <3> QED BY <1>0, <2>2, <3>1, <3>2 DEF BusyBefore, Named
  <2>8. BusyAfter'
    BY SMTT(30), <1>0, <2>1, <2>2, <2>3, <2>4 DEF FrameOrder, OutBeforeIn, BusyAfter, Named
  <2>9. \A c \in Calls : InFlight(c)' => InFlight(c)
    BY <2>1, <2>2, <2>3 DEF InFlight
  <2>10. ListOrder'
    BY <1>0, <2>1, <2>9, ListSame DEF Rows
  <2> QED BY <2>5, <2>6, <2>7, <2>8, <2>10 DEF FrameOrder
<1>5. ASSUME NEW c \in Calls, Send(c) PROVE FrameOrder' /\ ListOrder'
  <2>1. /\ stage[c] = "asked" /\ UNCHANGED <<job, outbox>>
        /\ stage' = [stage EXCEPT ![c] = IF child = "up" THEN "waiting" ELSE "settled"]
        /\ inbox' = IF child = "up" THEN Append(inbox, c) ELSE inbox
        /\ child = "up" => UNCHANGED <<answer, shown>>
        /\ child # "up" => Told(c, [of |-> c, is |-> "shell"])
    BY <1>5 DEF Send, Told, page
  <2>2. /\ stage'[c] \notin {"asked"} /\ (child = "up" => stage'[c] # "settled")
        /\ \A d \in Calls \ {c} : stage'[d] = stage[d]
    BY <2>1 DEF CallsOK
  <2>3. \A d \in Calls : Rows(d)' => Rows(d)
    <3>1. CASE child = "up"
      BY <2>1, <2>2, <3>1 DEF Rows
    <3>2. CASE child # "up"
      <4>1. answer' = [answer EXCEPT ![c] = [of |-> c, is |-> "shell"]]
        BY <2>1, <3>2 DEF Told
      <4> QED BY <2>2, <4>1 DEF Rows, CallsOK
    <3> QED BY <3>1, <3>2
  <2>4. shown' = shown
    BY <2>1 DEF Told
  <2>5. Busy(c) = FALSE /\ \A d \in Calls : Busy(d)' = Busy(d)
    BY <2>1 DEF Busy, Placed, PlacedCall
  <2>6. CASE child = "up"
    <3>1. /\ Len(inbox') = Len(inbox) + 1 /\ Len(inbox) \in Nat /\ inbox'[Len(inbox) + 1] = c
          /\ \A i \in 1..Len(inbox) : inbox'[i] = inbox[i] /\ inbox[i] \in Calls /\ inbox[i] # c
      BY <2>1, <2>6, AppendIs DEF ShellOK, Placed, PlacedIn
    <3>2. \A d \in Calls \ {c} : Named(c) /\ Named(d) => text[d] < text[c]
      BY <2>1 DEF ListOrder
    <3>3. OneBusy' /\ OutOrder' /\ BusyAfter'
      BY <1>0, <2>1, <2>5 DEF FrameOrder, OneBusy, OutOrder, BusyAfter, Named
    <3>4. InOrder'
      BY <1>0, <3>1, <3>2 DEF FrameOrder, InOrder, Named
    <3>5. BusyBefore'
      BY <1>0, <2>5, <3>1, <3>2 DEF FrameOrder, BusyBefore, Named
    <3>6. OutBeforeIn'
      <4>1. \A j \in 1..Len(outbox) : outbox[j].of \in Calls \ {c}
        BY <2>1, FramesAre DEF Placed, PlacedOut
      <4>2. ASSUME NEW i \in 1..Len(inbox'), NEW j \in 1..Len(outbox),
                   Named(inbox'[i]), Named(outbox[j].of)
            PROVE  text[outbox[j].of] < text[inbox'[i]]
        <5>1. CASE i = Len(inbox) + 1
          BY <3>1, <3>2, <4>1, <4>2, <5>1
        <5>2. CASE i # Len(inbox) + 1
          <6>1. i \in 1..Len(inbox) /\ inbox'[i] = inbox[i]
            BY <3>1, <5>2
          <6> QED BY <4>2, <6>1 DEF FrameOrder, OutBeforeIn
        <5> QED BY <5>1, <5>2
      <4> QED BY <1>0, <2>1, <4>2 DEF OutBeforeIn, Named
    <3>7. \A d \in Calls \ {c} : InFlight(d)' => InFlight(d)
      BY <2>1, <2>5, <3>1 DEF InFlight
    <3>8. \A d, e \in Calls : stage'[d] = "asked" /\ Named(d) /\ Named(e) /\ d # e => text[e] < text[d]
      BY <2>2 DEF ListOrder
    <3>9. \A d, e \in Calls : Rows(d)' /\ InFlight(e)' /\ Named(d) /\ Named(e) => text[d] < text[e]
      BY <2>1, <2>3, <3>2, <3>7 DEF ListOrder, Rows
    <3>10. ListOrder'
      BY <1>0, <2>3, <2>4, <3>8, <3>9 DEF ListOrder, Named
    <3> QED BY <3>3, <3>4, <3>5, <3>6, <3>10 DEF FrameOrder
  <2>7. CASE child # "up"
    <3>1. FrameOrder'
      BY <1>0, <2>1, <2>5, <2>7, FrameSame
    <3>2. ListOrder'
      BY <1>0, <2>1, <2>2, <2>3, <2>4, <2>5, <2>7, ListSame DEF InFlight
    <3> QED BY <3>1, <3>2
  <2> QED BY <2>6, <2>7
<1> QED BY <1>2, <1>3, <1>4, <1>5

LEMMA ShownHandler ==
  ASSUME ShownInv, NEW c \in Calls, Handle(c)
  PROVE  BoxOrder' /\ (bridge' # "http" => FrameOrder' /\ ListOrder')
<1> USE TypeParts DEF ShownInv, PlacedInv
<1>1. CASE ~Respond(c)
  <2>1. PICK k \in Jobs : Go(c, k) /\ k.at \notin {"idle", "done"}
    BY <1>1, HandlerMoves
  <2>2. /\ job'[c] = k /\ \A d \in Calls \ {c} : job'[d] = job[d]
        /\ UNCHANGED <<bridge, kind, text, stage, answer, inbox, outbox, typed, latest, due, shown>>
    BY <2>1 DEF Go, shell, page, JobOK
  <2>3. \A d \in Calls : Busy(d)' = Busy(d)
    BY <1>1, <2>1, <2>2, HandlerMoves DEF Busy
  <2>4. FrameOrder => FrameOrder'
    BY <2>2, <2>3, FrameSame
  <2>5. ListOrder => ListOrder'
    BY <2>2, <2>3, ListSame DEF Rows, InFlight
  <2> QED BY <2>2, <2>4, <2>5, BoxSame
<1>2. CASE Respond(c)
  <2>0. UNCHANGED <<bridge, kind, text, typed, latest, due, inbox>>
    BY <1>2 DEF Respond, Told, page
  <2>1. BoxOrder'
    BY <2>0, BoxSame
  <2> SUFFICES ASSUME bridge # "http", FrameOrder, ListOrder PROVE FrameOrder' /\ ListOrder'
    BY <2>0, <2>1
  <2>2. /\ Busy(c) /\ stage[c] = "waiting" /\ ~Busy(c)'
        /\ \A d \in Calls \ {c} : Busy(d)' = Busy(d)
    <3>1. job'[c].at = "done" /\ \A d \in Calls \ {c} : job'[d] = job[d]
      BY <1>2 DEF Respond, JobOK, NoJob
    <3>2. Busy(c) /\ stage[c] = "waiting"
      BY <1>2 DEF Respond, At, Busy, Placed, PlacedCall
    <3>3. ~Busy(c)'
      BY <3>1 DEF Busy
    <3>4. \A d \in Calls \ {c} : Busy(d)' = Busy(d)
      BY <3>1 DEF Busy
    <3> QED BY <3>2, <3>3, <3>4
  <2>3. CASE kind[c] = "stream"
    <3>1. Told(c, [of |-> c, is |-> "result"]) /\ UNCHANGED outbox
      BY <1>2, <2>3 DEF Respond
    <3>2. FrameOrder'
      BY <2>0, <2>2, <3>1, FrameSame
    <3>3. /\ shown' = shown /\ stage'[c] = "settled"
          /\ \A d \in Calls \ {c} : stage'[d] = stage[d] /\ answer'[d] = answer[d]
      BY <2>3, <3>1 DEF Told, CallsOK
    <3>4. \A d \in Calls : InFlight(d)' => InFlight(d)
      BY <2>0, <2>2, <3>1 DEF InFlight
    <3>5. ~Named(c)
      BY <2>3 DEF Named
    <3>6. ListOrder'
      BY <2>0, <3>3, <3>4, <3>5 DEF ListOrder, Named, Rows
    <3> QED BY <3>2, <3>6
  <2>4. CASE kind[c] # "stream"
    <3> DEFINE o == IF job[c].err = "none" THEN "result" ELSE Coded(job[c].err)
               n == [of |-> c, is |-> o, nan |-> job[c].nan /\ o = "result"]
    <3>1. outbox' = Append(outbox, n) /\ UNCHANGED <<stage, answer, shown>>
      BY <1>2, <2>4 DEF Respond, page
    <3>2. PICK m \in Frames : m.of = c /\ outbox' = Append(outbox, m)
      <4>1. stage'[c] # "settled"
        BY <2>2, <3>1
      <4> QED BY <1>2, <4>1, RespondIs DEF CallsOK
    <3> HIDE DEF n, o
    <3>3. /\ Len(outbox') = Len(outbox) + 1 /\ Len(outbox) \in Nat /\ outbox'[Len(outbox) + 1] = m
          /\ \A i \in 1..Len(outbox) : outbox'[i] = outbox[i] /\ outbox[i] \in Frames
      BY <3>2, AppendIs DEF ShellOK
    <3>4. OneBusy' /\ InOrder' /\ BusyBefore'
      BY <2>0, <2>2 DEF FrameOrder, OneBusy, InOrder, BusyBefore, Named
    <3>5. \A i \in 1..Len(outbox) : Named(c) /\ Named(outbox[i].of) => text[outbox[i].of] < text[c]
      BY <2>2 DEF FrameOrder, BusyAfter
    <3>6. OutOrder'
      BY <2>0, <3>2, <3>3, <3>5 DEF FrameOrder, OutOrder, Named
    <3>7. BusyAfter'
      <4>1. \A d \in Calls : Busy(d)' => d # c /\ Busy(d) /\ ~Named(d)
        BY <2>2, <2>4 DEF FrameOrder, OneBusy, Named
      <4> QED BY <2>0, <4>1 DEF BusyAfter, Named
    <3>8. OutBeforeIn'
      <4>1. \A i \in 1..Len(inbox) : Named(c) /\ Named(inbox[i]) => text[c] < text[inbox[i]]
        BY <2>2 DEF FrameOrder, BusyBefore
      <4> QED BY <2>0, <3>2, <3>3, <4>1 DEF FrameOrder, OutBeforeIn, Named
    <3>9. \A d \in Calls : InFlight(d)' => InFlight(d)
      BY <2>0, <2>2, <3>2, <3>3 DEF InFlight
    <3>10. ListOrder'
      BY <2>0, <3>1, <3>9, ListSame DEF Rows
    <3> QED BY <3>4, <3>6, <3>7, <3>8, <3>10 DEF FrameOrder
  <2> QED BY <2>3, <2>4
<1> QED BY <1>1, <1>2

LEMMA ShownStep == ShownInv /\ [Next]_vars => ShownInv'
<1> SUFFICES ASSUME ShownInv, [Next]_vars PROVE ShownInv'
  OBVIOUS
<1>1. PlacedInv'
  BY PlacedStep DEF ShownInv
<1>2. CASE UNCHANGED vars
  <2>1. UNCHANGED <<bridge, kind, text, stage, answer, job, inbox, outbox, typed, latest, due, shown>>
    BY <1>2 DEF vars, shell, page
  <2>2. BoxOrder' /\ (FrameOrder => FrameOrder') /\ (ListOrder => ListOrder')
    BY <2>1, BoxSame, FrameSame, ListSame DEF ShownInv, PlacedInv, Busy, Rows, InFlight
  <2> QED BY <1>1, <2>1, <2>2 DEF ShownInv
<1>3. CASE Next
  BY <1>1, <1>3, ShownPage, ShownDeliver, ShownShell, ShownHandler DEF Next, ShownInv
<1> QED BY <1>2, <1>3

(* One handler at a time and frames in order are enough for a page that    *)
(* compares no texts (run_stdio, dispatch_message).                        *)
THEOREM LatestShown == Spec => []ShownIsLatest
<1>1. Init => ShownInv
  BY TypeInit, PlacedInit, ShownInit DEF ShownInv, PlacedInv
<1>2. ShownInv => ShownIsLatest
  <2> SUFFICES ASSUME ShownInv, bridge # "http", typed # 0, ~due,
                      \A c \in Calls : kind[c] = "name" => stage[c] = "settled" /\ answer[c].is = "result"
               PROVE  shown = typed
    BY DEF ShownIsLatest
  <2>1. PICK c \in Calls : Named(c) /\ text[c] = typed
    BY DEF ShownInv, BoxOrder
  <2> QED BY <2>1 DEF ShownInv, ListOrder, Rows, Named
<1> QED BY <1>1, <1>2, ShownStep, PTL DEF Spec
=============================================================================
