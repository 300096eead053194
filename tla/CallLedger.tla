----------------------------- MODULE CallLedger -----------------------------
(***************************************************************************)
(* What the user interface may rely on when it calls the back end: a call  *)
(* waits until it is settled, it is settled at most once, and it gets the  *)
(* outcome of its own request, never that of another.                      *)
(***************************************************************************)
CONSTANTS
  Calls,         \* calls the interface can make
  Outcomes       \* what a call can end with

VARIABLE status  \* of every call: new, waiting, or whose outcome it was settled with

New == [of |-> "nobody", is |-> "new"]
Waiting == [of |-> "nobody", is |-> "waiting"]
Settled(c, o) == [of |-> c, is |-> o]

Init == status = [c \in Calls |-> New]

Issue(c) ==
  /\ status[c] = New
  /\ status' = [status EXCEPT ![c] = Waiting]

Settle(c) ==
  /\ status[c] = Waiting
  /\ status'[c] \in {Settled(c, o) : o \in Outcomes}
  /\ status' = [status EXCEPT ![c] = status'[c]]

Next == \E c \in Calls : Issue(c) \/ Settle(c)

Spec == Init /\ [][Next]_status
=============================================================================
