-------------------------- MODULE OperationService --------------------------
(***************************************************************************)
(* What RunDashOp promises to an HTTP worker, without its threads, queue   *)
(* and events: an operation is performed at most once, an answer tells how *)
(* it was performed, and only a caller that gave up does not know.         *)
(***************************************************************************)
CONSTANTS
  Op        \* operations

VARIABLES
  outcome,  \* how the operation was performed, if it was
  answer    \* what its caller was told

vars == <<outcome, answer>>

Init ==
  /\ outcome = [o \in Op |-> "none"]
  /\ answer = [o \in Op |-> "none"]

Call(o) ==
  /\ answer[o] = "none" /\ outcome[o] = "none"
  /\ outcome' = [outcome EXCEPT ![o] = "pending"]
  /\ answer' = [answer EXCEPT ![o] = "open"]

(* The operation never reaches the main thread. *)
Refuse(o) ==
  /\ answer[o] = "open" /\ outcome[o] = "pending"
  /\ outcome' = [outcome EXCEPT ![o] = "refused"]
  /\ answer' = [answer EXCEPT ![o] = "error"]

Perform(o) ==
  /\ outcome[o] = "pending"
  /\ \E r \in {"done", "failed"} : outcome' = [outcome EXCEPT ![o] = r]
  /\ UNCHANGED answer

Answer(o) ==
  /\ answer[o] = "open"
  /\ \/ outcome[o] = "done" /\ answer' = [answer EXCEPT ![o] = "ok"]
     \/ outcome[o] = "failed" /\ answer' = [answer EXCEPT ![o] = "error"]
  /\ UNCHANGED outcome

GiveUp(o) ==
  /\ answer[o] = "open"
  /\ answer' = [answer EXCEPT ![o] = "timeout"]
  /\ UNCHANGED outcome

Next == \E o \in Op : Call(o) \/ Refuse(o) \/ Perform(o) \/ Answer(o) \/ GiveUp(o)

Spec == Init /\ [][Next]_vars
==============================================================================
