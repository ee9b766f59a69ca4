----------------------------- MODULE AtomicFile -----------------------------
(***************************************************************************)
(* What a caller of WriteConfig relies on: the configuration on disk       *)
(* changes only from one complete content to another, at one instant, and  *)
(* the result tells whether it did.  A crash ends every call.              *)
(***************************************************************************)
CONSTANTS Caller, Content, NoContent

VARIABLES
  file,  \* the content on disk, NoContent before the first save
  call   \* every caller's save: the phase and the content

vars == <<file, call>>

Idle == [phase |-> "idle", content |-> NoContent]

Init == file \in Content \cup {NoContent} /\ call = [t \in Caller |-> Idle]

Begin(t, c) ==
  /\ call[t] = Idle
  /\ call' = [call EXCEPT ![t] = [phase |-> "writing", content |-> c]]
  /\ UNCHANGED file

Ends(t, phase) ==
  /\ call[t].phase = "writing"
  /\ call' = [call EXCEPT ![t].phase = phase]

Commit(t) == Ends(t, "saved") /\ file' = call[t].content

Fail(t) == Ends(t, "failed") /\ UNCHANGED file

Return(t) ==
  /\ call[t].phase \in {"saved", "failed"}
  /\ call' = [call EXCEPT ![t] = Idle]
  /\ UNCHANGED file

Crash == call' = [t \in Caller |-> Idle] /\ UNCHANGED file

Next ==
  \/ \E t \in Caller :
       \/ \E c \in Content : Begin(t, c)
       \/ Commit(t) \/ Fail(t) \/ Return(t)
  \/ Crash

Spec == Init /\ [][Next]_vars
=============================================================================
