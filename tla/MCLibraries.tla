----------------------------- MODULE MCLibraries -----------------------------
(***************************************************************************)
(* Instances of the two libraries whose threads wait for each other:       *)
(* RuntimeState and CommandQueue.  They share no state, so a behaviour     *)
(* uses one of them and leaves the other in its initial state.             *)
(* One subsystem and two states of health stand for the four of each,      *)
(* which no operation tells apart.  Two callers and two owners are enough  *)
(* for a wake-up to reach the wrong thread, and for two copies of a        *)
(* command.                                                                *)
(***************************************************************************)
EXTENDS RuntimeState, CommandQueue

VARIABLE library  \* the one in use

allVars == <<vars, queueVars, library>>

LibrariesInit == Init /\ QueueInit /\ library \in {"RuntimeState", "CommandQueue"}

OfRuntime(A) == library = "RuntimeState" /\ A /\ UNCHANGED <<queueVars, library>>
OfQueue(A) == library = "CommandQueue" /\ A /\ UNCHANGED <<vars, library>>

LibrariesNext == OfRuntime(Next) \/ OfQueue(QueueNext)

(* The fairness of each library, for the behaviours that use it.  (That of *)
(* the queue alone would ask its owners to wait for commands, which they   *)
(* do not do while the other library is in use.)                           *)
LibrariesFairness ==
  /\ \A w \in Waiter :
       /\ WF_allVars(OfRuntime(Woken(w)))
       /\ WF_allVars(OfRuntime(SleepEnds(w))) /\ WF_allVars(OfRuntime(TimedOut(w)))
  /\ \A c \in Caller :
       WF_allVars(OfQueue(NotifyOwner(c))) /\ WF_allVars(OfQueue(CallerWoken(c)))
  /\ \A o \in Owner :
       /\ WF_allVars(OfQueue(WaitPop(o)))
       /\ WF_allVars(OfQueue(Fulfil(o))) /\ WF_allVars(OfQueue(NotifyCallers(o)))
  /\ WF_allVars(OfQueue(NotifyShutdown))

LibrariesSpec == LibrariesInit /\ [][LibrariesNext]_allVars /\ LibrariesFairness
=============================================================================
