---------------------------- MODULE MCProcesses ----------------------------
(***************************************************************************)
(* Instances of the two libraries about processes: Supervisor, with        *)
(* intervals of a few ticks and exit codes for a clean exit, a crash and   *)
(* STILL_ACTIVE; and AppInstance, with an agent, one that starts while it  *)
(* dies, and a third that comes at any point of that.  They share no       *)
(* state: a behaviour uses one and leaves the other in its initial state.  *)
(***************************************************************************)
EXTENDS Supervisor, AppInstance

VARIABLE library  \* the one in use

Codes == {0, 1, 3}

allVars == <<vars, instanceVars, library>>

ProcessesInit == Init /\ InstanceInit /\ library \in {"Supervisor", "AppInstance"}

OfSupervisor(A) == library = "Supervisor" /\ A /\ UNCHANGED <<instanceVars, library>>
OfInstance(A) == library = "AppInstance" /\ A /\ UNCHANGED <<vars, library>>

ProcessesNext == OfSupervisor(Next) \/ OfInstance(InstanceNext \/ EveryoneGone)

(* The fairness of each library, for the behaviours that use it. *)
ProcessesFairness ==
  /\ WF_allVars(OfSupervisor(Run)) /\ WF_allVars(OfSupervisor(TimePasses))
  /\ \A p \in Process :
       /\ WF_allVars(OfInstance(OpenEvent(p))) /\ WF_allVars(OfInstance(SignalEvent(p)))
       /\ WF_allVars(OfInstance(PostToWindow(p))) /\ WF_allVars(OfInstance(OpenDashboard(p)))

ProcessesSpec == ProcessesInit /\ [][ProcessesNext]_allVars /\ ProcessesFairness
=============================================================================
