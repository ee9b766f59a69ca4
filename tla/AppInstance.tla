----------------------------- MODULE AppInstance -----------------------------
(***************************************************************************)
(* keysidekick::AppInstance: the processes of one session, of which one is *)
(* the agent.  A named mutex exists while any process has a handle of it,  *)
(* and whoever creates it is the agent; the others ask the agent to open   *)
(* the dashboard, by a named event and a message to its window.  A step is *)
(* one call of Windows; a process may be killed at any time.               *)
(***************************************************************************)
EXTENDS Integers, FiniteSets

CONSTANT Process  \* every launch is a process of its own

VARIABLES
  progress, \* of a process: where it is in main
  mutex,    \* the processes with a handle of the mutex: mutex_handle_
  event,    \* those with a handle of the event: open_event_handle_
  window,   \* those whose message window exists
  posted,   \* per window, the launches whose message is in its queue
  opened    \* the launches for which the dashboard was opened

instanceVars == <<progress, mutex, event, window, posted, opened>>

Stage ==
  {"idle", "acquire", "exists", "event", "undo", "start", "run", "stop", "unlock", "exit",
   "request", "signal", "find", "gone", "killed"}

InstanceInit ==
  /\ progress = [p \in Process |-> "idle"]
  /\ mutex = {} /\ event = {} /\ window = {}
  /\ posted = [p \in Process |-> {}]
  /\ opened = {}

At(p, stage) == progress[p] = stage

Goto(p, stage) == progress' = [progress EXCEPT ![p] = stage]
-----------------------------------------------------------------------------
(* The constructor: without the number of the message there is no instance *)
(* and main returns 1.                                                     *)
Launch(p) ==
  /\ At(p, "idle")
  /\ Goto(p, "acquire") \/ Goto(p, "gone")
  /\ UNCHANGED <<mutex, event, window, posted, opened>>

(* Mutant: GetLastError() is not looked at. *)
CreateMutexBlindly(p) ==
  /\ At(p, "acquire")
  /\ mutex' = mutex \cup {p}
  /\ Goto(p, "event")
  /\ UNCHANGED <<event, window, posted, opened>>

(* Acquire, up to GetLastError(): the mutex is new, or it was there. *)
CreateMutex(p) ==
  /\ At(p, "acquire")
  /\ \/ /\ mutex' = mutex \cup {p}
        /\ IF mutex = {} THEN Goto(p, "event") ELSE Goto(p, "exists")
     \/ /\ Goto(p, "gone")  \* CreateMutexW failed: main returns 1
        /\ UNCHANGED mutex
  /\ UNCHANGED <<event, window, posted, opened>>

(* AlreadyRunning: until here the handle kept the mutex alive. *)
CloseOpened(p) ==
  /\ At(p, "exists")
  /\ mutex' = mutex \ {p}
  /\ Goto(p, "request")
  /\ UNCHANGED <<event, window, posted, opened>>

CreateEvent(p) ==
  /\ At(p, "event")
  /\ \/ event' = event \cup {p} /\ Goto(p, "start")
     \/ UNCHANGED event /\ Goto(p, "undo")
  /\ UNCHANGED <<mutex, window, posted, opened>>

(* The event could not be made: the mutex is given back and main returns 1. *)
CloseMutex(p) ==
  /\ At(p, "undo")
  /\ mutex' = mutex \ {p}
  /\ Goto(p, "gone")
  /\ UNCHANGED <<event, window, posted, opened>>
-----------------------------------------------------------------------------
(* main, from LoadConfig to the loop of the device.  CreateWindowExW may   *)
(* fail, and main goes on without its window.                              *)
CreateMsgWindow(p) ==
  /\ At(p, "start")
  /\ window' = window \cup {p} \/ UNCHANGED window
  /\ Goto(p, "run")
  /\ UNCHANGED <<mutex, event, posted, opened>>

(* MsgWndProc opens the dashboard for a message in the queue. *)
OpenDashboard(p) ==
  /\ At(p, "run")
  /\ \E q \in posted[p] :
       /\ posted' = [posted EXCEPT ![p] = @ \ {q}]
       /\ opened' = opened \cup {q}
  /\ UNCHANGED <<progress, mutex, event, window>>

(* main leaves its loop; from here on no message is taken. *)
LeaveLoop(p) ==
  /\ At(p, "run")
  /\ Goto(p, "stop")
  /\ UNCHANGED <<mutex, event, window, posted, opened>>

(* ~AppInstance: the event first, then the mutex.  The window lasts until  *)
(* the process ends, and a new agent may start before that.                *)
CloseEventHandle(p) ==
  /\ At(p, "stop")
  /\ event' = event \ {p}
  /\ Goto(p, "unlock")
  /\ UNCHANGED <<mutex, window, posted, opened>>

CloseMutexHandle(p) ==
  /\ At(p, "unlock")
  /\ mutex' = mutex \ {p}
  /\ Goto(p, "exit")
  /\ UNCHANGED <<event, window, posted, opened>>

(* Windows closes what a process leaves open: its end, or a kill. *)
CloseEverything(p) ==
  /\ mutex' = mutex \ {p} /\ event' = event \ {p} /\ window' = window \ {p}
  /\ posted' = [posted EXCEPT ![p] = {}]
  /\ UNCHANGED opened

Exit(p) == At(p, "exit") /\ CloseEverything(p) /\ Goto(p, "gone")

Kill(p) ==
  /\ progress[p] \notin {"idle", "gone", "killed"}
  /\ CloseEverything(p)
  /\ Goto(p, "killed")
-----------------------------------------------------------------------------
(* RequestOpenDashboard: OpenEventW fails while no process has the event. *)
OpenEvent(p) ==
  /\ At(p, "request")
  /\ IF event = {} THEN Goto(p, "gone") /\ UNCHANGED event
                   ELSE Goto(p, "signal") /\ event' = event \cup {p}
  /\ UNCHANGED <<mutex, window, posted, opened>>

(* Mutant: the event is taken for enough. *)
SignalOnly(p) ==
  /\ At(p, "signal")
  /\ event' = event \ {p}
  /\ Goto(p, "gone")
  /\ UNCHANGED <<mutex, window, posted, opened>>

(* SetEvent and CloseHandle.  Nobody waits for the event: main does not    *)
(* call ConsumeOpenDashboardRequest, and only the message counts.          *)
SignalEvent(p) ==
  /\ At(p, "signal")
  /\ event' = event \ {p}
  /\ Goto(p, "find")
  /\ UNCHANGED <<mutex, window, posted, opened>>

(* FindWindowW and PostMessageW: any window of the class. *)
PostToWindow(p) ==
  /\ At(p, "find")
  /\ \/ window = {} /\ UNCHANGED posted
     \/ \E q \in window : posted' = [posted EXCEPT ![q] = @ \cup {p}]
  /\ Goto(p, "gone")
  /\ UNCHANGED <<mutex, event, window, opened>>
-----------------------------------------------------------------------------
Acquire(p) == CreateMutex(p) \/ CloseOpened(p) \/ CreateEvent(p) \/ CloseMutex(p)

RequestOpenDashboard(p) == OpenEvent(p) \/ SignalEvent(p) \/ PostToWindow(p)

CloseHandles(p) == CloseEventHandle(p) \/ CloseMutexHandle(p)

InstanceNext ==
  \E p \in Process :
    \/ Launch(p) \/ Acquire(p) \/ CreateMsgWindow(p) \/ OpenDashboard(p)
    \/ LeaveLoop(p) \/ CloseHandles(p) \/ Exit(p) \/ Kill(p) \/ RequestOpenDashboard(p)

EveryoneGone ==
  /\ \A p \in Process : progress[p] \in {"gone", "killed"}
  /\ UNCHANGED instanceVars

InstanceSpec == InstanceInit /\ [][InstanceNext]_instanceVars

(* A process that asks goes on until it has asked, and the agent takes its *)
(* messages while it runs.  Nobody has to launch, to stop or to be killed. *)
InstanceFairness ==
  \A p \in Process :
    /\ WF_instanceVars(OpenEvent(p)) /\ WF_instanceVars(SignalEvent(p))
    /\ WF_instanceVars(PostToWindow(p))
    /\ WF_instanceVars(OpenDashboard(p))
-----------------------------------------------------------------------------
InstanceTypeOK ==
  /\ progress \in [Process -> Stage]
  /\ mutex \subseteq Process /\ event \subseteq Process /\ window \subseteq Process
  /\ posted \in [Process -> SUBSET Process]
  /\ opened \subseteq Process

(* The stages of the agent, from the creation of the mutex to its end. *)
Agent == {p \in Process : progress[p] \in {"event", "undo", "start", "run", "stop", "unlock"}}

(***************************************************************************)
(* One agent per session (README.md "Singleton mutex - no duplicate        *)
(* instances"): also while one is dying and others start, or are killed    *)
(* with a handle of the mutex, no two processes own the device and the     *)
(* configuration.                                                          *)
(***************************************************************************)
OneAgent == \A p, q \in Agent : p = q

(***************************************************************************)
(* A launch that finds an agent running opens the dashboard, unless the    *)
(* agent stops or is killed meanwhile, or the launch is.  It needs that    *)
(* the window of the agent before is gone, for FindWindowW takes any.      *)
(***************************************************************************)
LaunchOpensDashboard ==
  \A p \in Process : \A q \in Process \ {p} :
    (At(p, "request") /\ At(q, "run") /\ window = {q})
      ~> (p \in opened \/ ~ At(q, "run") \/ At(p, "killed"))
=============================================================================
