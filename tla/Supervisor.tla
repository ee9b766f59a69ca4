----------------------------- MODULE Supervisor -----------------------------
(***************************************************************************)
(* WindowsSupervisor::Run: starts the child process, watches its heartbeat *)
(* and its exit, asks the Policy what to do, and ends it on a shutdown     *)
(* request.  The child and the thread that requests the shutdown step      *)
(* between any two calls of the loop.                                      *)
(***************************************************************************)
EXTENDS SupervisorPolicy

CONSTANTS
  ExitCode,    \* exit codes of the child; 0 is a clean exit
  StillActive  \* the code by which IsRunning recognises a running process

ASSUME SupervisorAssumption == ExitCode \subseteq Nat /\ 0 \in ExitCode /\ StillActive \in Nat \ {0}

VARIABLES
  pc,            \* control of Run
  policy,        \* the Policy
  child,         \* "none" (no process), "running", "exited"
  code,          \* exit code of the exited child
  heartbeat,     \* auto-reset event, set by the child
  shutdown,      \* manual-reset event, set by RequestShutdown
  lastExitCode,  \* result.lastExitCode
  delay,         \* what SleepBounded has left
  result,        \* what Run returned
  starts         \* history: ages of the attempts to start since the last healthy reset

process == <<child, code>>
loop    == <<lastExitCode, delay, result>>
vars    == <<pc, policy, process, heartbeat, shutdown, loop, starts>>

Result == [status : Status, stopReason : StopReason]

NoResult == [status |-> "Idle", stopReason |-> "None"]

(***************************************************************************)
(* Types of the variables.                                                 *)
(***************************************************************************)
TypeOK ==
  /\ pc \in {"begin", "top", "graceful", "force", "forced", "while", "wait", "stopHung",
             "forceHung", "forcedHung", "after", "sleep", "returned"}
  /\ policy \in Policy
  /\ child \in {"none", "running", "exited"}
  /\ code \in ExitCode
  /\ heartbeat \in BOOLEAN
  /\ shutdown \in BOOLEAN
  /\ lastExitCode \in ExitCode
  /\ delay \in 0..BackoffCap
  /\ result \in Result
  /\ starts \in Seq(Age)

Init ==
  /\ pc = "begin"
  /\ policy = NewPolicy
  /\ child = "none" /\ code = 0
  /\ heartbeat = FALSE
  /\ shutdown \in BOOLEAN
  /\ lastExitCode = 0
  /\ delay = 0
  /\ result = NoResult
  /\ starts = <<>>
-----------------------------------------------------------------------------
(* GetExitCodeProcess cannot tell a process that exited with STILL_ACTIVE. *)
IsRunning == child = "running" \/ (child = "exited" /\ code = StillActive)

Return(p) == pc' = "returned" /\ result' = [status |-> p.status, stopReason |-> p.stopReason]

Fail == pc' = "returned" /\ result' = [status |-> "Failed", stopReason |-> "SupervisorError"]

(* The attempts to start are forgotten when the policy forgets the crashes. *)
Forget(p) == starts' = IF p.healthyResetApplied /\ ~ policy.healthyResetApplied THEN <<>> ELSE starts

(* A request made before Run begins is lost. *)
Begin ==
  /\ pc = "begin"
  /\ shutdown' = FALSE
  /\ pc' = "top"
  /\ UNCHANGED <<policy, process, heartbeat, loop, starts>>

TopShutdown ==
  /\ pc = "top" /\ shutdown
  /\ policy' = ShutdownRequested(policy)
  /\ IF IsRunning
       THEN pc' = "graceful" /\ UNCHANGED result
       ELSE Return(policy')
  /\ UNCHANGED <<process, heartbeat, shutdown, lastExitCode, delay, starts>>

(* Mutant: the child is asked to stop and not waited for. *)
ShutdownExitUnwaited ==
  /\ pc \in {"graceful", "forced"}
  /\ lastExitCode' = code
  /\ policy' = Exited(policy, code)
  /\ Return(policy')
  /\ UNCHANGED <<process, heartbeat, shutdown, delay, starts>>

(* WaitForExit after RequestGracefulStop or ForceTerminate: the child is gone. *)
ShutdownExit ==
  /\ pc \in {"graceful", "forced"} /\ child = "exited"
  /\ lastExitCode' = code
  /\ policy' = Exited(policy, code)
  /\ Return(policy')
  /\ UNCHANGED <<process, heartbeat, shutdown, delay, starts>>

WaitForExitExpires ==
  /\ child = "running"
  /\ \/ pc = "graceful" /\ pc' = "force"
     \/ pc = "stopHung" /\ pc' = "forceHung"
  /\ UNCHANGED <<policy, process, heartbeat, shutdown, loop, starts>>

(* TerminateProcess fails on a process that is gone. *)
ForceTerminate ==
  /\ pc \in {"force", "forceHung"}
  /\ IF child = "running"
       THEN pc' = (IF pc = "force" THEN "forced" ELSE "forcedHung") /\ UNCHANGED result
       ELSE Fail
  /\ UNCHANGED <<policy, process, heartbeat, shutdown, lastExitCode, delay, starts>>

ForcedExitExpires ==
  /\ pc \in {"forced", "forcedHung"} /\ child = "running"
  /\ Fail
  /\ UNCHANGED <<policy, process, heartbeat, shutdown, lastExitCode, delay, starts>>

(* What Run does when the child is to be replaced or not. *)
JudgeAtTop(p) ==
  IF p.status = "WaitingToRestart"
    THEN pc' = "sleep" /\ delay' = policy.nextBackoff /\ UNCHANGED result
    ELSE Return(p) /\ UNCHANGED delay

StartFails ==
  /\ pc = "top" /\ ~ shutdown
  /\ child' = "none" /\ UNCHANGED code
  /\ policy' = Failure(policy)
  /\ JudgeAtTop(policy')
  /\ starts' = Append(starts, 0)
  /\ UNCHANGED <<heartbeat, shutdown, lastExitCode>>

StartChild ==
  /\ pc = "top" /\ ~ shutdown
  /\ child' = "running" /\ UNCHANGED code
  /\ heartbeat' = FALSE
  /\ policy' = Started(policy)
  /\ starts' = Append(starts, 0)
  /\ pc' = "while"
  /\ UNCHANGED <<shutdown, loop>>
-----------------------------------------------------------------------------
(* while (child.IsRunning()) { if (IsSignaled(shutdown)) break; *)
LoopTest ==
  /\ pc = "while"
  /\ pc' = IF IsRunning /\ ~ shutdown THEN "wait" ELSE "after"
  /\ UNCHANGED <<policy, process, heartbeat, shutdown, loop, starts>>

(* The decision of a wait: replace the child, stop it, return or go on. *)
Judge(p) ==
  /\ policy' = p
  /\ IF p.status \in {"Stopped", "Cutoff"} THEN Return(p) /\ UNCHANGED delay
     ELSE /\ UNCHANGED result
          /\ IF p.status = "WaitingToRestart"
               THEN pc' = "after" /\ delay' = policy.nextBackoff
               ELSE pc' = (IF p.hungChild /\ ~ policy.hungChild THEN "stopHung" ELSE "while")
                    /\ UNCHANGED delay

(* The process handle comes before the heartbeat event in the array waited for. *)
WaitExited ==
  /\ pc = "wait" /\ child = "exited"
  /\ lastExitCode' = code
  /\ Judge(Exited(policy, code))
  /\ UNCHANGED <<process, heartbeat, shutdown, starts>>

WaitHeartbeat ==
  /\ pc = "wait" /\ child = "running" /\ heartbeat
  /\ heartbeat' = FALSE
  /\ Judge(Heartbeat(policy))
  /\ Forget(policy')
  /\ UNCHANGED <<process, shutdown, lastExitCode>>

WaitTimedOut ==
  /\ pc = "wait" /\ child = "running" /\ ~ heartbeat
  /\ Judge(Tick(policy))
  /\ Forget(policy')
  /\ UNCHANGED <<process, heartbeat, shutdown, lastExitCode>>

WaitFails ==
  /\ pc = "wait"
  /\ Fail
  /\ UNCHANGED <<policy, process, heartbeat, shutdown, lastExitCode, delay, starts>>

HungExit ==
  /\ pc \in {"stopHung", "forcedHung"} /\ child = "exited"
  /\ lastExitCode' = code
  /\ Judge(Exited(policy, code))
  /\ UNCHANGED <<process, heartbeat, shutdown, starts>>

(* The loop is left with a restart to make, or with an exit no wait has seen. *)
AfterShutdown ==
  /\ pc = "after" /\ shutdown
  /\ pc' = "top"
  /\ UNCHANGED <<policy, process, heartbeat, shutdown, loop, starts>>

AfterRestart ==
  /\ pc = "after" /\ ~ shutdown /\ policy.status = "WaitingToRestart"
  /\ child' = "none" /\ UNCHANGED code
  /\ pc' = "sleep"
  /\ UNCHANGED <<policy, heartbeat, shutdown, loop, starts>>

AfterUnseenExit ==
  /\ pc = "after" /\ ~ shutdown /\ policy.status # "WaitingToRestart"
  /\ ~ IsRunning
  /\ policy' = Exited(policy, lastExitCode)
  /\ JudgeAtTop(policy')
  /\ child' = "none" /\ UNCHANGED code
  /\ UNCHANGED <<heartbeat, shutdown, lastExitCode, starts>>

(* SleepBounded; the shutdown event wakes it. *)
Wake ==
  /\ pc = "sleep" /\ (delay = 0 \/ shutdown)
  /\ delay' = 0
  /\ pc' = "top"
  /\ UNCHANGED <<policy, process, heartbeat, shutdown, lastExitCode, result, starts>>
-----------------------------------------------------------------------------
ChildBeats ==
  /\ child = "running"
  /\ heartbeat' = TRUE
  /\ UNCHANGED <<pc, policy, process, shutdown, loop, starts>>

ChildExits ==
  /\ child = "running"
  /\ child' = "exited" /\ code' \in ExitCode
  /\ UNCHANGED <<pc, policy, heartbeat, shutdown, loop, starts>>

RequestShutdown ==
  /\ pc # "returned"
  /\ shutdown' = TRUE
  /\ UNCHANGED <<pc, policy, process, heartbeat, loop, starts>>

TimePasses ==
  /\ pc # "returned"
  /\ policy' = OneTickLater(policy)
  /\ starts' = PruneCrashes(AllOlder(starts))
  /\ delay' = IF pc = "sleep" /\ delay > 0 THEN delay - 1 ELSE delay
  /\ UNCHANGED <<pc, process, heartbeat, shutdown, lastExitCode, result>>

Returned == pc = "returned" /\ UNCHANGED vars

Run ==
  \/ Begin \/ TopShutdown \/ ShutdownExit \/ WaitForExitExpires \/ ForceTerminate
  \/ ForcedExitExpires \/ StartFails \/ StartChild \/ LoopTest \/ WaitExited \/ WaitHeartbeat
  \/ WaitTimedOut \/ WaitFails \/ HungExit \/ AfterShutdown \/ AfterRestart
  \/ AfterUnseenExit \/ Wake

Environment == ChildBeats \/ ChildExits \/ RequestShutdown \/ TimePasses

Next == Run \/ Environment \/ Returned

Spec == Init /\ [][Next]_vars

(* Run is scheduled and time passes; the child owes nothing. *)
FairSpec == Spec /\ WF_vars(Run) /\ WF_vars(TimePasses)
-----------------------------------------------------------------------------
(***************************************************************************)
(* Between two healthy resets no window of crashWindowMs sees more than    *)
(* maxCrashesInWindow attempts to start the child.                         *)
(***************************************************************************)
RestartsAreBounded == Len(starts) <= CrashLimit

(***************************************************************************)
(* Run closes the handle of a child only after the child is gone, so there *)
(* are never two children.                                                 *)
(***************************************************************************)
NoChildDropped == [][child = "running" => child' \in {"running", "exited"}]_vars

(***************************************************************************)
(* When Run returns anything but a failure, no child is left running.      *)
(***************************************************************************)
NothingLeftRunning == pc = "returned" /\ result.status # "Failed" => child # "running"

(***************************************************************************)
(* A shutdown requested while Run is running makes it return, however the  *)
(* child behaves.                                                          *)
(***************************************************************************)
ShutdownReturns == (pc # "begin" /\ shutdown) ~> pc = "returned"

(***************************************************************************)
(* A child that runs and stays silent is ended.                            *)
(***************************************************************************)
SilentChildIsStopped ==
  child = "running" ~> (heartbeat \/ child # "running" \/ pc = "returned")

(***************************************************************************)
(* Run never waits forever for its child: a shutdown makes it return, and  *)
(* silence makes it act.                                                   *)
(***************************************************************************)
RunMovesOn == ShutdownReturns /\ SilentChildIsStopped

(***************************************************************************)
(* What the tests of the policy expect of a crash: it is never taken for a *)
(* clean exit.                                                             *)
(***************************************************************************)
CrashIsNotClean == pc = "returned" /\ result.stopReason = "CleanExit" => code = 0
-----------------------------------------------------------------------------
(***************************************************************************)
(* The strengthening of NothingLeftRunning and NoChildDropped that is      *)
(* inductive: where Run may be while the child runs, and what the policy   *)
(* thinks there.                                                           *)
(***************************************************************************)
Watching == {"while", "wait"}

WatchInv ==
  /\ policy.shutdownRequested => pc \in {"graceful", "force", "forced", "returned"}
  /\ pc \in Watching => policy.status = "Running" /\ ~ policy.hungChild /\ policy.childRunning
  /\ pc = "after" /\ policy.status = "WaitingToRestart" => child # "running"
  /\ pc \in {"top", "after"} /\ child = "running" => shutdown
  /\ pc \in {"begin", "sleep"} => child # "running"

SupervisorInv == TypeOK /\ WatchInv /\ NothingLeftRunning
==============================================================================
