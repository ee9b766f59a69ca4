-------------------------- MODULE SupervisorPolicy --------------------------
(***************************************************************************)
(* supervisor::Policy: what to do about a child process that crashes,      *)
(* hangs or exits.  A policy is a record, an observation an operator from  *)
(* a policy to the next one.  Times are kept as ages, counted up to        *)
(* Horizon, beyond every interval the policy compares them with.           *)
(***************************************************************************)
EXTENDS Integers, Sequences, FiniteSets

CONSTANTS
  InitialBackoff, MaxBackoff, HealthyReset, HeartbeatTimeout, CrashWindow,
  MaxCrashes,  \* maxCrashesInWindow
  Horizon      \* bound of the ages

ASSUME PolicyAssumption ==
  /\ {InitialBackoff, MaxBackoff, HealthyReset, HeartbeatTimeout, CrashWindow, MaxCrashes} \subseteq Nat
  /\ Horizon \in Nat
  /\ Horizon > HealthyReset /\ Horizon > HeartbeatTimeout /\ Horizon > CrashWindow

(* The constructor corrects an inconsistent configuration. *)
BackoffCap == IF MaxBackoff < InitialBackoff THEN InitialBackoff ELSE MaxBackoff
CrashLimit == IF MaxCrashes = 0 THEN 1 ELSE MaxCrashes

Age == 0..Horizon
Status == {"Idle", "Running", "WaitingToRestart", "StoppingHungChild", "ShuttingDown",
           "Stopped", "Cutoff", "Failed"}
StopReason == {"None", "CleanExit", "Shutdown", "CrashLoop", "SupervisorError"}

Policy ==
  [status : Status, stopReason : StopReason, childRunning : BOOLEAN, shutdownRequested : BOOLEAN,
   hungChild : BOOLEAN, healthyResetApplied : BOOLEAN, upFor : Age, silentFor : Age,
   nextBackoff : InitialBackoff..BackoffCap, crashTimes : Seq(Age)]

NewPolicy ==
  [status |-> "Idle", stopReason |-> "None", childRunning |-> FALSE, shutdownRequested |-> FALSE,
   hungChild |-> FALSE, healthyResetApplied |-> FALSE, upFor |-> 0, silentFor |-> 0,
   nextBackoff |-> InitialBackoff, crashTimes |-> <<>>]

Older(a) == IF a < Horizon THEN a + 1 ELSE a
AllOlder(s) == [i \in 1..Len(s) |-> Older(s[i])]

OneTickLater(p) ==
  [p EXCEPT !.upFor = Older(@), !.silentFor = Older(@), !.crashTimes = AllOlder(@)]
-----------------------------------------------------------------------------
SaturatingDouble(v) == IF v >= BackoffCap \/ 2 * v > BackoffCap THEN BackoffCap ELSE 2 * v

(* Crashes are in order, the oldest first: those in the window are the last ones. *)
InWindow(s) == {i \in 1..Len(s) : s[i] <= CrashWindow}
PruneCrashes(s) == SubSeq(s, Len(s) - Cardinality(InWindow(s)) + 1, Len(s))

(* ResetHealthyState, once for every start. *)
Settled(p) ==
  IF ~ p.healthyResetApplied /\ p.upFor >= HealthyReset
    THEN [p EXCEPT !.crashTimes = <<>>, !.nextBackoff = InitialBackoff,
                   !.healthyResetApplied = TRUE]
    ELSE p

Started(p) ==
  [p EXCEPT !.childRunning = TRUE, !.hungChild = FALSE, !.healthyResetApplied = FALSE,
            !.upFor = 0, !.silentFor = 0, !.stopReason = "None",
            !.status = IF p.shutdownRequested THEN "ShuttingDown" ELSE "Running"]

Heartbeat(p) ==
  IF ~ p.childRunning \/ p.shutdownRequested THEN p ELSE Settled([p EXCEPT !.silentFor = 0])

(* Mutant: a silent child is left alone once it has been healthy. *)
TickTrusting(p) ==
  LET q == Settled(p)
  IN  IF p.childRunning /\ ~ p.shutdownRequested /\ ~ q.healthyResetApplied
           /\ q.silentFor >= HeartbeatTimeout
        THEN [q EXCEPT !.hungChild = TRUE, !.status = "StoppingHungChild"]
        ELSE q

Tick(p) ==
  IF ~ p.childRunning \/ p.shutdownRequested \/ p.hungChild THEN p
  ELSE IF p.silentFor >= HeartbeatTimeout
    THEN [Settled(p) EXCEPT !.hungChild = TRUE, !.status = "StoppingHungChild"]
    ELSE Settled(p)

(* Mutant: the limit is exceeded by one. *)
FailureLate(p) ==
  LET crashes == Append(PruneCrashes(p.crashTimes), 0)
      q       == [p EXCEPT !.childRunning = FALSE, !.crashTimes = crashes]
  IN  IF Len(crashes) > CrashLimit
        THEN [q EXCEPT !.status = "Cutoff", !.stopReason = "CrashLoop"]
        ELSE [q EXCEPT !.status = "WaitingToRestart", !.nextBackoff = SaturatingDouble(@)]

(* HandleFailure: cut off a crash loop or schedule a restart. *)
Failure(p) ==
  LET crashes == Append(PruneCrashes(p.crashTimes), 0)
      q       == [p EXCEPT !.childRunning = FALSE, !.crashTimes = crashes]
  IN  IF Len(crashes) >= CrashLimit
        THEN [q EXCEPT !.status = "Cutoff", !.stopReason = "CrashLoop"]
        ELSE [q EXCEPT !.status = "WaitingToRestart", !.nextBackoff = SaturatingDouble(@)]

Exited(p, code) ==
  IF p.shutdownRequested
    THEN [p EXCEPT !.childRunning = FALSE, !.status = "Stopped", !.stopReason = "Shutdown"]
  ELSE IF code = 0 /\ ~ p.hungChild
    THEN [p EXCEPT !.childRunning = FALSE, !.status = "Stopped", !.stopReason = "CleanExit"]
  ELSE Failure(p)

ShutdownRequested(p) ==
  [p EXCEPT !.shutdownRequested = TRUE,
            !.status = IF p.childRunning THEN "ShuttingDown" ELSE "Stopped",
            !.stopReason = IF p.childRunning THEN "None" ELSE "Shutdown"]
==============================================================================
