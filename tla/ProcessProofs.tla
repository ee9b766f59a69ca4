--------------------------- MODULE ProcessProofs ----------------------------
(***************************************************************************)
(* Theorems about the processes of the program: the supervisor and its     *)
(* child, for every configuration of the policy (the inductive invariant   *)
(* is SupervisorInv), and the launches that make one agent (InstanceInv).  *)
(***************************************************************************)
EXTENDS Supervisor, AppInstance, FiniteSetTheorems, TLAPS

(* A sequence has as many places as elements. *)
LEMMA Enumerated ==
  ASSUME NEW X, NEW s \in Seq(X)
  PROVE  IsFiniteSet(1..Len(s)) /\ Cardinality(1..Len(s)) = Len(s)
<1>1. Len(s) \in Nat
  OBVIOUS
<1> DEFINE n == Len(s)
<1>2. IsFiniteSet(1..n) /\ Cardinality(1..n) = IF 1 > n THEN 0 ELSE n - 1 + 1
  <2> HIDE DEF n
  <2>1. n \in Int /\ 1 \in Int
    BY <1>1 DEF n
  <2>2. QED
    BY ONLY <2>1, FS_Interval
<1>3. QED
  BY <1>1, <1>2

(***************************************************************************)
(* Pruning the crash times leaves crash times.                             *)
(***************************************************************************)
LEMMA PruneType == ASSUME NEW s \in Seq(Age) PROVE PruneCrashes(s) \in Seq(Age)
<1>1. IsFiniteSet(1..Len(s)) /\ Cardinality(1..Len(s)) = Len(s)
  BY Enumerated
<1>2. Cardinality(InWindow(s)) \in Nat /\ Cardinality(InWindow(s)) <= Len(s)
  BY <1>1, FS_Subset, FS_CardinalityType DEF InWindow
<1>3. QED
  BY <1>2 DEF PruneCrashes

(* Growing older leaves ages ages. *)
LEMMA OlderType ==
  /\ 0 \in Age
  /\ \A a \in Age : Older(a) \in Age
  /\ \A s \in Seq(Age) : AllOlder(s) \in Seq(Age)
<1>1. 0 \in Age /\ \A a \in Age : Older(a) \in Age
  BY PolicyAssumption DEF Age, Older
<1>2. ASSUME NEW s \in Seq(Age) PROVE AllOlder(s) \in Seq(Age)
  <2>1. \A i \in 1..Len(s) : Older(s[i]) \in Age
    BY <1>1
  <2>2. QED
    BY <2>1 DEF AllOlder
<1>3. QED
  BY <1>1, <1>2

(* The backoff is a delay of the policy. *)
LEMMA BackoffType ==
  /\ BackoffCap \in Nat /\ InitialBackoff \in InitialBackoff..BackoffCap
  /\ \A v \in InitialBackoff..BackoffCap : SaturatingDouble(v) \in InitialBackoff..BackoffCap
  BY PolicyAssumption DEF BackoffCap, SaturatingDouble

(***************************************************************************)
(* Every observation makes a policy of a policy.                           *)
(***************************************************************************)
LEMMA PolicyType ==
  ASSUME NEW p \in Policy
  PROVE  /\ OneTickLater(p) \in Policy /\ Started(p) \in Policy
         /\ Settled(p) \in Policy /\ Heartbeat(p) \in Policy /\ Tick(p) \in Policy
         /\ Failure(p) \in Policy /\ ShutdownRequested(p) \in Policy
         /\ \A c : Exited(p, c) \in Policy
<1> USE OlderType, BackoffType DEF Policy, Status, StopReason
<1>1. OneTickLater(p) \in Policy
  BY DEF OneTickLater
<1>2. Started(p) \in Policy /\ ShutdownRequested(p) \in Policy
  BY DEF Started, ShutdownRequested
<1>e. <<>> \in Seq(Age)
  OBVIOUS
<1>3. ASSUME NEW q \in Policy PROVE Settled(q) \in Policy
  BY <1>e DEF Settled
<1>4. Heartbeat(p) \in Policy
  <2>1. [p EXCEPT !.silentFor = 0] \in Policy
    OBVIOUS
  <2>2. QED
    BY <1>3, <2>1 DEF Heartbeat
<1>5. Tick(p) \in Policy
  <2>1. ASSUME NEW q \in Policy
        PROVE  [q EXCEPT !.hungChild = TRUE, !.status = "StoppingHungChild"] \in Policy
    OBVIOUS
  <2>2. Settled(p) \in Policy
    BY <1>3
  <2> HIDE DEF Policy
  <2>3. QED
    BY <2>1, <2>2 DEF Tick
<1>6. Failure(p) \in Policy
  <2>1. Append(PruneCrashes(p.crashTimes), 0) \in Seq(Age)
    BY PruneType
  <2>2. QED
    BY <2>1 DEF Failure
<1>7. \A c : Exited(p, c) \in Policy
  BY <1>6 DEF Exited
<1>8. QED
  BY <1>1, <1>2, <1>3, <1>4, <1>5, <1>6, <1>7

(***************************************************************************)
(* What a failure, a heartbeat and a tick decide.                          *)
(***************************************************************************)
LEMMA Decisions ==
  ASSUME NEW p \in Policy
  PROVE  /\ Failure(p).status \in {"Cutoff", "WaitingToRestart"}
         /\ (~ p.shutdownRequested => ~ Failure(p).shutdownRequested)
         /\ \A c : /\ Exited(p, c).status \in {"Stopped", "Cutoff", "WaitingToRestart"}
                   /\ (~ p.shutdownRequested => ~ Exited(p, c).shutdownRequested)
         /\ p.childRunning /\ ~ p.shutdownRequested =>
              /\ Heartbeat(p).status = p.status /\ Heartbeat(p).hungChild = p.hungChild
              /\ Heartbeat(p).childRunning /\ ~ Heartbeat(p).shutdownRequested
              /\ Tick(p).childRunning /\ ~ Tick(p).shutdownRequested
              /\ \/ Tick(p).hungChild = p.hungChild /\ Tick(p).status = p.status
                 \/ Tick(p).hungChild = TRUE /\ Tick(p).status = "StoppingHungChild"
<1> USE DEF Policy
<1>1. /\ Failure(p).status \in {"Cutoff", "WaitingToRestart"}
      /\ (~ p.shutdownRequested => ~ Failure(p).shutdownRequested)
  BY DEF Failure
<1>2. \A c : /\ Exited(p, c).status \in {"Stopped", "Cutoff", "WaitingToRestart"}
            /\ (~ p.shutdownRequested => ~ Exited(p, c).shutdownRequested)
  BY <1>1 DEF Exited
<1>3. QED
  BY <1>1, <1>2 DEF Heartbeat, Tick, Settled

(***************************************************************************)
(* Every step keeps the types.                                             *)
(***************************************************************************)
LEMMA TypeStep == TypeOK /\ [Next]_vars => TypeOK'
<1> SUFFICES ASSUME TypeOK, [Next]_vars PROVE TypeOK'
  OBVIOUS
<1>p. /\ BackoffCap \in Nat /\ policy.nextBackoff \in 0..BackoffCap
      /\ NoResult \in Result /\ <<>> \in Seq(Age)
      /\ [status |-> "Failed", stopReason |-> "SupervisorError"] \in Result
  BY PolicyAssumption, BackoffType DEF TypeOK, Policy, Result, NoResult, Status, StopReason
<1>r. \A p \in Policy : [status |-> p.status, stopReason |-> p.stopReason] \in Result
  BY DEF Policy, Result
<1>s. \A s \in Seq(Age) : Append(s, 0) \in Seq(Age)
  BY OlderType
<1> USE <1>p, <1>r, <1>s, SupervisorAssumption, PolicyType
    DEF TypeOK, process, loop, Return, Fail, JudgeAtTop, Judge, Forget
<1>1. CASE Begin
  BY <1>1 DEF Begin
<1>2. CASE TopShutdown
  BY <1>2 DEF TopShutdown
<1>3. CASE ShutdownExit
  BY <1>3 DEF ShutdownExit
<1>4. CASE WaitForExitExpires
  BY <1>4 DEF WaitForExitExpires
<1>5. CASE ForceTerminate
  BY <1>5 DEF ForceTerminate
<1>6. CASE ForcedExitExpires
  BY <1>6 DEF ForcedExitExpires
<1>7. CASE StartFails
  BY <1>7 DEF StartFails
<1>8. CASE StartChild
  BY <1>8 DEF StartChild
<1>9. CASE LoopTest
  BY <1>9 DEF LoopTest
<1>10. CASE WaitExited
  BY <1>10 DEF WaitExited
<1>11. CASE WaitHeartbeat
  BY <1>11 DEF WaitHeartbeat
<1>12. CASE WaitTimedOut
  BY <1>12 DEF WaitTimedOut
<1>13. CASE WaitFails
  BY <1>13 DEF WaitFails
<1>14. CASE HungExit
  BY <1>14 DEF HungExit
<1>15. CASE AfterShutdown
  BY <1>15 DEF AfterShutdown
<1>16. CASE AfterRestart
  BY <1>16 DEF AfterRestart
<1>17. CASE AfterUnseenExit
  BY <1>17 DEF AfterUnseenExit
<1>18. CASE Wake
  BY <1>18 DEF Wake
<1>19. CASE ChildBeats
  BY <1>19 DEF ChildBeats
<1>20. CASE ChildExits
  BY <1>20 DEF ChildExits
<1>21. CASE RequestShutdown
  BY <1>21 DEF RequestShutdown
<1>22. CASE TimePasses
  <2>1. starts' \in Seq(Age)
    BY <1>22, OlderType, PruneType DEF TimePasses
  <2>2. QED
    BY <1>22, <2>1 DEF TimePasses
<1>23. CASE Returned
  BY <1>23 DEF Returned, vars
<1>24. CASE UNCHANGED vars
  BY <1>24 DEF vars
<1>25. QED
  BY <1>1, <1>2, <1>3, <1>4, <1>5, <1>6, <1>7, <1>8, <1>9, <1>10, <1>11, <1>12, <1>13, <1>14, <1>15, <1>16, <1>17, <1>18, <1>19, <1>20, <1>21, <1>22, <1>23, <1>24 DEF Next, Run, Environment

(***************************************************************************)
(* Every step keeps Run where the child and the policy allow it to be.     *)
(***************************************************************************)
LEMMA WatchStep == SupervisorInv /\ [Next]_vars => WatchInv' /\ NothingLeftRunning'
<1> SUFFICES ASSUME TypeOK, WatchInv, NothingLeftRunning, [Next]_vars
             PROVE  WatchInv' /\ NothingLeftRunning'
  BY DEF SupervisorInv
<1>p. policy \in Policy
  BY DEF TypeOK
<1> USE <1>p DEF WatchInv, NothingLeftRunning, Watching, process, loop, Return, Fail, JudgeAtTop, Judge, IsRunning
<1>1. CASE Begin
  BY <1>1 DEF Begin
<1>2. CASE TopShutdown
  BY <1>2 DEF TopShutdown
<1>3. CASE ShutdownExit
  BY <1>3 DEF ShutdownExit
<1>4. CASE WaitForExitExpires
  BY <1>4 DEF WaitForExitExpires
<1>5. CASE ForceTerminate
  BY <1>5 DEF ForceTerminate
<1>6. CASE ForcedExitExpires
  BY <1>6 DEF ForcedExitExpires
<1>7. CASE StartFails
  BY <1>7, Decisions DEF StartFails
<1>8. CASE StartChild
  BY <1>8 DEF StartChild, Started, Policy
<1>9. CASE LoopTest
  BY <1>9 DEF LoopTest
<1>10. CASE WaitExited
  <2> DEFINE p == Exited(policy, code)
  <2>1. policy' = p
    BY <1>10 DEF WaitExited
  <2>2. p.status \in {"Stopped", "Cutoff", "WaitingToRestart"}
    BY Decisions
  <2>3. ~ p.shutdownRequested
    BY <1>10, Decisions DEF WaitExited
  <2> HIDE DEF p
  <2>4. QED
    BY <1>10, <2>1, <2>2, <2>3 DEF WaitExited, p
<1>11. CASE WaitHeartbeat
  BY <1>11, Decisions DEF WaitHeartbeat
<1>12. CASE WaitTimedOut
  BY <1>12, Decisions DEF WaitTimedOut
<1>13. CASE WaitFails
  BY <1>13 DEF WaitFails
<1>14. CASE HungExit
  <2> DEFINE p == Exited(policy, code)
  <2>1. policy' = p
    BY <1>14 DEF HungExit
  <2>2. p.status \in {"Stopped", "Cutoff", "WaitingToRestart"}
    BY Decisions
  <2>3. ~ p.shutdownRequested
    BY <1>14, Decisions DEF HungExit
  <2> HIDE DEF p
  <2>4. QED
    BY <1>14, <2>1, <2>2, <2>3 DEF HungExit, p
<1>15. CASE AfterShutdown
  BY <1>15 DEF AfterShutdown
<1>16. CASE AfterRestart
  BY <1>16 DEF AfterRestart
<1>17. CASE AfterUnseenExit
  <2> DEFINE p == Exited(policy, lastExitCode)
  <2>1. policy' = p
    BY <1>17 DEF AfterUnseenExit
  <2>2. p.status \in {"Stopped", "Cutoff", "WaitingToRestart"}
    BY Decisions
  <2>3. ~ p.shutdownRequested
    BY <1>17, Decisions DEF AfterUnseenExit
  <2> HIDE DEF p
  <2>4. QED
    BY <1>17, <2>1, <2>2, <2>3 DEF AfterUnseenExit, p
<1>18. CASE Wake
  BY <1>18 DEF Wake
<1>19. CASE ChildBeats
  BY <1>19 DEF ChildBeats
<1>20. CASE ChildExits
  BY <1>20 DEF ChildExits
<1>21. CASE RequestShutdown
  BY <1>21 DEF RequestShutdown
<1>22. CASE TimePasses
  BY <1>22 DEF TimePasses, OneTickLater, Policy
<1>23. CASE Returned
  BY <1>23 DEF Returned, vars
<1>24. CASE UNCHANGED vars
  BY <1>24 DEF vars
<1>25. QED
  BY <1>1, <1>2, <1>3, <1>4, <1>5, <1>6, <1>7, <1>8, <1>9, <1>10, <1>11, <1>12, <1>13, <1>14, <1>15, <1>16, <1>17, <1>18, <1>19, <1>20, <1>21, <1>22, <1>23, <1>24 DEF Next, Run, Environment

(* The supervisor never leaves its invariant. *)
LEMMA SupervisorInvariant == Spec => []SupervisorInv
<1>1. Init => SupervisorInv
  <2>1. NewPolicy \in Policy
    BY OlderType, BackoffType DEF NewPolicy, Policy, Status, StopReason
  <2>2. <<>> \in Seq(Age) /\ NoResult \in Result
    BY DEF NoResult, Result, Status, StopReason
  <2>3. 0 \in ExitCode /\ 0 \in 0..BackoffCap
    BY SupervisorAssumption, BackoffType
  <2>4. Init => TypeOK
    BY <2>1, <2>2, <2>3 DEF Init, TypeOK
  <2>5. QED
    BY <2>4
    DEF Init, SupervisorInv, WatchInv, NothingLeftRunning, Watching, NewPolicy
<1>2. SupervisorInv /\ [Next]_vars => SupervisorInv'
  BY TypeStep, WatchStep DEF SupervisorInv
<1>3. QED
  BY <1>1, <1>2, PTL DEF Spec

(***************************************************************************)
(* The policy of Run is always a policy: its delay stays between the       *)
(* initial and the greatest one, and every variable keeps its type.        *)
(***************************************************************************)
THEOREM TypeCorrect == Spec => []TypeOK
  BY SupervisorInvariant, PTL DEF SupervisorInv

(***************************************************************************)
(* Run returns with a running child only when it says that it failed.      *)
(***************************************************************************)
THEOREM ChildIsEnded == Spec => []NothingLeftRunning
  BY SupervisorInvariant, PTL DEF SupervisorInv

(***************************************************************************)
(* Run never forgets a running child, so it never has two.                 *)
(***************************************************************************)
THEOREM OneChild == Spec => NoChildDropped
<1>1. SupervisorInv /\ [Next]_vars => [child = "running" => child' \in {"running", "exited"}]_vars
  BY DEF SupervisorInv, WatchInv, Next, Run, Environment, Begin, TopShutdown, ShutdownExit,
     WaitForExitExpires, ForceTerminate, ForcedExitExpires, StartFails, StartChild, LoopTest,
     WaitExited, WaitHeartbeat, WaitTimedOut, WaitFails, HungExit, AfterShutdown, AfterRestart,
     AfterUnseenExit, Wake, ChildBeats, ChildExits, RequestShutdown, TimePasses, Returned,
     process, IsRunning
<1>2. QED
  BY <1>1, SupervisorInvariant, PTL DEF Spec, NoChildDropped

(***************************************************************************)
(* Why restarts are bounded.  Every attempt to start but the present one   *)
(* has ended in a crash that the policy remembers and that is no older     *)
(* than the attempt.  Attempts within the window are therefore answered    *)
(* by crashes within the window, of which there are fewer than the limit.  *)
(***************************************************************************)
Ordered(s) == \A i, j \in 1..Len(s) : i <= j => s[j] <= s[i]

Recent(s) == \A i \in 1..Len(s) : s[i] <= CrashWindow

(* All but the d last attempts of s are answered by the last crashes of c. *)
Answered(c, s, d) ==
  /\ Len(s) - d <= Len(c)
  /\ \A i \in 1..(Len(s) - d) : c[Len(c) - (Len(s) - d) + i] <= s[i]

(* Where the policy has a child, and an attempt that has not ended. *)
StageInv ==
  /\ policy.status = "WaitingToRestart" => ~ policy.childRunning
  /\ pc \in {"begin", "sleep"} => ~ policy.childRunning
  /\ pc = "top" /\ policy.childRunning => shutdown
  /\ pc \in {"while", "wait", "stopHung", "forceHung", "forcedHung"} => policy.childRunning
  /\ pc = "after" /\ policy.status # "WaitingToRestart" => policy.childRunning

AnswerInv ==
  /\ Len(starts) <= CrashLimit
  /\ Ordered(starts) /\ Recent(starts)
  /\ pc # "returned" =>
       /\ Len(policy.crashTimes) < CrashLimit
       /\ policy.childRunning => Answered(policy.crashTimes, starts, 1)
       /\ ~ policy.childRunning => Answered(policy.crashTimes, starts, 0)

(* The ages and their bounds are numbers. *)
LEMMA Numbers == CrashWindow \in Nat /\ Horizon \in Nat /\ \A a \in Age : a \in Nat /\ a <= Horizon
  BY PolicyAssumption DEF Age

(* Pruning keeps the last elements, as many as there are in the window.    *)
LEMMA PruneTail ==
  ASSUME NEW s \in Seq(Age)
  PROVE  /\ Cardinality(InWindow(s)) \in 0..Len(s)
         /\ Len(PruneCrashes(s)) = Cardinality(InWindow(s))
         /\ \A i \in 1..Len(PruneCrashes(s)) :
              /\ Len(s) - Len(PruneCrashes(s)) + i \in 1..Len(s)
              /\ PruneCrashes(s)[i] = s[Len(s) - Len(PruneCrashes(s)) + i]
<1>1. IsFiniteSet(1..Len(s)) /\ Cardinality(1..Len(s)) = Len(s)
  BY Enumerated
<1> DEFINE N == Cardinality(InWindow(s))
<1>2. N \in 0..Len(s)
  BY <1>1, FS_Subset, FS_CardinalityType DEF InWindow
<1> HIDE DEF N
<1> DEFINE q == PruneCrashes(s)
<1>3. q = SubSeq(s, Len(s) - N + 1, Len(s))
  BY DEF PruneCrashes, N
<1> HIDE DEF q
<1>4. Len(q) = N
  BY <1>2, <1>3
<1>5. ASSUME NEW i \in 1..N
      PROVE  Len(s) - N + i \in 1..Len(s) /\ q[i] = s[Len(s) - N + i]
  <2> DEFINE m == Len(s) - N + 1
  <2>1. m \in 1..(Len(s) + 1) /\ m + i - 1 = Len(s) - N + i /\ i \in 1..(Len(s) - m + 1)
    BY <1>2
  <2> HIDE DEF m
  <2>2. q = SubSeq(s, m, Len(s))
    BY <1>3 DEF m
  <2>3. q[i] = s[m + i - 1]
    BY <2>1, <2>2
  <2>4. s[m + i - 1] = s[Len(s) - N + i]
    BY <2>1
  <2>5. Len(s) - N + i \in 1..Len(s)
    BY <1>2
  <2>6. QED
    BY <2>3, <2>4, <2>5
<1>6. QED
  BY <1>2, <1>4, <1>5 DEF N, q

(* An interval of indices in the window survives in full.                  *)
LEMMA PruneKeeps ==
  ASSUME NEW s \in Seq(Age), NEW k \in 0..Len(s),
         \A i \in 1..k : s[Len(s) - k + i] <= CrashWindow
  PROVE  k <= Len(PruneCrashes(s))
<1>1. (Len(s) - k + 1)..Len(s) \subseteq InWindow(s)
  <2>1. ASSUME NEW j \in (Len(s) - k + 1)..Len(s) PROVE j \in InWindow(s)
    <3>1. j - (Len(s) - k) \in 1..k
      OBVIOUS
    <3>2. s[Len(s) - k + (j - (Len(s) - k))] <= CrashWindow
      BY <3>1
    <3>3. Len(s) - k + (j - (Len(s) - k)) = j
      OBVIOUS
    <3>4. QED
      BY <3>2, <3>3 DEF InWindow
  <2>2. QED
    BY <2>1
<1>2. IsFiniteSet(InWindow(s))
  <2>1. Len(s) \in Nat
    OBVIOUS
  <2>2. IsFiniteSet(1..Len(s))
    BY <2>1, FS_Interval
  <2>3. QED
    BY <2>2, FS_Subset DEF InWindow
<1>3. Cardinality((Len(s) - k + 1)..Len(s)) = k
  <2>1. Len(s) - k + 1 \in Int /\ Len(s) \in Int
    OBVIOUS
  <2>2. QED
    BY <2>1, FS_Interval
<1>4. k <= Cardinality(InWindow(s))
  BY <1>1, <1>2, <1>3, FS_Subset
<1>5. QED
  BY <1>4, PruneTail

(* What is left of an ordered sequence is in the window, and ordered.      *)
LEMMA PruneOrdered ==
  ASSUME NEW s \in Seq(Age), Ordered(s)
  PROVE  Ordered(PruneCrashes(s)) /\ Recent(PruneCrashes(s))
<1> DEFINE q == PruneCrashes(s)
           n == Len(s)
           N == Len(q)
<1>1. q \in Seq(Age) /\ N \in 0..n /\ N = Cardinality(InWindow(s)) /\ n \in Nat
  BY PruneType, PruneTail
<1>2. \A i \in 1..N : n - N + i \in 1..n /\ q[i] = s[n - N + i]
  BY PruneTail
<1> HIDE DEF q
<1>3. ASSUME NEW i \in 1..N, q[i] > CrashWindow PROVE FALSE
  <2>1. s[n - N + i] > CrashWindow
    BY <1>2, <1>3
  <2>2. InWindow(s) \subseteq (n - N + i + 1)..n
    <3>1. ASSUME NEW j \in InWindow(s) PROVE j \in (n - N + i + 1)..n
      <4>1. j \in 1..n /\ s[j] <= CrashWindow
        BY DEF InWindow
      <4>2. j <= n - N + i => s[n - N + i] <= s[j]
        BY <1>2, <4>1 DEF Ordered
      <4>a. n - N + i \in 1..n
        BY <1>2
      <4>b. s[j] \in Age /\ s[n - N + i] \in Age
        BY <4>1, <4>a
      <4>3. s[j] \in Nat /\ s[n - N + i] \in Nat /\ CrashWindow \in Nat
        BY <4>b, Numbers
      <4>4. ~ (j <= n - N + i)
        BY <1>1, <2>1, <4>1, <4>2, <4>3
      <4>5. QED
        BY <1>1, <4>1, <4>4
    <3>2. QED
      BY <3>1
  <2>3. /\ IsFiniteSet((n - N + i + 1)..n)
        /\ Cardinality((n - N + i + 1)..n) = N - i
    <3> DEFINE a == n - N + i + 1
    <3>1. a \in Int /\ n \in Int /\ a <= n + 1 /\ n - a + 1 = N - i
      BY <1>1
    <3> HIDE DEF a
    <3>2. IsFiniteSet(a..n) /\ Cardinality(a..n) = IF a > n THEN 0 ELSE n - a + 1
      BY <3>1, FS_Interval
    <3>3. Cardinality(a..n) = N - i
      BY <3>1, <3>2
    <3>4. QED
      BY <3>2, <3>3 DEF a
  <2>4. N <= N - i
    BY <1>1, <2>2, <2>3, FS_Subset
  <2>5. QED
    BY <1>1, <2>4
<1>4. \A i \in 1..N : q[i] \in Nat
  BY <1>1, Numbers
<1>5. Recent(q)
  BY <1>3, <1>4, Numbers DEF Recent
<1>6. Ordered(q)
  <2>1. ASSUME NEW i \in 1..N, NEW j \in 1..N, i <= j PROVE q[j] <= q[i]
    <3>1. n - N + i \in 1..n /\ n - N + j \in 1..n /\ n - N + i <= n - N + j
      BY <1>1, <1>2, <2>1
    <3>2. s[n - N + j] <= s[n - N + i]
      BY <3>1 DEF Ordered
    <3>3. QED
      BY <1>2, <3>2
  <2>2. QED
    BY <2>1 DEF Ordered
<1>7. QED
  BY <1>5, <1>6 DEF q

(* A new attempt is recent, and the only one that is not answered.         *)
LEMMA StartKeeps ==
  ASSUME NEW c \in Seq(Age), NEW s \in Seq(Age), Ordered(s), Recent(s), Answered(c, s, 0)
  PROVE  /\ Ordered(Append(s, 0)) /\ Recent(Append(s, 0))
         /\ Answered(c, Append(s, 0), 1)
<1> DEFINE t == Append(s, 0)
<1>1. /\ Len(t) = Len(s) + 1 /\ Len(s) \in Nat /\ Len(c) \in Nat
      /\ t[Len(s) + 1] = 0 /\ \A i \in 1..Len(s) : t[i] = s[i]
      /\ \A i \in 1..Len(t) : i \in 1..Len(s) \/ i = Len(s) + 1
  OBVIOUS
<1>2. \A i \in 1..Len(s) : s[i] \in Nat
  BY Numbers
<1> HIDE DEF t
<1>3. Recent(t)
  <2>1. ASSUME NEW i \in 1..Len(t) PROVE t[i] <= CrashWindow
    <3>1. CASE i \in 1..Len(s)
      BY <1>1, <3>1 DEF Recent
    <3>2. CASE i = Len(s) + 1
      BY <1>1, <3>2, Numbers
    <3>3. QED
      BY <1>1, <3>1, <3>2
  <2>2. QED
    BY <2>1 DEF Recent
<1>4. Ordered(t)
  BY <1>1, <1>2 DEF Ordered
<1>5. Answered(c, t, 1)
  BY <1>1 DEF Answered
<1>6. QED
  BY <1>3, <1>4, <1>5 DEF t

(* Without attempts every attempt is answered, by a crash or by none at all, *)
LEMMA NothingToAnswer ==
  /\ Len(<<>>) = 0 /\ Ordered(<<>>) /\ Recent(<<>>)
  /\ Answered(<<>>, <<>>, 0) /\ Answered(<<>>, <<>>, 1)
  BY DEF Ordered, Recent, Answered

(* and so it is when the last crashes are as young as the attempts. *)
LEMMA AllAnswered ==
  ASSUME NEW c, NEW s, NEW l \in Nat, Len(c) = l, Len(s) \in Nat, Len(s) <= l,
         \A i \in 1..Len(s) : c[l - Len(s) + i] <= s[i]
  PROVE  Answered(c, s, 0)
<1>1. Len(s) - 0 = Len(s)
  OBVIOUS
<1>2. QED
  BY <1>1 DEF Answered

(* A crash answers the attempt that has just ended; those that answer the  *)
(* others are recent because the others are, and survive the pruning.      *)
LEMMA FailureAnswers ==
  ASSUME NEW c \in Seq(Age), NEW s \in Seq(Age), Recent(s), Answered(c, s, 1)
  PROVE  Answered(Append(PruneCrashes(c), 0), s, 0)
<1> DEFINE q == PruneCrashes(c)
           k == Len(s) - 1
<1>1. q \in Seq(Age) /\ Len(q) \in 0..Len(c) /\ Len(c) \in Nat
  BY PruneType, PruneTail
<1>2. \A i \in 1..Len(q) : Len(c) - Len(q) + i \in 1..Len(c) /\ q[i] = c[Len(c) - Len(q) + i]
  BY PruneTail
<1>3. CASE Len(s) = 0
  BY <1>1, <1>3 DEF Answered
<1>4. CASE Len(s) # 0
  <2>1. k \in 0..Len(c) /\ Len(s) \in Nat /\ k + 1 = Len(s)
    BY <1>4 DEF Answered
  <2>2. ASSUME NEW i \in 1..k PROVE c[Len(c) - k + i] <= s[i] /\ c[Len(c) - k + i] <= CrashWindow
    <3>1. i \in 1..Len(s) /\ Len(c) - k + i \in 1..Len(c)
      BY <2>1
    <3>2. s[i] \in Age /\ c[Len(c) - k + i] \in Age
      BY <3>1
    <3>3. c[Len(c) - k + i] <= s[i] /\ s[i] <= CrashWindow
      BY <3>1 DEF Answered, Recent
    <3>4. s[i] \in Nat /\ c[Len(c) - k + i] \in Nat /\ CrashWindow \in Nat
      BY <3>2, Numbers
    <3> HIDE DEF k
    <3>5. QED
      BY <3>3, <3>4
  <2>3. k <= Len(q)
    <3> HIDE DEF k
    <3>1. QED
      BY <2>1, <2>2, PruneKeeps
  <2> HIDE DEF q, k
  <2>4. /\ Len(Append(q, 0)) = Len(q) + 1 /\ Append(q, 0)[Len(q) + 1] = 0
        /\ \A i \in 1..Len(q) : Append(q, 0)[i] = q[i]
    BY <1>1
  <2>5. ASSUME NEW i \in 1..Len(s) PROVE Append(q, 0)[Len(q) + 1 - Len(s) + i] <= s[i]
    <3>1. CASE i = Len(s)
      <4>1. Len(q) + 1 - Len(s) + i = Len(q) + 1
        BY <1>1, <2>1, <3>1
      <4>2. s[i] \in Age
        OBVIOUS
      <4>3. QED
        BY <2>4, <4>1, <4>2, Numbers
    <3>2. CASE i # Len(s)
      <4>a. Len(q) \in Nat /\ k \in Nat /\ i \in Nat
        BY <1>1, <2>1
      <4>1. i \in 1..k /\ Len(q) + 1 - Len(s) + i = Len(q) - k + i /\ Len(q) - k + i \in 1..Len(q)
        BY <2>1, <2>3, <3>2, <4>a
      <4>2. Len(c) - Len(q) + (Len(q) - k + i) = Len(c) - k + i
        BY <1>1, <2>1, <4>1
      <4>3. q[Len(q) - k + i] = c[Len(c) - k + i]
        BY <1>2, <4>1, <4>2
      <4>4. QED
        BY <2>2, <2>4, <4>1, <4>3
    <3>3. QED
      BY <3>1, <3>2
  <2>6. Len(s) <= Len(q) + 1 /\ Len(q) + 1 \in Nat
    BY <1>1, <2>1, <2>3
  <2> DEFINE a == Append(q, 0)
  <2>a. \A i \in 1..Len(s) : a[Len(q) + 1 - Len(s) + i] <= s[i]
    BY <2>5
  <2>b. Len(a) = Len(q) + 1
    BY <2>4
  <2> HIDE DEF a
  <2>7. Answered(a, s, 0)
    BY <2>1, <2>6, <2>a, <2>b, AllAnswered
  <2>8. QED
    BY <2>7 DEF q, a
<1>5. QED
  BY <1>3, <1>4

(* Attempts and crashes grow older together; the oldest attempts go.       *)
LEMMA TimeKeeps ==
  ASSUME NEW c \in Seq(Age), NEW s \in Seq(Age), NEW d \in {0, 1}, Ordered(s), Answered(c, s, d)
  PROVE  LET u == PruneCrashes(AllOlder(s))
         IN  /\ Ordered(u) /\ Recent(u) /\ Len(u) <= Len(s)
             /\ Answered(AllOlder(c), u, d)
<1> DEFINE t == AllOlder(s)
           b == AllOlder(c)
           u == PruneCrashes(t)
<1>1. /\ t \in Seq(Age) /\ Len(t) = Len(s) /\ \A i \in 1..Len(s) : t[i] = Older(s[i])
      /\ b \in Seq(Age) /\ Len(b) = Len(c) /\ \A i \in 1..Len(c) : b[i] = Older(c[i])
      /\ Len(s) \in Nat /\ Len(c) \in Nat
  BY OlderType DEF AllOlder
<1>2. \A x, y \in Age : x <= y => Older(x) <= Older(y)
  BY Numbers DEF Older
<1> HIDE DEF t, b
<1>3. Ordered(t)
  BY <1>1, <1>2 DEF Ordered
<1>4. u \in Seq(Age) /\ Len(u) \in 0..Len(s) /\ Ordered(u) /\ Recent(u)
  BY <1>1, <1>3, PruneType, PruneTail, PruneOrdered
<1>5. \A i \in 1..Len(u) : Len(s) - Len(u) + i \in 1..Len(s) /\ u[i] = t[Len(s) - Len(u) + i]
  BY <1>1, PruneTail
<1> HIDE DEF u
<1>6. Len(u) - d <= Len(b)
  BY <1>1, <1>4 DEF Answered
<1>7. ASSUME NEW i \in 1..(Len(u) - d) PROVE b[Len(b) - (Len(u) - d) + i] <= u[i]
  <2> DEFINE j == Len(s) - Len(u) + i
             x == Len(c) - (Len(u) - d) + i
  <2>1. /\ i \in 1..Len(u) /\ j \in 1..(Len(s) - d) /\ j \in 1..Len(s)
        /\ Len(c) - (Len(s) - d) + j = x
    BY <1>1, <1>4
  <2>2. x \in 1..Len(c)
    BY <1>1, <1>4, <1>6
  <2> HIDE DEF j, x
  <2>3. c[x] <= s[j]
    BY <2>1 DEF Answered
  <2>a. c[x] \in Age
    BY <2>2
  <2>b. s[j] \in Age
    BY <2>1
  <2>4. c[x] \in Age /\ s[j] \in Age
    BY <2>a, <2>b
  <2>5. u[i] = Older(s[j]) /\ b[x] = Older(c[x])
    BY <1>1, <1>5, <2>1, <2>2 DEF j
  <2>6. QED
    BY <1>1, <1>2, <2>3, <2>4, <2>5 DEF x
<1>8. QED
  BY <1>4, <1>6, <1>7 DEF Answered, u, t, b

(* What each observation makes of the crashes and of the child.            *)
LEMMA Crashes ==
  ASSUME NEW p \in Policy
  PROVE  /\ Failure(p).crashTimes = Append(PruneCrashes(p.crashTimes), 0)
         /\ ~ Failure(p).childRunning
         /\ Failure(p).status = "WaitingToRestart" => Len(Failure(p).crashTimes) < CrashLimit
         /\ \A c : /\ ~ Exited(p, c).childRunning
                   /\ Exited(p, c).status = "WaitingToRestart" => Exited(p, c) = Failure(p)
         /\ Started(p).crashTimes = p.crashTimes /\ Started(p).childRunning
         /\ Started(p).status # "WaitingToRestart"
         /\ OneTickLater(p).crashTimes = AllOlder(p.crashTimes)
         /\ OneTickLater(p).childRunning = p.childRunning /\ OneTickLater(p).status = p.status
         /\ ShutdownRequested(p).crashTimes = p.crashTimes
         /\ ShutdownRequested(p).childRunning = p.childRunning
         /\ ShutdownRequested(p).status # "WaitingToRestart"
<1> USE DEF Policy
<1>1. /\ Failure(p).crashTimes = Append(PruneCrashes(p.crashTimes), 0)
      /\ ~ Failure(p).childRunning
  BY DEF Failure
<1>2. Failure(p).status = "WaitingToRestart" => Len(Failure(p).crashTimes) < CrashLimit
  <2> DEFINE n == Len(Append(PruneCrashes(p.crashTimes), 0))
  <2>1. n \in Nat
    BY PruneType
  <2>2. CrashLimit \in Nat
    BY PolicyAssumption DEF CrashLimit
  <2>3. Failure(p).status = "WaitingToRestart" => ~ (n >= CrashLimit)
    BY DEF Failure
  <2> HIDE DEF n
  <2>4. QED
    BY <1>1, <2>1, <2>2, <2>3 DEF n
<1>3. ASSUME NEW c
      PROVE  /\ ~ Exited(p, c).childRunning
             /\ Exited(p, c).status = "WaitingToRestart" => Exited(p, c) = Failure(p)
  BY <1>1 DEF Exited
<1>4. /\ Started(p).crashTimes = p.crashTimes /\ Started(p).childRunning
      /\ Started(p).status # "WaitingToRestart"
  BY DEF Started
<1>5. /\ OneTickLater(p).crashTimes = AllOlder(p.crashTimes)
      /\ OneTickLater(p).childRunning = p.childRunning /\ OneTickLater(p).status = p.status
  BY DEF OneTickLater
<1>6. /\ ShutdownRequested(p).crashTimes = p.crashTimes
      /\ ShutdownRequested(p).childRunning = p.childRunning
      /\ ShutdownRequested(p).status # "WaitingToRestart"
  BY DEF ShutdownRequested
<1>7. QED
  BY <1>1, <1>2, <1>3, <1>4, <1>5, <1>6

(* A heartbeat or a tick leaves the crashes as they are, or forgets them   *)
(* all in the step that notes that the child is healthy.                   *)
LEMMA Forgetting ==
  ASSUME NEW p \in Policy, NEW q \in {Heartbeat(p), Tick(p)}
  PROVE  /\ q.childRunning = p.childRunning
         /\ q.status \in {p.status, "StoppingHungChild"}
         /\ \/ q.crashTimes = p.crashTimes /\ (q.healthyResetApplied => p.healthyResetApplied)
            \/ q.crashTimes = <<>> /\ q.healthyResetApplied /\ ~ p.healthyResetApplied
  BY DEF Policy, Heartbeat, Tick, Settled

(***************************************************************************)
(* Every step keeps the policy's child where StageInv has it.              *)
(***************************************************************************)
LEMMA StageStep == SupervisorInv /\ StageInv /\ [Next]_vars => StageInv'
<1> SUFFICES ASSUME SupervisorInv, StageInv, [Next]_vars PROVE StageInv'
  OBVIOUS
<1>p. policy \in Policy
  BY DEF SupervisorInv, TypeOK
<1> USE <1>p DEF StageInv, process, loop, Return, Fail, JudgeAtTop, Judge
<1>1. CASE Begin
  BY <1>1 DEF Begin
<1>2. CASE TopShutdown
  BY <1>2, Crashes DEF TopShutdown
<1>3. CASE ShutdownExit
  <2>1. policy' = Exited(policy, code) /\ pc' = "returned"
    BY <1>3 DEF ShutdownExit
  <2>2. ~ Exited(policy, code).childRunning
    BY Crashes
  <2>3. QED
    BY <2>1, <2>2
<1>4. CASE WaitForExitExpires
  BY <1>4 DEF WaitForExitExpires
<1>5. CASE ForceTerminate
  BY <1>5 DEF ForceTerminate
<1>6. CASE ForcedExitExpires
  BY <1>6 DEF ForcedExitExpires
<1>7. CASE StartFails
  BY <1>7, Crashes DEF StartFails
<1>8. CASE StartChild
  BY <1>8, Crashes DEF StartChild
<1>9. CASE LoopTest
  BY <1>9 DEF LoopTest, SupervisorInv, WatchInv, Watching
<1>10. CASE WaitExited
  <2> DEFINE p == Exited(policy, code)
  <2>1. policy' = p
    BY <1>10 DEF WaitExited
  <2>2. ~ p.childRunning /\ p.status \in {"Stopped", "Cutoff", "WaitingToRestart"}
    BY Crashes, Decisions
  <2> HIDE DEF p
  <2>3. QED
    BY <1>10, <2>1, <2>2 DEF WaitExited, p
<1>11. CASE WaitHeartbeat
  <2> DEFINE p == Heartbeat(policy)
  <2>1. policy' = p /\ policy.childRunning
    BY <1>11 DEF WaitHeartbeat
  <2>2. p.childRunning /\ p.status \in {policy.status, "StoppingHungChild"}
    BY <2>1, Forgetting
  <2> HIDE DEF p
  <2>3. QED
    BY <1>11, <2>1, <2>2 DEF WaitHeartbeat, p
<1>12. CASE WaitTimedOut
  <2> DEFINE p == Tick(policy)
  <2>1. policy' = p /\ policy.childRunning
    BY <1>12 DEF WaitTimedOut
  <2>2. p.childRunning /\ p.status \in {policy.status, "StoppingHungChild"}
    BY <2>1, Forgetting
  <2> HIDE DEF p
  <2>3. QED
    BY <1>12, <2>1, <2>2 DEF WaitTimedOut, p
<1>13. CASE WaitFails
  BY <1>13 DEF WaitFails
<1>14. CASE HungExit
  <2> DEFINE p == Exited(policy, code)
  <2>1. policy' = p
    BY <1>14 DEF HungExit
  <2>2. ~ p.childRunning /\ p.status \in {"Stopped", "Cutoff", "WaitingToRestart"}
    BY Crashes, Decisions
  <2> HIDE DEF p
  <2>3. QED
    BY <1>14, <2>1, <2>2 DEF HungExit, p
<1>15. CASE AfterShutdown
  BY <1>15 DEF AfterShutdown
<1>16. CASE AfterRestart
  BY <1>16 DEF AfterRestart
<1>17. CASE AfterUnseenExit
  <2> DEFINE p == Exited(policy, lastExitCode)
  <2>1. policy' = p
    BY <1>17 DEF AfterUnseenExit
  <2>2. ~ p.childRunning /\ p.status \in {"Stopped", "Cutoff", "WaitingToRestart"}
    BY Crashes, Decisions
  <2> HIDE DEF p
  <2>3. QED
    BY <1>17, <2>1, <2>2 DEF AfterUnseenExit, p
<1>18. CASE Wake
  BY <1>18 DEF Wake
<1>19. CASE ChildBeats
  BY <1>19 DEF ChildBeats
<1>20. CASE ChildExits
  BY <1>20 DEF ChildExits
<1>21. CASE RequestShutdown
  BY <1>21 DEF RequestShutdown
<1>22. CASE TimePasses
  BY <1>22, Crashes DEF TimePasses
<1>23. CASE Returned
  BY <1>23 DEF Returned, vars
<1>24. CASE UNCHANGED vars
  BY <1>24 DEF vars
<1>25. QED
  BY <1>1, <1>2, <1>3, <1>4, <1>5, <1>6, <1>7, <1>8, <1>9, <1>10, <1>11, <1>12, <1>13, <1>14, <1>15, <1>16, <1>17, <1>18, <1>19, <1>20, <1>21, <1>22, <1>23, <1>24 DEF Next, Run, Environment

(* A failure of the attempt that has not ended: the crash loop is cut off, *)
(* or there is room for one more attempt.                                  *)
LEMMA FailureKeeps ==
  ASSUME SupervisorInv, NEW s \in Seq(Age), Ordered(s), Recent(s), Len(s) <= CrashLimit,
         Answered(policy.crashTimes, s, 1), starts' = s, policy' = Failure(policy),
         policy'.status # "WaitingToRestart" => pc' = "returned"
  PROVE  AnswerInv'
<1>1. policy \in Policy /\ policy.crashTimes \in Seq(Age)
  BY DEF SupervisorInv, TypeOK, Policy
<1>2. Answered(policy'.crashTimes, starts', 0) /\ ~ policy'.childRunning
  <2>1. Answered(Append(PruneCrashes(policy.crashTimes), 0), s, 0)
    BY <1>1, FailureAnswers
  <2>2. /\ Failure(policy).crashTimes = Append(PruneCrashes(policy.crashTimes), 0)
        /\ ~ Failure(policy).childRunning
    BY <1>1, Crashes
  <2>3. QED
    BY <2>1, <2>2
<1>3. pc' # "returned" => Len(policy'.crashTimes) < CrashLimit
  BY <1>1, Crashes
<1>4. QED
  BY <1>2, <1>3 DEF AnswerInv

(* What Judge and JudgeAtTop make of an exit.                              *)
LEMMA ExitKeeps ==
  ASSUME SupervisorInv, AnswerInv, pc # "returned", policy.childRunning, starts' = starts,
         NEW c, policy' = Exited(policy, c),
         policy'.status # "WaitingToRestart" => pc' = "returned"
  PROVE  AnswerInv'
<1>1. policy \in Policy /\ starts \in Seq(Age)
  BY DEF SupervisorInv, TypeOK
<1>2. CASE policy'.status = "WaitingToRestart"
  <2>1. policy' = Failure(policy)
    BY <1>1, <1>2, Crashes
  <2>2. QED
    BY <1>1, <1>2, <2>1, FailureKeeps DEF AnswerInv
<1>3. CASE policy'.status # "WaitingToRestart"
  BY <1>3 DEF AnswerInv
<1>4. QED
  BY <1>2, <1>3

(***************************************************************************)
(* Every step preserves AnswerInv.                                         *)
(***************************************************************************)
LEMMA AnswerStep == SupervisorInv /\ StageInv /\ AnswerInv /\ [Next]_vars => AnswerInv'
<1> SUFFICES ASSUME SupervisorInv, StageInv, AnswerInv, [Next]_vars PROVE AnswerInv'
  OBVIOUS
<1>p. /\ policy \in Policy /\ policy.crashTimes \in Seq(Age) /\ starts \in Seq(Age)
      /\ policy.childRunning \in BOOLEAN
  BY DEF SupervisorInv, TypeOK, Policy
<1>l. CrashLimit \in Nat \ {0}
  BY PolicyAssumption DEF CrashLimit
<1>s. pc = "top" /\ ~ shutdown =>
        /\ ~ policy.childRunning /\ Answered(policy.crashTimes, starts, 0)
        /\ Append(starts, 0) \in Seq(Age)
        /\ Ordered(Append(starts, 0)) /\ Recent(Append(starts, 0))
        /\ Answered(policy.crashTimes, Append(starts, 0), 1)
        /\ Len(Append(starts, 0)) <= CrashLimit
  <2> SUFFICES ASSUME pc = "top", ~ shutdown
               PROVE  /\ ~ policy.childRunning /\ Answered(policy.crashTimes, starts, 0)
                      /\ Append(starts, 0) \in Seq(Age)
                      /\ Ordered(Append(starts, 0)) /\ Recent(Append(starts, 0))
                      /\ Answered(policy.crashTimes, Append(starts, 0), 1)
                      /\ Len(Append(starts, 0)) <= CrashLimit
    OBVIOUS
  <2>1. ~ policy.childRunning
    BY DEF StageInv
  <2>2. /\ Answered(policy.crashTimes, starts, 0) /\ Len(policy.crashTimes) < CrashLimit
        /\ Ordered(starts) /\ Recent(starts)
    BY <2>1 DEF AnswerInv
  <2>3. Append(starts, 0) \in Seq(Age) /\ Len(Append(starts, 0)) = Len(starts) + 1
    BY <1>p, OlderType
  <2>4. Len(starts) <= Len(policy.crashTimes)
    <3>1. Len(starts) - 0 = Len(starts)
      BY <1>p
    <3>2. QED
      BY <2>2, <3>1 DEF Answered
  <2>5. Len(starts) + 1 <= CrashLimit
    BY <1>p, <1>l, <2>2, <2>4
  <2>6. QED
    BY <1>p, <2>1, <2>2, <2>3, <2>5, StartKeeps
<1> USE DEF process, loop, Return, Fail
<1>1. CASE Begin
  BY <1>1 DEF Begin, AnswerInv
<1>2. CASE TopShutdown
  <2>1. /\ policy' = ShutdownRequested(policy) /\ starts' = starts /\ pc # "returned"
    BY <1>2 DEF TopShutdown
  <2>2. policy'.crashTimes = policy.crashTimes /\ policy'.childRunning = policy.childRunning
    BY <1>p, <2>1, Crashes
  <2>3. QED
    BY <2>1, <2>2 DEF AnswerInv
<1>3. CASE ShutdownExit
  BY <1>3 DEF ShutdownExit, AnswerInv
<1>4. CASE WaitForExitExpires
  BY <1>4 DEF WaitForExitExpires, AnswerInv
<1>5. CASE ForceTerminate
  BY <1>5 DEF ForceTerminate, AnswerInv
<1>6. CASE ForcedExitExpires
  BY <1>6 DEF ForcedExitExpires, AnswerInv
<1>7. CASE StartFails
  <2>1. policy' = Failure(policy) /\ starts' = Append(starts, 0)
    BY <1>7 DEF StartFails
  <2>2. policy'.status # "WaitingToRestart" => pc' = "returned"
    BY <1>7 DEF StartFails, JudgeAtTop
  <2>3. QED
    BY <1>7, <1>s, <2>1, <2>2, FailureKeeps DEF StartFails
<1>8. CASE StartChild
  <2>1. policy' = Started(policy) /\ starts' = Append(starts, 0) /\ pc = "top" /\ ~ shutdown
    BY <1>8 DEF StartChild
  <2>2. policy'.crashTimes = policy.crashTimes /\ policy'.childRunning
    BY <1>p, <2>1, Crashes
  <2>3. Len(policy.crashTimes) < CrashLimit
    BY <2>1 DEF AnswerInv
  <2>4. QED
    BY <1>s, <2>1, <2>2, <2>3 DEF AnswerInv
<1>9. CASE LoopTest
  BY <1>9 DEF LoopTest, AnswerInv
<1>10. CASE WaitExited
  <2> DEFINE p == Exited(policy, code)
  <2>1. policy' = p /\ starts' = starts /\ pc # "returned" /\ policy.childRunning
    BY <1>10 DEF WaitExited, Judge, StageInv
  <2>2. p.status \in {"Stopped", "Cutoff", "WaitingToRestart"}
    BY <1>p, Decisions
  <2> HIDE DEF p
  <2>3. policy'.status # "WaitingToRestart" => pc' = "returned"
    BY <1>10, <2>1, <2>2 DEF WaitExited, Judge, p
  <2>4. QED
    BY <2>1, <2>3, ExitKeeps DEF p
<1>11. CASE WaitHeartbeat
  <2> DEFINE p == Heartbeat(policy)
  <2>1. policy' = p /\ policy.childRunning /\ pc # "returned" /\ Forget(policy')
    BY <1>11 DEF WaitHeartbeat, Judge, StageInv
  <2>2. /\ p.childRunning
        /\ \/ p.crashTimes = policy.crashTimes /\ (p.healthyResetApplied => policy.healthyResetApplied)
           \/ p.crashTimes = <<>> /\ p.healthyResetApplied /\ ~ policy.healthyResetApplied
    BY <1>p, <2>1, Forgetting
  <2> HIDE DEF p
  <2>3. \/ policy'.crashTimes = policy.crashTimes /\ starts' = starts
        \/ policy'.crashTimes = <<>> /\ starts' = <<>>
    BY <2>1, <2>2 DEF Forget
  <2>4. QED
    BY <1>l, <2>1, <2>2, <2>3, NothingToAnswer DEF AnswerInv
<1>12. CASE WaitTimedOut
  <2> DEFINE p == Tick(policy)
  <2>1. policy' = p /\ policy.childRunning /\ pc # "returned" /\ Forget(policy')
    BY <1>12 DEF WaitTimedOut, Judge, StageInv
  <2>2. /\ p.childRunning
        /\ \/ p.crashTimes = policy.crashTimes /\ (p.healthyResetApplied => policy.healthyResetApplied)
           \/ p.crashTimes = <<>> /\ p.healthyResetApplied /\ ~ policy.healthyResetApplied
    BY <1>p, <2>1, Forgetting
  <2> HIDE DEF p
  <2>3. \/ policy'.crashTimes = policy.crashTimes /\ starts' = starts
        \/ policy'.crashTimes = <<>> /\ starts' = <<>>
    BY <2>1, <2>2 DEF Forget
  <2>4. QED
    BY <1>l, <2>1, <2>2, <2>3, NothingToAnswer DEF AnswerInv
<1>13. CASE WaitFails
  BY <1>13 DEF WaitFails, AnswerInv
<1>14. CASE HungExit
  <2> DEFINE p == Exited(policy, code)
  <2>1. policy' = p /\ starts' = starts /\ pc # "returned" /\ policy.childRunning
    BY <1>14 DEF HungExit, Judge, StageInv
  <2>2. p.status \in {"Stopped", "Cutoff", "WaitingToRestart"}
    BY <1>p, Decisions
  <2> HIDE DEF p
  <2>3. policy'.status # "WaitingToRestart" => pc' = "returned"
    BY <1>14, <2>1, <2>2 DEF HungExit, Judge, p
  <2>4. QED
    BY <2>1, <2>3, ExitKeeps DEF p
<1>15. CASE AfterShutdown
  BY <1>15 DEF AfterShutdown, AnswerInv
<1>16. CASE AfterRestart
  BY <1>16 DEF AfterRestart, AnswerInv
<1>17. CASE AfterUnseenExit
  <2> DEFINE p == Exited(policy, lastExitCode)
  <2>1. policy' = p /\ starts' = starts /\ pc # "returned" /\ policy.childRunning
    BY <1>17 DEF AfterUnseenExit, Judge, StageInv
  <2>2. p.status \in {"Stopped", "Cutoff", "WaitingToRestart"}
    BY <1>p, Decisions
  <2> HIDE DEF p
  <2>3. policy'.status # "WaitingToRestart" => pc' = "returned"
    BY <1>17, <2>1, <2>2 DEF AfterUnseenExit, JudgeAtTop, p
  <2>4. QED
    BY <2>1, <2>3, ExitKeeps DEF p
<1>18. CASE Wake
  BY <1>18 DEF Wake, AnswerInv
<1>19. CASE ChildBeats
  BY <1>19 DEF ChildBeats, AnswerInv
<1>20. CASE ChildExits
  BY <1>20 DEF ChildExits, AnswerInv
<1>21. CASE RequestShutdown
  BY <1>21 DEF RequestShutdown, AnswerInv
<1>22. CASE TimePasses
  <2> DEFINE u == PruneCrashes(AllOlder(starts))
  <2>1. /\ policy' = OneTickLater(policy) /\ starts' = u
        /\ pc # "returned" /\ pc' = pc
    BY <1>22 DEF TimePasses
  <2>2. /\ policy'.crashTimes = AllOlder(policy.crashTimes)
        /\ policy'.childRunning = policy.childRunning
    BY <1>p, <2>1, Crashes
  <2>3. Len(AllOlder(policy.crashTimes)) = Len(policy.crashTimes)
    BY <1>p DEF AllOlder
  <2>4. ASSUME NEW d \in {0, 1}, Answered(policy.crashTimes, starts, d)
        PROVE  /\ Ordered(u) /\ Recent(u) /\ Len(u) <= Len(starts)
               /\ Answered(AllOlder(policy.crashTimes), u, d)
    BY <1>p, <2>4, TimeKeeps DEF AnswerInv
  <2>5. Len(u) \in Nat /\ Len(starts) \in Nat
    BY <1>p, OlderType, PruneType
  <2> HIDE DEF u
  <2>6. Len(u) <= Len(starts) => Len(u) <= CrashLimit
    BY <1>l, <2>5 DEF AnswerInv
  <2>7. QED
    BY <1>p, <2>1, <2>2, <2>3, <2>4, <2>6 DEF AnswerInv
<1>23. CASE Returned
  BY <1>23 DEF Returned, vars, AnswerInv
<1>24. CASE UNCHANGED vars
  BY <1>24 DEF vars, AnswerInv
<1>25. QED
  BY <1>1, <1>2, <1>3, <1>4, <1>5, <1>6, <1>7, <1>8, <1>9, <1>10, <1>11, <1>12, <1>13, <1>14, <1>15, <1>16, <1>17, <1>18, <1>19, <1>20, <1>21, <1>22, <1>23, <1>24 DEF Next, Run, Environment

(***************************************************************************)
(* Between two healthy resets no window of the policy sees more attempts   *)
(* to start the child than its limit, whatever the child does, however     *)
(* the starts fail and whatever the intervals are.                         *)
(***************************************************************************)
THEOREM CrashLoopIsCutOff == Spec => []RestartsAreBounded
<1>1. Init => StageInv /\ AnswerInv
  <2> SUFFICES ASSUME Init PROVE StageInv /\ AnswerInv
    OBVIOUS
  <2>1. policy = NewPolicy /\ starts = <<>> /\ pc = "begin"
    BY DEF Init
  <2>2. ~ policy.childRunning /\ policy.crashTimes = <<>> /\ policy.status = "Idle"
    BY <2>1 DEF NewPolicy
  <2>3. CrashLimit \in Nat \ {0}
    BY PolicyAssumption DEF CrashLimit
  <2>4. QED
    BY <2>1, <2>2, <2>3, NothingToAnswer DEF StageInv, AnswerInv
<1>2. SupervisorInv /\ StageInv /\ AnswerInv /\ [Next]_vars => (StageInv /\ AnswerInv)'
  BY StageStep, AnswerStep
<1>3. AnswerInv => RestartsAreBounded
  BY DEF AnswerInv, RestartsAreBounded
<1>4. QED
  BY <1>1, <1>2, <1>3, SupervisorInvariant, PTL DEF Spec

-----------------------------------------------------------------------------
(***************************************************************************)
(* Any number of launches, in any order and killed at any time: there is   *)
(* one agent.                                                              *)
(***************************************************************************)
(* The handles of the mutex are those of the agent, and of the launches    *)
(* that found the mutex and are about to close theirs.  An agent has one   *)
(* from the moment it becomes one, which is why nobody else does.          *)
HandlesAreAccounted ==
  mutex = {p \in Process : p \in Agent \/ progress[p] = "exists"}

InstanceInv == InstanceTypeOK /\ HandlesAreAccounted /\ OneAgent

AgentStages == {"event", "undo", "start", "run", "stop", "unlock"}

(* A step of p moves p alone; it keeps the agent unless p becomes one.     *)
LEMMA StepOfOne ==
  ASSUME InstanceInv, NEW p \in Process, NEW stage \in Stage,
         Goto(p, stage),
         \/ mutex' = mutex /\ (stage \in AgentStages <=> progress[p] \in AgentStages)
                           /\ (stage = "exists" <=> progress[p] = "exists")
         \/ /\ mutex' = mutex \ {p}
            /\ stage \notin AgentStages /\ stage # "exists"
         \/ /\ mutex' = mutex \cup {p} /\ mutex = {}
            /\ stage \in AgentStages /\ stage # "exists"
         \/ /\ mutex' = mutex \cup {p}
            /\ stage = "exists" /\ progress[p] \notin AgentStages
  PROVE  /\ progress' \in [Process -> Stage]
         /\ mutex' \subseteq Process
         /\ HandlesAreAccounted'
         /\ OneAgent'
<1> USE DEF InstanceInv, InstanceTypeOK
<1>1. progress' \in [Process -> Stage]
  BY DEF Goto
<1>2. \A q \in Process : progress'[q] = IF q = p THEN stage ELSE progress[q]
  BY DEF Goto
<1>3. mutex' \subseteq Process
  OBVIOUS
<1>4. \A q \in Process : q \in mutex <=> (progress[q] \in AgentStages \/ progress[q] = "exists")
  BY DEF HandlesAreAccounted, Agent, AgentStages
<1>5. \A q \in Process :
        q \in mutex' <=> (progress'[q] \in AgentStages \/ progress'[q] = "exists")
  BY <1>2, <1>4 DEF AgentStages
<1>6. HandlesAreAccounted'
  BY <1>3, <1>5 DEF HandlesAreAccounted, Agent, AgentStages
<1>7. OneAgent'
  <2>1. \A q, r \in Process :
          progress[q] \in AgentStages /\ progress[r] \in AgentStages => q = r
    BY DEF OneAgent, Agent, AgentStages
  <2>2. \A q, r \in Process :
          progress'[q] \in AgentStages /\ progress'[r] \in AgentStages => q = r
    <3>1. \/ stage \notin AgentStages
          \/ progress[p] \in AgentStages
          \/ \A q \in Process : progress[q] \notin AgentStages
      BY <1>4 DEF AgentStages
    <3>. QED BY <1>2, <2>1, <3>1
  <2>. QED BY <2>2 DEF OneAgent, Agent, AgentStages
<1>. QED BY <1>1, <1>3, <1>6, <1>7

(* The launches start in the invariant, *)
LEMMA InstanceInitHolds == InstanceInit => InstanceInv
  BY DEF InstanceInit, InstanceInv, InstanceTypeOK, HandlesAreAccounted, OneAgent, Agent, Stage

(* and every step of a launch keeps it. *)
LEMMA InstanceStepHolds == InstanceInv /\ [InstanceNext]_instanceVars => InstanceInv'
<1> SUFFICES ASSUME InstanceInv, [InstanceNext]_instanceVars PROVE InstanceInv'
  OBVIOUS
<1>1. CASE UNCHANGED instanceVars
  BY <1>1 DEF InstanceInv, InstanceTypeOK, HandlesAreAccounted, OneAgent, Agent, instanceVars
<1>2. CASE InstanceNext
  <2> PICK p \in Process :
        \/ Launch(p) \/ Acquire(p) \/ CreateMsgWindow(p) \/ OpenDashboard(p)
        \/ LeaveLoop(p) \/ CloseHandles(p) \/ Exit(p) \/ Kill(p) \/ RequestOpenDashboard(p)
    BY <1>2 DEF InstanceNext
  <2> USE DEF At, Stage, AgentStages
  <2>1. CASE Launch(p)
    <3> PICK stage \in {"acquire", "gone"} : Goto(p, stage)
      BY <2>1 DEF Launch
    <3>. QED BY <2>1, StepOfOne DEF Launch, InstanceInv, InstanceTypeOK
  <2>2. CASE CreateMutex(p)
    <3>1. CASE mutex' = mutex \cup {p} /\ mutex = {} /\ Goto(p, "event")
      BY <2>2, <3>1, StepOfOne DEF CreateMutex, InstanceInv, InstanceTypeOK
    <3>2. CASE mutex' = mutex \cup {p} /\ mutex # {} /\ Goto(p, "exists")
      BY <2>2, <3>2, StepOfOne DEF CreateMutex, InstanceInv, InstanceTypeOK
    <3>3. CASE mutex' = mutex /\ Goto(p, "gone")
      BY <2>2, <3>3, StepOfOne DEF CreateMutex, InstanceInv, InstanceTypeOK
    <3>. QED BY <2>2, <3>1, <3>2, <3>3 DEF CreateMutex
  <2>3. CASE CloseOpened(p)
    BY <2>3, StepOfOne DEF CloseOpened, InstanceInv, InstanceTypeOK
  <2>4. CASE CreateEvent(p)
    <3> PICK stage \in {"start", "undo"} : Goto(p, stage)
      BY <2>4 DEF CreateEvent
    <3>. QED BY <2>4, StepOfOne DEF CreateEvent, InstanceInv, InstanceTypeOK
  <2>5. CASE CloseMutex(p)
    BY <2>5, StepOfOne DEF CloseMutex, InstanceInv, InstanceTypeOK
  <2>6. CASE CreateMsgWindow(p)
    BY <2>6, StepOfOne DEF CreateMsgWindow, InstanceInv, InstanceTypeOK
  <2>7. CASE OpenDashboard(p)
    BY <2>7 DEF OpenDashboard, InstanceInv, InstanceTypeOK, HandlesAreAccounted, OneAgent, Agent
  <2>8. CASE LeaveLoop(p)
    BY <2>8, StepOfOne DEF LeaveLoop, InstanceInv, InstanceTypeOK
  <2>9. CASE CloseEventHandle(p)
    BY <2>9, StepOfOne DEF CloseEventHandle, InstanceInv, InstanceTypeOK
  <2>10. CASE CloseMutexHandle(p)
    BY <2>10, StepOfOne DEF CloseMutexHandle, InstanceInv, InstanceTypeOK
  <2>11. CASE Exit(p)
    BY <2>11, StepOfOne DEF Exit, CloseEverything, InstanceInv, InstanceTypeOK
  <2>12. CASE Kill(p)
    BY <2>12, StepOfOne DEF Kill, CloseEverything, InstanceInv, InstanceTypeOK
  <2>13. CASE OpenEvent(p)
    <3> PICK stage \in {"signal", "gone"} : Goto(p, stage)
      BY <2>13 DEF OpenEvent
    <3>. QED BY <2>13, StepOfOne DEF OpenEvent, InstanceInv, InstanceTypeOK
  <2>14. CASE SignalEvent(p)
    BY <2>14, StepOfOne DEF SignalEvent, InstanceInv, InstanceTypeOK
  <2>15. CASE PostToWindow(p)
    <3>1. posted' \in [Process -> SUBSET Process]
      BY <2>15 DEF PostToWindow, InstanceInv, InstanceTypeOK
    <3>. QED BY <2>15, <3>1, StepOfOne DEF PostToWindow, InstanceInv, InstanceTypeOK
  <2>. QED BY <2>1, <2>2, <2>3, <2>4, <2>5, <2>6, <2>7, <2>8, <2>9, <2>10, <2>11, <2>12,
              <2>13, <2>14, <2>15 DEF Acquire, CloseHandles, RequestOpenDashboard
<1>. QED BY <1>1, <1>2

(* The handles a process holds, its stage and the agent fit each other at  *)
(* every moment.                                                           *)
LEMMA InstanceInvariant == InstanceSpec => []InstanceInv
  BY InstanceInitHolds, InstanceStepHolds, PTL DEF InstanceSpec

(***************************************************************************)
(* One agent per session (README.md), for any number of launches: nobody   *)
(* takes the mutex of an agent that is still closing its handles, and a    *)
(* launch that opened the mutex never becomes a second owner.              *)
(***************************************************************************)
THEOREM SingleAgent == InstanceSpec => []OneAgent
  BY InstanceInvariant, PTL DEF InstanceInv

(***************************************************************************)
(* While an agent lives, everyone else who gets a handle of its mutex is   *)
(* about to give it back: the handles are exactly those of the agent and   *)
(* of the launches that found it.                                          *)
(***************************************************************************)
THEOREM MutexIsAccounted == InstanceSpec => [](InstanceTypeOK /\ HandlesAreAccounted)
  BY InstanceInvariant, PTL DEF InstanceInv
=============================================================================
