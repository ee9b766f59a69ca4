--------------------------- MODULE LibraryProofs ----------------------------
(***************************************************************************)
(* Theorems about the libraries under the servers: RuntimeState, for every *)
(* set of waiters, timeouts and values (the inductive invariant is         *)
(* RuntimeInv), CommandQueue, for every number of callers and owners, and  *)
(* ConfigStorage, for every set of workers and edits (StorageIInv).        *)
(***************************************************************************)
EXTENDS RuntimeState, CommandQueue, ConfigStorage, FiniteSetTheorems, TLAPS

(***************************************************************************)
(* The inductive invariant, of the snapshot and of the answers.            *)
(***************************************************************************)
RuntimeInv == TypeOK /\ ErrorIsCurrent /\ SleepersHaveNoNews /\ AnswerIsRight

(* GetTickCount is a number below the wrap. *)
LEMMA ClockType == GetTickCount \in 0..(Wrap - 1) \/ ticks \notin Nat
  BY RuntimeAssumption DEF GetTickCount

(***************************************************************************)
(* What an operation on the snapshot does to the waiters: nobody is left   *)
(* asleep.                                                                 *)
(***************************************************************************)
LEMMA CommitWakes ==
  ASSUME TypeOK, NEW changed \in Snapshots, Commit(changed)
  PROVE  /\ snapshot' \in Snapshots /\ wait' \in [Waiter -> Waits]
         /\ \A w \in Waiter : wait'[w].pc # "asleep"
         /\ snapshot' = [changed EXCEPT !.revision = snapshot.revision + 1]
         /\ UNCHANGED <<ticks, answer>>
<1>1. snapshot' \in Snapshots
  BY RuntimeAssumption DEF Commit, TypeOK, Snapshots
<1>2. \A w \in Waiter : AwakenAll[w] \in Waits /\ AwakenAll[w].pc # "asleep"
  BY DEF TypeOK, AwakenAll, Waits
<1>3. QED
  BY <1>1, <1>2 DEF Commit, AwakenAll

(***************************************************************************)
(* A change, with what it does to the lifecycle and the error.             *)
(***************************************************************************)
LEMMA ChangeInv ==
  ASSUME RuntimeInv, Change
  PROVE  /\ RuntimeInv'
         /\ snapshot'.revision > snapshot.revision
         /\ snapshot'.lastReport >= snapshot.lastReport
         /\ ~ Stopping
<1> USE DEF RuntimeInv
<1>t. /\ snapshot \in Snapshots /\ resumeState \in Lifecycle
      /\ snapshot.revision \in Nat /\ snapshot.lastReport \in Nat
  BY RuntimeAssumption DEF TypeOK, Snapshots
<1>1. SUFFICES
        ASSUME NEW changed \in Snapshots, Commit(changed), ~ Stopping,
               changed.lastReport >= snapshot.lastReport,
               resumeState' \in Lifecycle, ErrorIsCurrent'
        PROVE  /\ RuntimeInv'
               /\ snapshot'.revision > snapshot.revision
               /\ snapshot'.lastReport >= snapshot.lastReport
               /\ ~ Stopping
  <2> DEFINE Goal == /\ RuntimeInv'
                     /\ snapshot'.revision > snapshot.revision
                     /\ snapshot'.lastReport >= snapshot.lastReport
                     /\ ~ Stopping
  <2> HIDE DEF Goal
  <2>0. ASSUME NEW changed \in Snapshots, Commit(changed), ~ Stopping,
               changed.lastReport >= snapshot.lastReport,
               resumeState' \in Lifecycle, ErrorIsCurrent'
        PROVE  Goal
    BY <2>0, <1>1 DEF Goal
  <2>1. ASSUME NEW l \in Lifecycle, TransitionTo(l) PROVE Goal
    <3> DEFINE c == [snapshot EXCEPT !.lifecycle = l, !.lastError = NoError]
    <3>1. c \in Snapshots /\ c.lastReport = snapshot.lastReport
      BY <1>t DEF Snapshots
    <3>2. l \notin {"paused_session", "error", "stopping"} /\ ~ Stopping
      BY <2>1, <1>t DEF TransitionTo, NextLifecycle, Stopping, Lifecycle, Snapshots
    <3>3. Commit(c) /\ resumeState' = resumeState
      BY <2>1 DEF TransitionTo
    <3>4. snapshot'.lifecycle = l /\ snapshot'.lastError = NoError
      BY <3>1, <3>3, CommitWakes, <1>t DEF Snapshots
    <3>5. ErrorIsCurrent'
      BY <3>2, <3>4 DEF ErrorIsCurrent
    <3> HIDE DEF c
    <3>6. QED
      BY <2>0, <3>1, <3>2, <3>3, <3>5, <1>t
  <2>2. ASSUME PauseSession PROVE Goal
    <3> DEFINE c == [snapshot EXCEPT !.lifecycle = "paused_session"]
    <3>1. c \in Snapshots /\ c.lastReport = snapshot.lastReport
      BY <1>t DEF Snapshots, Lifecycle
    <3>2. snapshot.lifecycle \notin {"paused_session", "stopping"} /\ ~ Stopping
      BY <2>2 DEF PauseSession, Stopping
    <3>3. /\ Commit(c) /\ resumeState' \in Lifecycle
          /\ resumeState' = "error" <=> snapshot.lifecycle = "error"
      BY <2>2, <1>t DEF PauseSession, Lifecycle, Snapshots
    <3>4. snapshot'.lifecycle = "paused_session" /\ snapshot'.lastError = snapshot.lastError
      BY <3>1, <3>3, CommitWakes, <1>t DEF Snapshots
    <3>5. ErrorIsCurrent'
      BY <3>2, <3>3, <3>4 DEF ErrorIsCurrent
    <3> HIDE DEF c
    <3>6. QED
      BY <2>0, <3>1, <3>2, <3>3, <3>5, <1>t
  <2>3. ASSUME ResumeSession PROVE Goal
    <3> DEFINE c == [snapshot EXCEPT !.lifecycle = resumeState]
    <3>1. c \in Snapshots /\ c.lastReport = snapshot.lastReport
      BY <1>t DEF Snapshots
    <3>2. /\ snapshot.lifecycle = "paused_session" /\ ~ Stopping
          /\ resumeState \notin {"paused_session", "stopping"}
      BY <2>3 DEF ResumeSession, Stopping
    <3>3. Commit(c) /\ resumeState' = resumeState
      BY <2>3 DEF ResumeSession
    <3>4. snapshot'.lifecycle = resumeState /\ snapshot'.lastError = snapshot.lastError
      BY <3>1, <3>3, CommitWakes, <1>t DEF Snapshots
    <3>5. ErrorIsCurrent'
      BY <3>2, <3>3, <3>4 DEF ErrorIsCurrent, Stopping
    <3> HIDE DEF c
    <3>6. QED
      BY <2>0, <3>1, <3>2, <3>3, <3>5, <1>t
  <2>4. ASSUME NEW e \in Error, SetError(e) PROVE Goal
    <3> DEFINE c == [snapshot EXCEPT !.lifecycle = "error", !.lastError = e]
    <3>1. c \in Snapshots /\ c.lastReport = snapshot.lastReport
      BY <1>t DEF Snapshots, Lifecycle
    <3>2. Commit(c) /\ resumeState' = resumeState /\ ~ Stopping
      BY <2>4 DEF SetError
    <3>3. snapshot'.lifecycle = "error" /\ snapshot'.lastError = e
      BY <3>1, <3>2, CommitWakes, <1>t DEF Snapshots
    <3>4. ErrorIsCurrent'
      BY <3>3, RuntimeAssumption DEF ErrorIsCurrent
    <3> HIDE DEF c
    <3>5. QED
      BY <2>0, <3>1, <3>2, <3>4, <1>t
  <2>5. ASSUME Stop PROVE Goal
    <3> DEFINE c == [snapshot EXCEPT !.lifecycle = "stopping"]
    <3>1. c \in Snapshots /\ c.lastReport = snapshot.lastReport
      BY <1>t DEF Snapshots, Lifecycle
    <3>2. Commit(c) /\ resumeState' = resumeState /\ ~ Stopping
      BY <2>5 DEF Stop
    <3>3. ErrorIsCurrent'
      BY <3>1, <3>2, CommitWakes, <1>t DEF ErrorIsCurrent, Stopping, Snapshots
    <3> HIDE DEF c
    <3>4. QED
      BY <2>0, <3>1, <3>2, <3>3, <1>t
  <2>6. ASSUME NEW c \in Snapshots, Commit(c), ~ Stopping, resumeState' = resumeState,
               c.lifecycle = snapshot.lifecycle, c.lastError = snapshot.lastError,
               c.lastReport >= snapshot.lastReport
        PROVE  Goal
    <3>1. snapshot'.lifecycle = snapshot.lifecycle /\ snapshot'.lastError = snapshot.lastError
      BY <2>6, CommitWakes DEF Snapshots
    <3>2. ErrorIsCurrent'
      BY <3>1, <2>6 DEF ErrorIsCurrent, Stopping
    <3>3. QED
      BY <2>0, <2>6, <3>2, <1>t
  <2>7. ASSUME NEW s \in Subsystem, NEW h \in Health, UpdateHealth(s, h) PROVE Goal
    <3> DEFINE c == [snapshot EXCEPT !.health[s] = h]
    <3>1. /\ c \in Snapshots /\ c.lifecycle = snapshot.lifecycle
          /\ c.lastError = snapshot.lastError /\ c.lastReport >= snapshot.lastReport
      BY <1>t DEF Snapshots
    <3>2. QED
      BY <2>6, <2>7, <3>1 DEF UpdateHealth
  <2>8. ASSUME NEW hs \in [Subsystem -> Health], UpdateSubsystemHealth(hs) PROVE Goal
    <3> DEFINE c == [snapshot EXCEPT !.health = hs]
    <3>1. /\ c \in Snapshots /\ c.lifecycle = snapshot.lifecycle
          /\ c.lastError = snapshot.lastError /\ c.lastReport >= snapshot.lastReport
      BY <1>t DEF Snapshots
    <3>2. QED
      BY <2>6, <2>8, <3>1 DEF UpdateSubsystemHealth
  <2>9. ASSUME NEW p \in Profile, UpdateProfile(p) PROVE Goal
    <3> DEFINE c == [snapshot EXCEPT !.profile = p]
    <3>1. /\ c \in Snapshots /\ c.lifecycle = snapshot.lifecycle
          /\ c.lastError = snapshot.lastError /\ c.lastReport >= snapshot.lastReport
      BY <1>t DEF Snapshots
    <3>2. QED
      BY <2>6, <2>9, <3>1 DEF UpdateProfile
  <2>10. ASSUME NEW t \in 0..MaxReport, MarkReport(t) PROVE Goal
    <3> DEFINE c == [snapshot EXCEPT !.lastReport = t]
    <3>1. /\ c \in Snapshots /\ c.lifecycle = snapshot.lifecycle
          /\ c.lastError = snapshot.lastError /\ c.lastReport >= snapshot.lastReport
      BY <1>t, <2>10, RuntimeAssumption DEF Snapshots, MarkReport
    <3>2. QED
      BY <2>6, <2>10, <3>1 DEF MarkReport
  <2>11. Goal
    BY <2>1, <2>2, <2>3, <2>4, <2>5, <2>7, <2>8, <2>9, <2>10 DEF Change
  <2>12. QED
    BY <2>11 DEF Goal
<1>2. /\ snapshot' \in Snapshots /\ wait' \in [Waiter -> Waits]
      /\ \A w \in Waiter : wait'[w].pc # "asleep"
      /\ snapshot' = [changed EXCEPT !.revision = snapshot.revision + 1]
      /\ UNCHANGED <<ticks, answer>>
  BY <1>1, CommitWakes
<1>3. TypeOK' /\ SleepersHaveNoNews' /\ AnswerIsRight'
  BY <1>1, <1>2 DEF TypeOK, SleepersHaveNoNews, AnswerIsRight
<1>4. QED
  BY <1>1, <1>2, <1>3, <1>t DEF Snapshots

(***************************************************************************)
(* A waiter in a call, from the moment it looks.                           *)
(***************************************************************************)
LEMMA ReturnInv ==
  ASSUME RuntimeInv, NEW w \in Waiter, NEW c \in Waits, NEW ready \in BOOLEAN,
         ready => Ready(c), ~ ready => ~ Ready(c),
         Return(w, c, ready), UNCHANGED <<snapshot, resumeState, ticks>>
  PROVE  RuntimeInv'
<1> USE DEF RuntimeInv
<1>1. NoWait \in Waits /\ NoWait.pc = "idle"
  BY RuntimeAssumption DEF NoWait, Waits
<1>2. wait' \in [Waiter -> Waits] /\ answer' \in [Waiter -> Answers]
  <2>1. snapshot.revision \in Nat /\ snapshot.lifecycle \in Lifecycle
    BY DEF TypeOK, Snapshots
  <2>2. QED
    BY <1>1, <2>1 DEF Return, TypeOK, Answers, Waits
<1>3. AnswerIsRight'
  BY <1>2 DEF Return, AnswerIsRight, Ready, Stopping, TypeOK, Snapshots, Waits
<1>4. SleepersHaveNoNews'
  BY <1>1 DEF Return, SleepersHaveNoNews, Ready, Stopping, TypeOK
<1>5. QED
  BY <1>2, <1>3, <1>4 DEF TypeOK, ErrorIsCurrent, Stopping

(* A look at the snapshot keeps the invariant. *)
LEMMA LookInv ==
  ASSUME RuntimeInv, NEW w \in Waiter, NEW c \in Waits,
         LookAgain(w, c), UNCHANGED <<snapshot, resumeState, ticks>>
  PROVE  RuntimeInv'
<1>1. CASE Ready(c) /\ Return(w, c, TRUE)
  BY <1>1, ReturnInv
<1>2. CASE ~ Ready(c) /\ Return(w, c, FALSE)
  BY <1>2, ReturnInv
<1>3. CASE /\ ~ Ready(c)
           /\ GetTickCount < c.deadline
           /\ wait' = [wait EXCEPT ![w] = [c EXCEPT !.pc = "asleep",
                                                    !.remaining = c.deadline - GetTickCount]]
           /\ UNCHANGED answer
  <2> DEFINE d == [c EXCEPT !.pc = "asleep", !.remaining = c.deadline - GetTickCount]
  <2>1. GetTickCount \in Nat
    BY ClockType, RuntimeAssumption DEF RuntimeInv, TypeOK
  <2>2. d \in Waits /\ d.observed = c.observed
    <3>1. c.deadline \in Int /\ c.deadline - GetTickCount \in Nat
      BY <1>3, <2>1, RuntimeAssumption DEF Waits
    <3>2. QED
      BY <3>1 DEF Waits
  <2>3. wait' \in [Waiter -> Waits] /\ wait'[w] = d
    BY <1>3, <2>2 DEF RuntimeInv, TypeOK
  <2>4. SleepersHaveNoNews'
    BY <1>3, <2>2, <2>3 DEF RuntimeInv, TypeOK, SleepersHaveNoNews, Ready, Stopping
  <2>5. QED
    BY <1>3, <2>3, <2>4 DEF RuntimeInv, TypeOK, ErrorIsCurrent, Stopping, AnswerIsRight
<1>4. QED
  BY <1>1, <1>2, <1>3 DEF LookAgain

(* A step of a waiter keeps the invariant. *)
LEMMA WaiterInv ==
  ASSUME RuntimeInv, NEW w \in Waiter, WaiterStep(w) PROVE RuntimeInv'
<1>1. ASSUME NEW o \in 0..MaxRevision, NEW t \in Timeout, WaitForRevision(w, o, t)
      PROVE  RuntimeInv'
  <2> DEFINE c == [NoWait EXCEPT !.observed = o, !.timeout = t,
                                 !.deadline = (GetTickCount + t) % Wrap]
  <2>1. GetTickCount \in Nat /\ t \in Nat
    BY ClockType, RuntimeAssumption DEF RuntimeInv, TypeOK
  <2>2. (GetTickCount + t) % Wrap \in 0..(Wrap - 1)
    BY <2>1, RuntimeAssumption
  <2>3. c \in Waits
    <3>1. o \in Nat
      BY RuntimeAssumption
    <3>2. QED
      BY <3>1, <2>2 DEF NoWait, Waits
  <2>4. QED
    BY <1>1, <2>3, LookInv DEF WaitForRevision
<1>2. CASE Woken(w)
  BY <1>2, LookInv DEF Woken, RuntimeInv, TypeOK
<1>3. CASE SleepEnds(w)
  <2>1. wait' = [wait EXCEPT ![w].pc = "timedOut"] /\ UNCHANGED <<snapshot, resumeState, ticks, answer>>
    BY <1>3 DEF SleepEnds
  <2>2. TypeOK'
    <3>1. wait[w] \in Waits
      BY DEF RuntimeInv, TypeOK
    <3>2. [wait[w] EXCEPT !.pc = "timedOut"] \in Waits
      BY <3>1 DEF Waits
    <3>3. QED
      BY <2>1, <3>2 DEF RuntimeInv, TypeOK
  <2>3. SleepersHaveNoNews'
    <3>1. \A v \in Waiter : wait'[v].pc = "asleep" => wait'[v] = wait[v]
      BY <2>1 DEF RuntimeInv, TypeOK
    <3>2. QED
      BY <2>1, <3>1 DEF RuntimeInv, SleepersHaveNoNews, Ready, Stopping
  <2>4. ErrorIsCurrent'
    BY <2>1 DEF RuntimeInv, ErrorIsCurrent, Stopping
  <2>5. AnswerIsRight'
    BY <2>1 DEF RuntimeInv, AnswerIsRight
  <2>6. QED
    BY <2>2, <2>3, <2>4, <2>5 DEF RuntimeInv
<1>4. CASE TimedOut(w)
  <2>1. wait[w] \in Waits
    BY DEF RuntimeInv, TypeOK
  <2>2. QED
    BY <1>4, <2>1, ReturnInv DEF TimedOut, Ready, Stopping
<1>5. QED
  BY <1>1, <1>2, <1>3, <1>4 DEF WaiterStep

(* The clock keeps the invariant. *)
LEMMA TickInv == ASSUME RuntimeInv, Tick PROVE RuntimeInv'
<1>1. ticks' \in Nat /\ wait' \in [Waiter -> Waits]
  <2>1. ASSUME NEW c \in Waits PROVE OneTickLater(c) \in Waits
    <3>1. c.waited + 1 \in Nat /\ (IF c.remaining > 0 THEN c.remaining - 1 ELSE 0) \in Nat
      BY DEF Waits
    <3>2. QED
      BY <3>1 DEF Waits, OneTickLater
  <2>2. QED
    BY <2>1 DEF Tick, RuntimeInv, TypeOK
<1>2. \A w \in Waiter : wait'[w].pc = wait[w].pc /\ wait'[w].observed = wait[w].observed
  <2>1. ASSUME NEW c \in Waits
        PROVE  OneTickLater(c).pc = c.pc /\ OneTickLater(c).observed = c.observed
    BY DEF Waits, OneTickLater
  <2>2. QED
    BY <2>1 DEF Tick, RuntimeInv, TypeOK
<1>3. SleepersHaveNoNews'
  BY <1>2 DEF Tick, RuntimeInv, SleepersHaveNoNews, Ready, Stopping
<1>4. QED
  BY <1>1, <1>3 DEF Tick, RuntimeInv, TypeOK, ErrorIsCurrent, Stopping, AnswerIsRight

(* The state starts in the invariant. *)
LEMMA InitInv == Init => RuntimeInv
  BY RuntimeAssumption
  DEF Init, InitialSnapshot, NoWait, RuntimeInv, TypeOK, Snapshots, Lifecycle, Waits, Answers,
      ErrorIsCurrent, Stopping, SleepersHaveNoNews, AnswerIsRight

(* Every step keeps the invariant. *)
LEMMA StepInv == RuntimeInv /\ [Next]_vars => RuntimeInv'
<1> SUFFICES ASSUME RuntimeInv, [Next]_vars PROVE RuntimeInv'
  OBVIOUS
<1>1. CASE UNCHANGED vars
  BY <1>1 DEF vars, RuntimeInv, TypeOK, ErrorIsCurrent, Stopping, SleepersHaveNoNews, Ready,
              AnswerIsRight
<1>2. QED
  BY <1>1, ChangeInv, WaiterInv, TickInv DEF Next

(* The state never leaves its invariant, for any waiters, timeouts and values. *)
THEOREM Invariance == Spec => []RuntimeInv
  BY InitInv, StepInv, PTL DEF Spec

(***************************************************************************)
(* Type correctness.                                                       *)
(***************************************************************************)
THEOREM TypeCorrect == Spec => []TypeOK
  BY Invariance, PTL DEF RuntimeInv

(***************************************************************************)
(* An error is shown exactly while the session is in it.                   *)
(***************************************************************************)
THEOREM ErrorCurrent == Spec => []ErrorIsCurrent
  BY Invariance, PTL DEF RuntimeInv

(***************************************************************************)
(* No waiter sleeps over a change or a stop, and every answer fits the     *)
(* snapshot it comes with.                                                 *)
(***************************************************************************)
THEOREM WaitersAreServed == Spec => []WaitsAreTrue
<1>1. RuntimeInv => WaitsAreTrue
  BY DEF RuntimeInv, WaitsAreTrue
<1>2. QED
  BY <1>1, Invariance, PTL

(***************************************************************************)
(* Every change has a revision of its own, and Stop is final.              *)
(***************************************************************************)
THEOREM Revisions == Spec => RevisionsTell
<1> DEFINE Tells == /\ snapshot' # snapshot => snapshot'.revision > snapshot.revision
                    /\ snapshot'.lastReport >= snapshot.lastReport
                    /\ Stopping => snapshot' = snapshot
<1>1. ASSUME RuntimeInv, [Next]_vars PROVE [Tells]_vars
  <2>1. CASE Change
    BY <1>1, <2>1, ChangeInv
  <2>2. CASE snapshot' = snapshot
    <3>1. snapshot.lastReport \in Nat
      BY <1>1, RuntimeAssumption DEF RuntimeInv, TypeOK, Snapshots
    <3>2. QED
      BY <2>2, <3>1
  <2>3. QED
    BY <1>1, <2>1, <2>2
    DEF Next, vars, Tick, WaiterStep, WaitForRevision, Woken, SleepEnds, TimedOut
<1>2. QED
  BY <1>1, Invariance, PTL DEF Spec, RevisionsTell
-----------------------------------------------------------------------------
(***************************************************************************)
(* While the tick counter does not wrap, a deadline is the time at which   *)
(* the call began plus its timeout.                                        *)
(***************************************************************************)
NoWrap == \A t \in Timeout \cup {0} : Boot + MaxTicks + t < Wrap

OnTime(c) ==
  /\ c.pc # "idle" => c.deadline = Boot + ticks - c.waited + c.timeout
  /\ c.pc = "asleep" => c.remaining + c.waited >= c.timeout
  /\ c.pc = "timedOut" => c.waited >= c.timeout

TimeInv ==
  /\ ticks <= MaxTicks
  /\ \A w \in Waiter : OnTime(wait[w])
  /\ TimeoutIsReal

(* As long as the clock has not wrapped, it reads the milliseconds since the boot. *)
LEMMA ClockWithoutWrap ==
  ASSUME NoWrap, TypeOK, ticks <= MaxTicks
  PROVE  /\ GetTickCount = Boot + ticks
         /\ \A t \in Timeout : (Boot + ticks + t) % Wrap = Boot + ticks + t
<1>1. \A x \in Nat : x < Wrap => x % Wrap = x
  BY RuntimeAssumption
<1>2. /\ Boot + ticks \in Nat /\ Boot + ticks < Wrap
      /\ \A t \in Timeout : Boot + ticks + t \in Nat /\ Boot + ticks + t < Wrap
  BY RuntimeAssumption DEF NoWrap, TypeOK
<1>3. QED
  BY <1>1, <1>2 DEF GetTickCount

(* The numbers of a wait are numbers. *)
LEMMA WaitNumbers ==
  ASSUME NEW c \in Waits
  PROVE  /\ c.timeout \in Nat /\ c.deadline \in Nat
         /\ c.waited \in Nat /\ c.remaining \in Nat
<1>1. c.timeout \in Timeout \cup {0} /\ c.deadline \in 0..(Wrap - 1)
  BY DEF Waits
<1>2. c.waited \in Nat /\ c.remaining \in Nat
  BY DEF Waits
<1>3. Wrap \in Nat /\ Timeout \subseteq Nat
  BY RuntimeAssumption
<1>4. c.deadline \in Nat
  BY <1>1, <1>3
<1>5. c.timeout \in Nat
  <2>1. \A t \in Timeout \cup {0} : t \in Nat
    BY <1>3
  <2>2. QED
    BY <1>1, <2>1
<1>6. QED
  BY <1>2, <1>4, <1>5

(* A look at the snapshot gives up only in time. *)
LEMMA LookOnTime ==
  ASSUME NoWrap, TypeOK, TimeInv, NEW w \in Waiter, NEW c \in Waits,
         c.deadline = Boot + ticks - c.waited + c.timeout,
         LookAgain(w, c), UNCHANGED ticks
  PROVE  TimeInv'
<1>1. /\ GetTickCount = Boot + ticks /\ Boot \in Nat /\ ticks \in Nat
      /\ c.timeout \in Nat /\ c.waited \in Nat /\ c.deadline \in Nat
  BY ClockWithoutWrap, WaitNumbers, RuntimeAssumption DEF TimeInv, TypeOK
<1>2. ASSUME NEW ready \in BOOLEAN, Return(w, c, ready), ~ ready => c.waited >= c.timeout,
             ready => Ready(c)
      PROVE  TimeInv'
  <2>1. \A v \in Waiter : OnTime(wait[v])'
    BY <1>2 DEF Return, TimeInv, OnTime, NoWait, TypeOK
  <2>2. TimeoutIsReal'
    BY <1>2 DEF Return, TimeInv, TimeoutIsReal, TypeOK
  <2>3. QED
    BY <2>1, <2>2 DEF TimeInv
<1>3. CASE Ready(c) /\ Return(w, c, TRUE)
  BY <1>2, <1>3
<1>4. CASE GetTickCount >= c.deadline /\ Return(w, c, FALSE)
  <2>1. c.waited >= c.timeout
    BY <1>1, <1>4
  <2>2. QED
    BY <1>2, <1>4, <2>1
<1>5. CASE /\ wait' = [wait EXCEPT ![w] = [c EXCEPT !.pc = "asleep",
                                                    !.remaining = c.deadline - GetTickCount]]
           /\ UNCHANGED answer
  <2> DEFINE d == [c EXCEPT !.pc = "asleep", !.remaining = c.deadline - GetTickCount]
  <2>1. /\ d.pc = "asleep" /\ d.remaining = c.deadline - GetTickCount
        /\ d.deadline = c.deadline /\ d.waited = c.waited /\ d.timeout = c.timeout
    BY DEF Waits
  <2>2. wait'[w] = d /\ \A v \in Waiter \ {w} : wait'[v] = wait[v]
    BY <1>5 DEF TypeOK
  <2> HIDE DEF d
  <2>3. OnTime(wait[w])'
    BY <1>1, <2>1, <2>2 DEF OnTime
  <2>4. \A v \in Waiter : OnTime(wait[v])'
    BY <2>2, <2>3 DEF OnTime, TimeInv
  <2>5. QED
    BY <2>4, <1>5 DEF TimeInv, TimeoutIsReal
<1>6. QED
  BY <1>3, <1>4, <1>5 DEF LookAgain

(* Every step keeps the time of the waiters. *)
LEMMA StepOnTime ==
  ASSUME NoWrap, TypeOK, TimeInv, [Next]_vars PROVE TimeInv'
<1>1. ASSUME NEW w \in Waiter, NEW o \in 0..MaxRevision, NEW t \in Timeout,
             WaitForRevision(w, o, t)
      PROVE  TimeInv'
  <2> DEFINE c == [NoWait EXCEPT !.observed = o, !.timeout = t,
                                 !.deadline = (GetTickCount + t) % Wrap]
  <2>1. /\ (GetTickCount + t) % Wrap = Boot + ticks + t
        /\ (GetTickCount + t) % Wrap \in 0..(Wrap - 1)
    BY ClockWithoutWrap, RuntimeAssumption DEF TimeInv, NoWrap, TypeOK
  <2>2. o \in Nat /\ t \in Nat /\ Boot \in Nat /\ ticks \in Nat
    BY RuntimeAssumption DEF TypeOK
  <2>3. c \in Waits /\ c.deadline = Boot + ticks - c.waited + c.timeout
    <3>1. c.waited = 0 /\ c.timeout = t /\ c.deadline = (GetTickCount + t) % Wrap
      BY DEF NoWait
    <3>2. c \in Waits
      BY <2>1, <2>2 DEF NoWait, Waits
    <3>3. QED
      BY <3>1, <3>2, <2>1, <2>2
  <2>4. LookAgain(w, c) /\ UNCHANGED ticks
    BY <1>1 DEF WaitForRevision
  <2> HIDE DEF c
  <2>5. QED
    BY <2>3, <2>4, LookOnTime
<1>2. ASSUME NEW w \in Waiter, Woken(w) PROVE TimeInv'
  BY <1>2, LookOnTime DEF Woken, TimeInv, OnTime, TypeOK
<1>3. ASSUME NEW w \in Waiter, SleepEnds(w) PROVE TimeInv'
  <2>1. \A v \in Waiter : OnTime(wait[v])'
    BY <1>3 DEF SleepEnds, TimeInv, OnTime, TypeOK, Waits
  <2>2. QED
    BY <1>3, <2>1 DEF SleepEnds, TimeInv, TimeoutIsReal
<1>4. ASSUME NEW w \in Waiter, TimedOut(w) PROVE TimeInv'
  <2>1. OnTime(wait[w]) /\ wait[w].pc = "timedOut"
    BY <1>4 DEF TimedOut, TimeInv
  <2>2. wait[w].waited >= wait[w].timeout
    BY <2>1 DEF OnTime
  <2>3. \A v \in Waiter : OnTime(wait[v])'
    BY <1>4 DEF TimedOut, Return, TimeInv, OnTime, NoWait, TypeOK
  <2>4. TimeoutIsReal'
    BY <1>4, <2>2 DEF TimedOut, Return, TimeInv, TimeoutIsReal, TypeOK
  <2>5. QED
    BY <1>4, <2>3, <2>4 DEF TimedOut, TimeInv
<1>5. CASE Tick
  <2>1. ticks' = ticks + 1 /\ ticks \in Nat /\ MaxTicks \in Nat /\ ticks < MaxTicks /\ Boot \in Nat
    BY <1>5, RuntimeAssumption DEF Tick, TypeOK
  <2>2. ASSUME NEW v \in Waiter PROVE OnTime(wait[v])'
    <3>1. wait'[v] = OneTickLater(wait[v]) /\ wait[v] \in Waits /\ OnTime(wait[v])
      BY <1>5 DEF Tick, TypeOK, TimeInv
    <3>2. /\ wait[v].waited \in Nat /\ wait[v].remaining \in Nat /\ wait[v].timeout \in Nat
          /\ wait[v].deadline \in Nat
      BY <3>1, WaitNumbers
    <3>3. CASE wait[v].pc = "idle"
      BY <3>1, <3>3 DEF OneTickLater, OnTime
    <3>4. CASE wait[v].pc # "idle"
      <4>1. /\ wait'[v].pc = wait[v].pc /\ wait'[v].deadline = wait[v].deadline
            /\ wait'[v].timeout = wait[v].timeout /\ wait'[v].waited = wait[v].waited + 1
            /\ wait'[v].remaining = IF wait[v].remaining > 0 THEN wait[v].remaining - 1 ELSE 0
        BY <3>1, <3>4 DEF OneTickLater, Waits
      <4>2. QED
        BY <4>1, <3>1, <3>2, <3>4, <2>1 DEF OnTime
    <3>5. QED
      BY <3>3, <3>4
  <2>3. TimeoutIsReal'
    BY <1>5 DEF Tick, TimeInv, TimeoutIsReal
  <2>4. QED
    BY <2>1, <2>2, <2>3 DEF TimeInv
<1>6. ASSUME UNCHANGED <<ticks, answer>>,
             \A w \in Waiter : wait'[w] = wait[w] \/ (wait'[w].pc = "woken" /\ OnTime(wait[w])')
      PROVE  TimeInv'
  BY <1>6 DEF TimeInv, OnTime, TimeoutIsReal
<1>7. CASE Change
  <2>1. UNCHANGED <<ticks, answer>> /\ wait' = AwakenAll
    BY <1>7 DEF Change, Commit, TransitionTo, PauseSession, ResumeSession, SetError, Stop,
                UpdateHealth, UpdateSubsystemHealth, UpdateProfile, MarkReport
  <2>2. ASSUME NEW w \in Waiter, wait[w].pc = "asleep"
        PROVE  wait'[w].pc = "woken" /\ OnTime(wait[w])'
    BY <2>1, <2>2 DEF AwakenAll, TypeOK, Waits, TimeInv, OnTime
  <2>3. ASSUME NEW w \in Waiter, wait[w].pc # "asleep" PROVE wait'[w] = wait[w]
    BY <2>1, <2>3 DEF AwakenAll
  <2>4. QED
    BY <2>1, <2>2, <2>3, <1>6
<1>8. CASE UNCHANGED vars
  BY <1>8 DEF vars, TimeInv, OnTime, TimeoutIsReal
<1>9. QED
  BY <1>1, <1>2, <1>3, <1>4, <1>5, <1>7, <1>8 DEF Next, WaiterStep

(***************************************************************************)
(* As long as the tick counter does not wrap, a wait that times out has    *)
(* lasted its timeout.                                                     *)
(***************************************************************************)
THEOREM RealTimeout == ASSUME NoWrap PROVE Spec => []TimeoutIsReal
<1>1. Init => TimeInv
  BY RuntimeAssumption DEF Init, NoWait, TimeInv, OnTime, TimeoutIsReal
<1>2. TypeOK /\ TimeInv /\ [Next]_vars => TimeInv'
  BY StepOnTime
<1>3. TimeInv => TimeoutIsReal
  BY DEF TimeInv
<1>4. QED
  BY <1>1, <1>2, <1>3, TypeCorrect, PTL DEF Spec

-----------------------------------------------------------------------------
(* The types, in parts that a step changes one by one. *)
OwnerTyped == owner \in [Owner -> [pc : {"idle", "asleep", "woken", "working", "notify"}, id : Id \cup {NoId}]]
CallerTyped == caller \in [Caller -> [pc : {"idle", "notify", "asleep", "woken"}, id : Id \cup {NoId}]]
StateTyped == state \in [Id -> [completion : Completion, cancellationRequested : BOOLEAN]]
CommandsTyped == commands \in Seq(Id) /\ Len(commands) <= Capacity
FlagsTyped == nextId \in 1..(MaxId + 1) /\ shutdown \in BOOLEAN /\ closing \in BOOLEAN

(* The parts together are the type of the queue. *)
LEMMA QueueTypeParts ==
  /\ QueueTypeOK <=> CommandsTyped /\ FlagsTyped /\ StateTyped /\ CallerTyped /\ OwnerTyped
  /\ QueueTypeOK' <=> CommandsTyped' /\ FlagsTyped' /\ StateTyped' /\ CallerTyped' /\ OwnerTyped'
BY DEF QueueTypeOK, CommandsTyped, FlagsTyped, StateTyped, CallerTyped, OwnerTyped

(* An owner that moves between its stages leaves the owners typed. *)
LEMMA OwnerMoves ==
  ASSUME OwnerTyped, NEW o \in Owner,
         \E at \in {"asleep", "idle", "notify"} : owner' = [owner EXCEPT ![o].pc = at]
  PROVE  OwnerTyped'
BY DEF OwnerTyped

(* So does a caller. *)
LEMMA CallerMoves ==
  ASSUME CallerTyped, NEW c \in Caller,
         \E at \in {"asleep", "idle"} : caller' = [caller EXCEPT ![c].pc = at]
  PROVE  CallerTyped'
BY DEF CallerTyped

(* Every step keeps them: an id is taken while it is one, an owner and a  *)
(* caller move between their stages.                                      *)
LEMMA QueueTypeStep ==
  ASSUME QueueTypeOK, [QueueNext]_queueVars
  PROVE  QueueTypeOK'
<1> USE QueueAssumption DEF CommandsTyped, FlagsTyped, StateTyped, CallerTyped, OwnerTyped
<1>0. CommandsTyped /\ FlagsTyped /\ StateTyped /\ CallerTyped /\ OwnerTyped  BY QueueTypeParts
<1>a. ASSUME commands # <<>> PROVE Head(commands) \in Id /\ Tail(commands) \in Seq(Id) /\ Len(Tail(commands)) = Len(commands) - 1
  BY <1>0, <1>a
<1>w. WakeOneOwner => OwnerTyped'  BY <1>0 DEF WakeOneOwner
<1>1. ASSUME NEW c \in Caller, CallerStep(c) PROVE QueueTypeOK'
  <2>1. CASE Enqueue(c)
    <3>1. nextId \in Id  BY <1>0, <2>1 DEF Enqueue, Id
    <3>2. CommandsTyped'  BY <1>0, <2>1, <3>1 DEF Enqueue
    <3>3. CallerTyped'  BY <1>0, <2>1, <3>1 DEF Enqueue
    <3> QED BY <1>0, <2>1, <3>2, <3>3, QueueTypeParts DEF Enqueue
  <2>2. CASE NotifyOwner(c)
    <3>1. CallerTyped'  BY <1>0, <2>2 DEF NotifyOwner
    <3> QED BY <1>0, <1>w, <2>2, <3>1, QueueTypeParts DEF NotifyOwner
  <2>3. CASE RequestCancellation(c)
    <3>1. StateTyped'  BY <1>0, <2>3 DEF RequestCancellation
    <3> QED BY <1>0, <2>3, <3>1, QueueTypeParts DEF RequestCancellation
  <2>4. CASE Refused(c) \/ Wait(c) \/ CallerWoken(c) \/ WaitTimesOut(c) \/ \E d \in Caller : CopyRequest(c, d)
    <3>1. CallerTyped'
      <4>1. CASE Refused(c)  BY <1>0, <4>1 DEF Refused
      <4>2. CASE Wait(c) \/ CallerWoken(c)  
        <5>1. \E at \in {"asleep", "idle"} : caller' = [caller EXCEPT ![c].pc = at]
          BY <4>2 DEF Wait, CallerWoken, Look
        <5> QED BY <1>0, <5>1, CallerMoves
      <4>3. CASE WaitTimesOut(c)
        <5>1. caller' = [caller EXCEPT ![c].pc = "idle"]  BY <4>3 DEF WaitTimesOut
        <5> QED BY <1>0, <5>1, CallerMoves
      <4>4. CASE \E d \in Caller : CopyRequest(c, d)  BY <1>0, <4>4 DEF CopyRequest
      <4> QED BY <2>4, <4>1, <4>2, <4>3, <4>4
    <3>2. UNCHANGED <<commands, nextId, shutdown, closing, state, owner>>
      BY <2>4 DEF Refused, Wait, CallerWoken, WaitTimesOut, CopyRequest
    <3> QED BY <1>0, <3>1, <3>2, QueueTypeParts
  <2> QED BY <1>1, <2>1, <2>2, <2>3, <2>4 DEF CallerStep
<1>2. ASSUME NEW o \in Owner, OwnerStep(o) PROVE QueueTypeOK'
  <2>1. CASE TryPop(o)
    <3>1. CommandsTyped' /\ OwnerTyped'  BY <1>0, <1>a, <2>1 DEF TryPop, TakeFront
    <3> QED BY <1>0, <2>1, <3>1, QueueTypeParts DEF TryPop
  <2>2. CASE WaitPop(o)
    <3>1. CommandsTyped'
      <4>1. ASSUME commands # <<>>, TakeFront(o) PROVE CommandsTyped' /\ OwnerTyped'
        BY <1>0, <1>a, <4>1 DEF TakeFront
      <4>2. CASE commands = <<>>  BY <1>0, <2>2, <4>2 DEF WaitPop
      <4> QED BY <2>2, <4>1, <4>2 DEF WaitPop
    <3>2. OwnerTyped'
      <4>1. ASSUME commands # <<>>, TakeFront(o) PROVE CommandsTyped' /\ OwnerTyped'
        BY <1>0, <1>a, <4>1 DEF TakeFront
      <4>2. CASE commands = <<>>
        <5>1. \E at \in {"asleep", "idle"} : owner' = [owner EXCEPT ![o].pc = at]
          BY <2>2, <4>2 DEF WaitPop
        <5> QED BY <1>0, <5>1, OwnerMoves
      <4> QED BY <2>2, <4>1, <4>2 DEF WaitPop
    <3> QED BY <1>0, <2>2, <3>1, <3>2, QueueTypeParts DEF WaitPop
  <2>3. CASE Fulfil(o)
    <3>1. StateTyped'  BY <1>0, <2>3 DEF Fulfil, Completion
    <3>2. \/ owner' = [owner EXCEPT ![o].pc = "notify"]
          \/ owner' = [owner EXCEPT ![o] = [pc |-> "idle", id |-> NoId]]
      BY <2>3 DEF Fulfil
    <3>3. OwnerTyped'
      <4>1. CASE owner' = [owner EXCEPT ![o].pc = "notify"]  BY <1>0, <4>1, OwnerMoves
      <4>2. CASE owner' = [owner EXCEPT ![o] = [pc |-> "idle", id |-> NoId]]  BY <1>0, <4>2
      <4> QED BY <3>2, <4>1, <4>2
    <3> QED BY <1>0, <2>3, <3>1, <3>3, QueueTypeParts DEF Fulfil
  <2>4. CASE NotifyCallers(o)
    <3>1. CallerTyped' /\ OwnerTyped'  BY <1>0, <2>4 DEF NotifyCallers
    <3> QED BY <1>0, <2>4, <3>1, QueueTypeParts DEF NotifyCallers
  <2>5. CASE \E p \in Owner : CopyCommand(o, p)
    <3>1. OwnerTyped'  BY <1>0, <2>5 DEF CopyCommand
    <3> QED BY <1>0, <2>5, <3>1, QueueTypeParts DEF CopyCommand
  <2> QED BY <1>2, <2>1, <2>2, <2>3, <2>4, <2>5 DEF OwnerStep
<1>3. CASE Shutdown  BY <1>0, <1>3, QueueTypeParts DEF Shutdown
<1>4. CASE NotifyShutdown
  <2>1. OwnerTyped'  BY <1>0, <1>4 DEF NotifyShutdown
  <2> QED BY <1>0, <1>4, <2>1, QueueTypeParts DEF NotifyShutdown
<1>5. CASE UNCHANGED queueVars  BY <1>0, <1>5, QueueTypeParts DEF queueVars
<1> QED BY <1>1, <1>2, <1>3, <1>4, <1>5 DEF QueueNext

(* The threads that decide whether a command is seen: owners that wait,   *)
(* owners that are up again, callers about to notify.                     *)
Asleep == Threads(owner, "asleep")
Awoke == Threads(owner, "woken")
Notifying == Threads(caller, "notify")

(* They are finite sets, in this state and in the next. *)
LEMMA ThreadSets ==
  ASSUME NEW T, IsFiniteSet(T), NEW f, DOMAIN f = T, NEW at
  PROVE  /\ Threads(f, at) = {t \in T : f[t].pc = at}
         /\ IsFiniteSet(Threads(f, at)) /\ Cardinality(Threads(f, at)) \in Nat
<1>1. Threads(f, at) = {t \in T : f[t].pc = at}  BY DEF Threads
<1>2. IsFiniteSet(Threads(f, at))  BY <1>1, FS_Subset
<1> QED BY <1>1, <1>2, FS_CardinalityType

(* A command comes with a caller that will notify; the notification makes *)
(* a sleeper an owner that is up; and an owner that takes a command is    *)
(* the one it was for, or an earlier one.                                 *)
LEMMA WakeUpStep ==
  ASSUME NoLostWakeUp, [QueueNext]_queueVars
  PROVE  NoLostWakeUp'
<1>0. /\ QueueTypeOK /\ QueueTypeOK'
      /\ Asleep # {} => /\ Len(commands) <= Cardinality(Awoke) + Cardinality(Notifying)
                        /\ shutdown => closing
  BY QueueTypeStep DEF NoLostWakeUp, Asleep, Awoke, Notifying
<1>a. /\ Asleep = {o \in Owner : owner[o].pc = "asleep"}
      /\ Awoke = {o \in Owner : owner[o].pc = "woken"}
      /\ Notifying = {c \in Caller : caller[c].pc = "notify"}
      /\ IsFiniteSet(Awoke) /\ Cardinality(Awoke) \in Nat
      /\ IsFiniteSet(Notifying) /\ Cardinality(Notifying) \in Nat
  BY <1>0, QueueAssumption, ThreadSets DEF QueueTypeOK, Asleep, Awoke, Notifying
<1>b. /\ Asleep' = {o \in Owner : owner'[o].pc = "asleep"}
      /\ Awoke' = {o \in Owner : owner'[o].pc = "woken"}
      /\ Notifying' = {c \in Caller : caller'[c].pc = "notify"}
      /\ IsFiniteSet(Awoke') /\ Cardinality(Awoke') \in Nat
      /\ IsFiniteSet(Notifying') /\ Cardinality(Notifying') \in Nat
  BY <1>0, QueueAssumption, ThreadSets DEF QueueTypeOK, Asleep, Awoke, Notifying
<1>c. commands \in Seq(Id) /\ Len(commands) \in Nat  BY <1>0 DEF QueueTypeOK
<1>d. /\ owner \in [Owner -> [pc : {"idle", "asleep", "woken", "working", "notify"}, id : Id \cup {NoId}]]
      /\ caller \in [Caller -> [pc : {"idle", "notify", "asleep", "woken"}, id : Id \cup {NoId}]]
  BY <1>0 DEF QueueTypeOK
<1> SUFFICES ASSUME Asleep' # {}
             PROVE  /\ Len(commands') <= Cardinality(Awoke') + Cardinality(Notifying')
                    /\ shutdown' => closing'
  BY <1>0 DEF NoLostWakeUp, Asleep, Awoke, Notifying
<1> DEFINE Goal == /\ Len(commands') <= Cardinality(Awoke') + Cardinality(Notifying')
                   /\ shutdown' => closing'
<1> HIDE DEF Goal
<1>w. ASSUME WakeOneOwner
      PROVE  /\ Asleep # {}
             /\ Cardinality(Awoke') = Cardinality(Awoke) + 1
  <2>1. PICK o \in Owner : owner[o].pc = "asleep" /\ owner' = [owner EXCEPT ![o].pc = "woken"]
    BY <1>w, <1>b DEF WakeOneOwner
  <2>2. o \notin Awoke /\ Awoke' = Awoke \cup {o}  BY <2>1, <1>a, <1>b, <1>d
  <2> QED BY <2>1, <2>2, <1>a, FS_AddElement
<1>1. ASSUME NEW c \in Caller, CallerStep(c) PROVE Goal
  <2>1. CASE Enqueue(c)
    <3>1. c \notin Notifying /\ Notifying' = Notifying \cup {c}  BY <2>1, <1>a, <1>b, <1>d DEF Enqueue
    <3>2. Cardinality(Notifying') = Cardinality(Notifying) + 1  BY <3>1, <1>a, FS_AddElement
    <3>3. Awoke' = Awoke /\ Asleep' = Asleep  BY <2>1, <1>a, <1>b DEF Enqueue
    <3>4. Len(commands') = Len(commands) + 1  BY <2>1, <1>c DEF Enqueue
    <3>5. ~shutdown'  BY <2>1 DEF Enqueue
    <3> QED BY <3>2, <3>3, <3>4, <3>5, <1>0, <1>a, <1>c DEF Goal
  <2>2. CASE NotifyOwner(c)
    <3>1. c \in Notifying /\ Notifying' = Notifying \ {c}  BY <2>2, <1>a, <1>b, <1>d DEF NotifyOwner
    <3>2. Cardinality(Notifying') = Cardinality(Notifying) - 1  BY <3>1, <1>a, FS_RemoveElement
    <3>3. UNCHANGED <<commands, shutdown, closing>>  BY <2>2 DEF NotifyOwner
    <3>4. WakeOneOwner  BY <2>2 DEF NotifyOwner
    <3> QED BY <3>2, <3>3, <3>4, <1>w, <1>0, <1>a, <1>b, <1>c DEF Goal
  <2>3. CASE ~Enqueue(c) /\ ~NotifyOwner(c)
    <3>1. UNCHANGED <<owner, commands, shutdown, closing>>
      BY <1>1, <2>3 DEF CallerStep, Refused, RequestCancellation, Wait, CallerWoken, WaitTimesOut, CopyRequest
    <3>2. \A d \in Caller : caller'[d].pc = "notify" <=> caller[d].pc = "notify"
      BY <1>1, <2>3, <1>d DEF CallerStep, Refused, RequestCancellation, Wait, CallerWoken, WaitTimesOut, CopyRequest, Look
    <3>3. Awoke' = Awoke /\ Asleep' = Asleep /\ Notifying' = Notifying  BY <3>1, <3>2, <1>a, <1>b
    <3> QED BY <3>1, <3>3, <1>0 DEF Goal
  <2> QED BY <2>1, <2>2, <2>3
<1>2. ASSUME NEW o \in Owner, OwnerStep(o) PROVE Goal
  <2>0. ASSUME owner[o].pc \in {"idle", "woken"}, commands # <<>>, TakeFront(o), UNCHANGED <<shutdown, closing, caller>>
        PROVE  Goal
    <3>1. Asleep' = Asleep /\ Notifying' = Notifying /\ Awoke' = Awoke \ {o}
      BY <2>0, <1>a, <1>b, <1>d DEF TakeFront
    <3>2. Len(commands') = Len(commands) - 1  BY <2>0, <1>c DEF TakeFront
    <3>3. Cardinality(Awoke') >= Cardinality(Awoke) - 1
      <4>1. CASE o \in Awoke  
        <5>1. Cardinality(Awoke \ {o}) = Cardinality(Awoke) - 1  BY <4>1, <1>a, FS_RemoveElement
        <5> QED BY <5>1, <3>1, <1>a
      <4>2. CASE o \notin Awoke
        <5>1. Awoke' = Awoke  BY <3>1, <4>2
        <5> QED BY <5>1, <1>a
      <4> QED BY <4>1, <4>2
    <3> QED BY <3>1, <3>2, <3>3, <2>0, <1>0, <1>a, <1>b, <1>c DEF Goal
  <2>1. CASE TryPop(o)  BY <2>0, <2>1 DEF TryPop
  <2>2. CASE WaitPop(o)
    <3>1. CASE commands # <<>>  BY <2>0, <2>2, <3>1 DEF WaitPop
    <3>2. ASSUME commands = <<>>, shutdown PROVE Goal
      <4>1. Asleep' \subseteq Asleep  BY <2>2, <3>2, <1>a, <1>b, <1>d DEF WaitPop
      <4>2. Len(commands') = 0 /\ UNCHANGED <<shutdown, closing>>  BY <2>2, <3>2 DEF WaitPop
      <4> QED BY <4>1, <4>2, <3>2, <1>0, <1>b DEF Goal
    <3>3. ASSUME commands = <<>>, ~shutdown PROVE Goal
      <4>1. Len(commands') = 0 /\ UNCHANGED <<shutdown, closing>>  BY <2>2, <3>3 DEF WaitPop
      <4> QED BY <4>1, <3>3, <1>b DEF Goal
    <3> QED BY <3>1, <3>2, <3>3, <1>0 DEF QueueTypeOK
  <2>3. CASE Fulfil(o) \/ NotifyCallers(o) \/ \E p \in Owner : CopyCommand(o, p)
    <3>1. UNCHANGED <<commands, shutdown, closing>>
      BY <2>3 DEF Fulfil, NotifyCallers, CopyCommand
    <3>2. \A p \in Owner : /\ owner'[p].pc = "asleep" <=> owner[p].pc = "asleep"
                           /\ owner'[p].pc = "woken" <=> owner[p].pc = "woken"
      <4>1. CASE Fulfil(o)  BY <4>1, <1>d DEF Fulfil
      <4>2. CASE NotifyCallers(o)  BY <4>2, <1>d DEF NotifyCallers
      <4>3. CASE \E p \in Owner : CopyCommand(o, p)  BY <4>3, <1>d DEF CopyCommand
      <4> QED BY <2>3, <4>1, <4>2, <4>3
    <3>3. \A d \in Caller : caller'[d].pc = "notify" <=> caller[d].pc = "notify"
      BY <2>3, <1>d DEF Fulfil, NotifyCallers, CopyCommand
    <3>4. Awoke' = Awoke /\ Asleep' = Asleep /\ Notifying' = Notifying  BY <3>2, <3>3, <1>a, <1>b
    <3> QED BY <3>1, <3>4, <1>0 DEF Goal
  <2> QED BY <1>2, <2>1, <2>2, <2>3 DEF OwnerStep
<1>3. CASE Shutdown
  <2>1. Awoke' = Awoke /\ Asleep' = Asleep /\ Notifying' = Notifying  BY <1>3, <1>a, <1>b DEF Shutdown
  <2> QED BY <2>1, <1>3, <1>0 DEF Goal, Shutdown
<1>4. CASE NotifyShutdown
  <2>1. Asleep' = {}  BY <1>4, <1>b, <1>d DEF NotifyShutdown
  <2> QED BY <2>1
<1>5. CASE UNCHANGED queueVars
  <2>1. Awoke' = Awoke /\ Asleep' = Asleep /\ Notifying' = Notifying  BY <1>5, <1>a, <1>b DEF queueVars
  <2> QED BY <2>1, <1>5, <1>0 DEF Goal, queueVars
<1> QED BY <1>1, <1>2, <1>3, <1>4, <1>5 DEF QueueNext, Goal

(* CommandQueue: while an owner sleeps, each command in the queue has a   *)
(* notification under way or an owner that is up, and a shutdown will be  *)
(* notified; for any number of callers, owners and commands.              *)
THEOREM NoWakeUpIsLost == QueueSpec => []NoLostWakeUp
<1>1. QueueInit => NoLostWakeUp
  <2> SUFFICES ASSUME QueueInit PROVE NoLostWakeUp  OBVIOUS
  <2>1. <<>> \in Seq(Id) /\ Len(<<>>) = 0  OBVIOUS
  <2>2. CommandsTyped /\ FlagsTyped
    <3>1. commands = <<>> /\ nextId = 1 /\ shutdown = FALSE /\ closing = FALSE  BY DEF QueueInit
    <3>2. CommandsTyped  BY <2>1, <3>1, QueueAssumption DEF CommandsTyped
    <3>3. MaxId \in Nat  BY QueueAssumption
    <3>4. 1 \in 1..(MaxId + 1)  BY <3>3
    <3>5. FlagsTyped  BY <3>1, <3>4 DEF FlagsTyped
    <3> QED BY <3>2, <3>5
  <2>3. StateTyped  BY DEF QueueInit, StateTyped, Completion
  <2>4. CallerTyped /\ OwnerTyped  BY DEF QueueInit, CallerTyped, OwnerTyped
  <2>5. QueueTypeOK  BY <2>2, <2>3, <2>4, QueueTypeParts
  <2>6. Threads(owner, "asleep") = {}  BY DEF QueueInit, Threads
  <2> QED BY <2>5, <2>6 DEF NoLostWakeUp
<1> QED BY <1>1, WakeUpStep, PTL DEF QueueSpec
-----------------------------------------------------------------------------

(***************************************************************************)
(* A configuration on disk is a file; a file that is whole and flushed     *)
(* survives a crash as it is.                                              *)
(***************************************************************************)
LEMMA OnDiskIsFile ==
  ASSUME NEW c \in Config
  PROVE  /\ OnDisk(c) \in File /\ OnDisk(c) # NoFile
         /\ OnDisk(c).content = c /\ OnDisk(c).whole /\ OnDisk(c).flushed
<1>1. OnDisk(c) \in File
  BY DEF OnDisk, File
<1>2. OnDisk(c).content = c
  BY DEF OnDisk
<1>3. OnDisk(c).whole /\ OnDisk(c).flushed
  BY DEF OnDisk
<1> QED
  BY <1>1, <1>2, <1>3, FileAssumption

LEMMA FileFields ==
  ASSUME NEW f \in File
  PROVE  /\ f.content \in Config /\ f.whole \in BOOLEAN /\ f.flushed \in BOOLEAN
         /\ \A b \in BOOLEAN : [f EXCEPT !.whole = b] \in File
         /\ \A b \in BOOLEAN : [f EXCEPT !.whole = b].content = f.content
         /\ [f EXCEPT !.flushed = TRUE] \in File
         /\ [f EXCEPT !.flushed = TRUE].content = f.content
         /\ [f EXCEPT !.flushed = TRUE].flushed
  BY DEF File

LEMMA WholeSurvives ==
  ASSUME NEW f \in File \cup {NoFile}, f # NoFile => f.whole /\ f.flushed
  PROVE  AfterCrash(f) = f
<1>1. CASE f = NoFile
  BY <1>1 DEF AfterCrash
<1>2. CASE f # NoFile
  <2>1. f = [content |-> f.content, whole |-> f.whole, flushed |-> f.flushed]
    BY <1>2 DEF File
  <2>2. f.whole = TRUE /\ f.flushed = TRUE
    BY <1>2 DEF File
  <2> QED
    BY <1>2, <2>1, <2>2 DEF AfterCrash
<1> QED
  BY <1>1, <1>2

LEMMA LoadType ==
  ASSUME StorageTypeOK, Load
  PROVE  /\ memory' \in Config /\ misread' \in BOOLEAN
         /\ ~misread' => ~misread /\ memory' = ContentOf(Recoverable)
<1>1. ContentOf(target) \in Config
  BY FileFields DEF StorageTypeOK, ContentOf, Config
<1>2. memory' \in Config
  BY <1>1 DEF Load, Config, ContentOf
<1> QED
  BY <1>2 DEF Load, StorageTypeOK

(***************************************************************************)
(* Only the thread that holds the lock is at a call of a write.            *)
(***************************************************************************)
LEMMA OneWriter ==
  ASSUME StorageIInv, NEW t \in Thread, lock # t
  PROVE  pc[t] \in {"idle", "edited"}
  BY DEF StorageIInv, StorageInv, StorageTypeOK, FilesAreWhole, WriterInv, Progress

LEMMA FreeLock ==
  ASSUME StorageIInv, lock = Nobody, NEW t \in Thread
  PROVE  pc[t] \in {"idle", "edited"}
  BY OneWriter, StorageAssumption DEF Thread

(***************************************************************************)
(* The inductive step of StorageIInv, action by action.                    *)
(***************************************************************************)
LEMMA StorageStep == StorageIInv /\ [StorageNext]_storageVars => StorageIInv'
<1> SUFFICES ASSUME StorageIInv, [StorageNext]_storageVars PROVE StorageIInv'
  OBVIOUS
<1> USE DEF StorageIInv, StorageInv, history, disk
<1>1. CASE UNCHANGED storageVars
  BY <1>1 DEF storageVars, StorageTypeOK, FilesAreWhole, WriterInv, Progress, EditInv, AckedEditsSurvive,
              Recoverable
<1>2. CASE StartUp
  <2>1. StorageTypeOK'
    BY <1>2, LoadType DEF StartUp, StorageTypeOK
  <2>2. FilesAreWhole'
    BY <1>2 DEF StartUp, StorageTypeOK, FilesAreWhole, InWrite
  <2>3. WriterInv'
    BY <1>2 DEF StartUp, StorageTypeOK, WriterInv, Progress, Placing
  <2>4. EditInv'
    BY <1>2 DEF StartUp, EditInv, WriterInv
  <2>5. AckedEditsSurvive'
    BY <1>2, LoadType DEF StartUp, AckedEditsSurvive, Recoverable
  <2> QED
    BY <2>1, <2>2, <2>3, <2>4, <2>5
<1>3. CASE Reload
  <2>1. StorageTypeOK'
    BY <1>3, LoadType DEF Reload, StorageTypeOK, EditInv, Config, Thread
  <2>2. FilesAreWhole'
    BY <1>3 DEF Reload, StorageTypeOK, FilesAreWhole, InWrite
  <2>3. WriterInv'
    <3> SUFFICES ASSUME NEW w \in Thread PROVE up' /\ Progress(w)'
      BY DEF WriterInv
    <3>1. pc[w] \in {"idle", "edited"}
      BY <1>3, FreeLock DEF Reload
    <3> QED
      BY <1>3, <3>1 DEF Reload, StorageTypeOK, Progress, Placing
  <2>4. EditInv'
    <3> SUFFICES ASSUME NEW w \in Thread, pc'[w] # "idle"
                 PROVE  (edit[w] \in memory \cup overtaken)'
      BY DEF EditInv
    <3>1. w \in Worker /\ pc[w] = "edited"
      BY <1>3, FreeLock DEF Reload, Thread
    <3> QED
      BY <1>3, <3>1 DEF Reload
  <2>5. AckedEditsSurvive'
    BY <1>3, LoadType DEF Reload, AckedEditsSurvive, Recoverable
  <2> QED
    BY <2>1, <2>2, <2>3, <2>4, <2>5
<1>4. CASE Crash
  <2>1. StorageTypeOK'
    <3>1. AfterCrash(target) = target /\ AfterCrash(bak) = bak
      BY WholeSurvives DEF StorageTypeOK, FilesAreWhole
    <3> QED
      BY <1>4, <3>1 DEF Crash, StorageTypeOK, Config
  <2>2. FilesAreWhole'
    BY <1>4, WholeSurvives DEF Crash, StorageTypeOK, FilesAreWhole, InWrite
  <2>3. WriterInv'
    BY <1>4 DEF Crash, StorageTypeOK, WriterInv, Progress, Placing
  <2>4. EditInv'
    BY <1>4 DEF Crash, StorageTypeOK, EditInv
  <2>5. AckedEditsSurvive'
    BY <1>4, WholeSurvives DEF Crash, StorageTypeOK, FilesAreWhole, AckedEditsSurvive, Recoverable
  <2> QED
    BY <2>1, <2>2, <2>3, <2>4, <2>5
<1>5. ASSUME NEW t \in Thread, NEW e \in Edit, MakeEdit(t, e) PROVE StorageIInv'
  <2>1. StorageTypeOK'
    BY <1>5 DEF MakeEdit, Goto, StorageTypeOK, Config
  <2>2. FilesAreWhole'
    BY <1>5 DEF MakeEdit, Goto, StorageTypeOK, FilesAreWhole, InWrite
  <2>3. WriterInv'
    <3> SUFFICES ASSUME NEW w \in Thread PROVE up' /\ Progress(w)'
      BY DEF WriterInv
    <3>1. pc[w] \in {"idle", "edited"}
      BY <1>5, FreeLock DEF MakeEdit, Goto
    <3> QED
      BY <1>5, <3>1 DEF MakeEdit, Goto, StorageTypeOK, Progress, Placing
  <2>4. EditInv'
    BY <1>5 DEF MakeEdit, Goto, StorageTypeOK, EditInv
  <2>5. AckedEditsSurvive'
    BY <1>5 DEF MakeEdit, Goto, AckedEditsSurvive, Recoverable
  <2> QED
    BY <2>1, <2>2, <2>3, <2>4, <2>5
<1>6. ASSUME NEW t \in Thread, Enter(t) PROVE StorageIInv'
  <2>1. StorageTypeOK'
    BY <1>6 DEF Enter, Goto, StorageTypeOK, InWrite, Thread
  <2>2. FilesAreWhole'
    BY <1>6, FreeLock DEF Enter, Goto, StorageTypeOK, FilesAreWhole, InWrite
  <2>3. WriterInv'
    <3> SUFFICES ASSUME NEW w \in Thread PROVE up' /\ Progress(w)'
      BY DEF WriterInv
    <3>1. pc[w] \in {"idle", "edited"}
      BY <1>6, FreeLock DEF Enter, Goto
    <3> QED
      BY <1>6, <3>1 DEF Enter, Goto, StorageTypeOK, WriterInv, Progress, Placing
  <2>4. EditInv'
    BY <1>6 DEF Enter, Goto, StorageTypeOK, EditInv
  <2>5. AckedEditsSurvive'
    BY <1>6 DEF Enter, Goto, AckedEditsSurvive, Recoverable
  <2> QED
    BY <2>1, <2>2, <2>3, <2>4, <2>5
<1>7. ASSUME NEW t \in Thread, CreateTemp(t) PROVE StorageIInv'
  <2>1. StorageTypeOK'
    BY <1>7 DEF CreateTemp, Goto, StorageTypeOK, InWrite, File, Config
  <2>2. FilesAreWhole'
    BY <1>7 DEF CreateTemp, Goto, StorageTypeOK, FilesAreWhole, InWrite
  <2>3. WriterInv'
    <3>1. up /\ lock = t
      BY <1>7 DEF CreateTemp, Goto, StorageTypeOK, FilesAreWhole, WriterInv, Progress, InWrite
    <3> SUFFICES ASSUME NEW w \in Thread PROVE Progress(w)'
      BY <1>7, <3>1 DEF CreateTemp, Goto, WriterInv
    <3>2. CASE w = t
      BY <1>7, <3>1, <3>2, <2>1 DEF CreateTemp, Goto, StorageTypeOK, WriterInv, Progress, Placing, File
    <3>3. CASE w # t
      <4>1. pc[w] \in {"idle", "edited"}
        BY <3>1, <3>3, OneWriter
      <4> QED
        BY <1>7, <3>3, <4>1 DEF CreateTemp, Goto, StorageTypeOK, Progress, Placing
    <3> QED
      BY <3>2, <3>3
  <2>4. EditInv'
    BY <1>7 DEF CreateTemp, Goto, StorageTypeOK, EditInv
  <2>5. AckedEditsSurvive'
    BY <1>7 DEF CreateTemp, Goto, AckedEditsSurvive, Recoverable
  <2> QED
    BY <2>1, <2>2, <2>3, <2>4, <2>5
<1>8. ASSUME NEW t \in Thread, WriteTemp(t) PROVE StorageIInv'
  <2>0. temp' \in File /\ temp'.content = memory
    <3>1. temp \in File /\ temp.content = memory
      BY <1>8 DEF WriteTemp, WriterInv, Progress
    <3>2. PICK complete \in BOOLEAN : temp' = [temp EXCEPT !.whole = complete]
      BY <1>8 DEF WriteTemp
    <3> QED
      BY <3>1, <3>2, FileFields
  <2>1. StorageTypeOK'
    BY <1>8, <2>0 DEF WriteTemp, Goto, StorageTypeOK, InWrite
  <2>2. FilesAreWhole'
    BY <1>8 DEF WriteTemp, Goto, StorageTypeOK, FilesAreWhole, InWrite
  <2>3. WriterInv'
    <3>1. up /\ lock = t
      BY <1>8 DEF WriteTemp, Goto, StorageTypeOK, FilesAreWhole, WriterInv, Progress, InWrite
    <3> SUFFICES ASSUME NEW w \in Thread PROVE Progress(w)'
      BY <1>8, <3>1 DEF WriteTemp, Goto, WriterInv
    <3>2. CASE w = t
      BY <1>8, <3>1, <3>2, <2>0 DEF WriteTemp, Goto, StorageTypeOK, Progress, Placing
    <3>3. CASE w # t
      <4>1. pc[w] \in {"idle", "edited"}
        BY <3>1, <3>3, OneWriter
      <4> QED
        BY <1>8, <3>3, <4>1 DEF WriteTemp, Goto, StorageTypeOK, Progress, Placing
    <3> QED
      BY <3>2, <3>3
  <2>4. EditInv'
    BY <1>8 DEF WriteTemp, Goto, StorageTypeOK, EditInv
  <2>5. AckedEditsSurvive'
    BY <1>8 DEF WriteTemp, Goto, AckedEditsSurvive, Recoverable
  <2> QED
    BY <2>1, <2>2, <2>3, <2>4, <2>5
<1>9. ASSUME NEW t \in Thread, FlushTemp(t) PROVE StorageIInv'
  <2>1. StorageTypeOK'
    BY <1>9, FileFields DEF FlushTemp, Goto, StorageTypeOK, InWrite, WriterInv, Progress
  <2>2. FilesAreWhole'
    BY <1>9 DEF FlushTemp, Goto, StorageTypeOK, FilesAreWhole, InWrite
  <2>3. WriterInv'
    <3>1. up /\ lock = t
      BY <1>9 DEF FlushTemp, Goto, StorageTypeOK, FilesAreWhole, WriterInv, Progress, InWrite
    <3> SUFFICES ASSUME NEW w \in Thread PROVE Progress(w)'
      BY <1>9, <3>1 DEF FlushTemp, Goto, WriterInv
    <3>2. CASE w = t
      BY <1>9, <3>1, <3>2, FileFields DEF FlushTemp, Goto, StorageTypeOK, WriterInv, Progress, Placing
    <3>3. CASE w # t
      <4>1. pc[w] \in {"idle", "edited"}
        BY <3>1, <3>3, OneWriter
      <4> QED
        BY <1>9, <3>3, <4>1 DEF FlushTemp, Goto, StorageTypeOK, Progress, Placing
    <3> QED
      BY <3>2, <3>3
  <2>4. EditInv'
    BY <1>9 DEF FlushTemp, Goto, StorageTypeOK, EditInv
  <2>5. AckedEditsSurvive'
    BY <1>9 DEF FlushTemp, Goto, AckedEditsSurvive, Recoverable
  <2> QED
    BY <2>1, <2>2, <2>3, <2>4, <2>5
<1>10. ASSUME NEW t \in Thread, VerifyTemp(t) PROVE StorageIInv'
  <2>1. StorageTypeOK'
    BY <1>10 DEF VerifyTemp, Goto, StorageTypeOK, InWrite, Thread
  <2>2. FilesAreWhole'
    BY <1>10 DEF VerifyTemp, Goto, StorageTypeOK, FilesAreWhole, InWrite
  <2>3. WriterInv'
    <3>1. up /\ lock = t
      BY <1>10 DEF VerifyTemp, Goto, StorageTypeOK, FilesAreWhole, WriterInv, Progress, InWrite
    <3> SUFFICES ASSUME NEW w \in Thread PROVE Progress(w)'
      BY <1>10, <3>1 DEF VerifyTemp, Goto, WriterInv
    <3>2. CASE w = t
      BY <1>10, <3>1, <3>2 DEF VerifyTemp, Goto, StorageTypeOK, WriterInv, Progress, Placing, OnDisk, File
    <3>3. CASE w # t
      <4>1. pc[w] \in {"idle", "edited"}
        BY <3>1, <3>3, OneWriter
      <4> QED
        BY <1>10, <3>3, <4>1 DEF VerifyTemp, Goto, StorageTypeOK, Progress, Placing
    <3> QED
      BY <3>2, <3>3
  <2>4. EditInv'
    BY <1>10 DEF VerifyTemp, Goto, StorageTypeOK, EditInv
  <2>5. AckedEditsSurvive'
    BY <1>10 DEF VerifyTemp, Goto, AckedEditsSurvive, Recoverable
  <2> QED
    BY <2>1, <2>2, <2>3, <2>4, <2>5
<1>11. ASSUME NEW t \in Thread, Place(t) PROVE StorageIInv'
  <2>1. StorageTypeOK'
    BY <1>11 DEF Place, Goto, StorageTypeOK, InWrite, Thread
  <2>2. FilesAreWhole'
    BY <1>11 DEF Place, Goto, StorageTypeOK, FilesAreWhole, InWrite
  <2>3. WriterInv'
    <3>1. up /\ lock = t
      BY <1>11 DEF Place, Goto, StorageTypeOK, FilesAreWhole, WriterInv, Progress, InWrite
    <3> SUFFICES ASSUME NEW w \in Thread PROVE Progress(w)'
      BY <1>11, <3>1 DEF Place, Goto, WriterInv
    <3>2. CASE w = t
      BY <1>11, <3>1, <3>2 DEF Place, Goto, StorageTypeOK, WriterInv, Progress, Placing
    <3>3. CASE w # t
      <4>1. pc[w] \in {"idle", "edited"}
        BY <3>1, <3>3, OneWriter
      <4> QED
        BY <1>11, <3>3, <4>1 DEF Place, Goto, StorageTypeOK, Progress, Placing
    <3> QED
      BY <3>2, <3>3
  <2>4. EditInv'
    BY <1>11 DEF Place, Goto, StorageTypeOK, EditInv
  <2>5. AckedEditsSurvive'
    BY <1>11 DEF Place, Goto, AckedEditsSurvive, Recoverable
  <2> QED
    BY <2>1, <2>2, <2>3, <2>4, <2>5
<1>12. ASSUME NEW t \in Thread, DeleteBak(t) PROVE StorageIInv'
  <2>1. StorageTypeOK'
    BY <1>12 DEF DeleteBak, Goto, StorageTypeOK, InWrite, Thread
  <2>2. FilesAreWhole'
    BY <1>12 DEF DeleteBak, Goto, StorageTypeOK, FilesAreWhole, InWrite
  <2>3. WriterInv'
    <3>1. up /\ lock = t
      BY <1>12 DEF DeleteBak, Goto, StorageTypeOK, FilesAreWhole, WriterInv, Progress, InWrite
    <3> SUFFICES ASSUME NEW w \in Thread PROVE Progress(w)'
      BY <1>12, <3>1 DEF DeleteBak, Goto, WriterInv
    <3>2. CASE w = t
      BY <1>12, <3>1, <3>2 DEF DeleteBak, Goto, StorageTypeOK, WriterInv, Progress, Placing
    <3>3. CASE w # t
      <4>1. pc[w] \in {"idle", "edited"}
        BY <3>1, <3>3, OneWriter
      <4> QED
        BY <1>12, <3>3, <4>1 DEF DeleteBak, Goto, StorageTypeOK, Progress, Placing
    <3> QED
      BY <3>2, <3>3
  <2>4. EditInv'
    BY <1>12 DEF DeleteBak, Goto, StorageTypeOK, EditInv
  <2>5. AckedEditsSurvive'
    BY <1>12 DEF DeleteBak, Goto, AckedEditsSurvive, Recoverable, WriterInv, Progress
  <2> QED
    BY <2>1, <2>2, <2>3, <2>4, <2>5
<1>13. ASSUME NEW t \in Thread, Rename(t) PROVE StorageIInv'
  <2>1. StorageTypeOK'
    BY <1>13 DEF Rename, Goto, StorageTypeOK, InWrite, Thread
  <2>2. FilesAreWhole'
    BY <1>13 DEF Rename, Goto, StorageTypeOK, FilesAreWhole, InWrite
  <2>3. WriterInv'
    <3>1. up /\ lock = t
      BY <1>13 DEF Rename, Goto, StorageTypeOK, FilesAreWhole, WriterInv, Progress, InWrite
    <3> SUFFICES ASSUME NEW w \in Thread PROVE Progress(w)'
      BY <1>13, <3>1 DEF Rename, Goto, WriterInv
    <3>2. CASE w = t
      BY <1>13, <3>1, <3>2 DEF Rename, Goto, StorageTypeOK, WriterInv, Progress, Placing
    <3>3. CASE w # t
      <4>1. pc[w] \in {"idle", "edited"}
        BY <3>1, <3>3, OneWriter
      <4> QED
        BY <1>13, <3>3, <4>1 DEF Rename, Goto, StorageTypeOK, Progress, Placing
    <3> QED
      BY <3>2, <3>3
  <2>4. EditInv'
    BY <1>13 DEF Rename, Goto, StorageTypeOK, EditInv
  <2>5. AckedEditsSurvive'
    BY <1>13 DEF Rename, Goto, AckedEditsSurvive, Recoverable, WriterInv, Progress
  <2> QED
    BY <2>1, <2>2, <2>3, <2>4, <2>5
<1>14. ASSUME NEW t \in Thread, ReplaceFails(t) PROVE StorageIInv'
  <2>1. StorageTypeOK'
    BY <1>14 DEF ReplaceFails, Goto, StorageTypeOK, InWrite, Thread
  <2>2. FilesAreWhole'
    BY <1>14 DEF ReplaceFails, Goto, StorageTypeOK, FilesAreWhole, InWrite
  <2>3. WriterInv'
    <3>1. up /\ lock = t
      BY <1>14 DEF ReplaceFails, Goto, StorageTypeOK, FilesAreWhole, WriterInv, Progress, InWrite
    <3> SUFFICES ASSUME NEW w \in Thread PROVE Progress(w)'
      BY <1>14, <3>1 DEF ReplaceFails, Goto, WriterInv
    <3>2. CASE w = t
      BY <1>14, <3>1, <3>2 DEF ReplaceFails, Goto, StorageTypeOK, WriterInv, Progress, Placing
    <3>3. CASE w # t
      <4>1. pc[w] \in {"idle", "edited"}
        BY <3>1, <3>3, OneWriter
      <4> QED
        BY <1>14, <3>3, <4>1 DEF ReplaceFails, Goto, StorageTypeOK, Progress, Placing
    <3> QED
      BY <3>2, <3>3
  <2>4. EditInv'
    BY <1>14 DEF ReplaceFails, Goto, StorageTypeOK, EditInv
  <2>5. AckedEditsSurvive'
    BY <1>14 DEF ReplaceFails, Goto, AckedEditsSurvive, Recoverable
  <2> QED
    BY <2>1, <2>2, <2>3, <2>4, <2>5
<1>15. ASSUME NEW t \in Thread, MoveTemp(t) PROVE StorageIInv'
  <2>1. StorageTypeOK'
    BY <1>15 DEF MoveTemp, Goto, StorageTypeOK, InWrite, Thread
  <2>2. FilesAreWhole'
    BY <1>15, OnDiskIsFile DEF MoveTemp, Goto, StorageTypeOK, FilesAreWhole, InWrite, WriterInv, Progress, Placing
  <2>3. WriterInv'
    <3>1. up /\ lock = t
      BY <1>15 DEF MoveTemp, Goto, StorageTypeOK, FilesAreWhole, WriterInv, Progress, InWrite
    <3> SUFFICES ASSUME NEW w \in Thread PROVE Progress(w)'
      BY <1>15, <3>1 DEF MoveTemp, Goto, WriterInv
    <3>2. CASE w = t
      BY <1>15, <3>1, <3>2 DEF MoveTemp, Goto, StorageTypeOK, WriterInv, Progress, Placing
    <3>3. CASE w # t
      <4>1. pc[w] \in {"idle", "edited"}
        BY <3>1, <3>3, OneWriter
      <4> QED
        BY <1>15, <3>3, <4>1 DEF MoveTemp, Goto, StorageTypeOK, Progress, Placing
    <3> QED
      BY <3>2, <3>3
  <2>4. EditInv'
    BY <1>15 DEF MoveTemp, Goto, StorageTypeOK, EditInv
  <2>5. AckedEditsSurvive'
    BY <1>15, OnDiskIsFile DEF MoveTemp, Goto, StorageTypeOK, AckedEditsSurvive, Recoverable, ContentOf, WriterInv, Progress, Placing
  <2> QED
    BY <2>1, <2>2, <2>3, <2>4, <2>5
<1>16. ASSUME NEW t \in Thread, CallFails(t) PROVE StorageIInv'
  <2>1. StorageTypeOK'
    BY <1>16 DEF CallFails, GiveUp, Goto, StorageTypeOK, InWrite, Thread
  <2>2. FilesAreWhole'
    BY <1>16 DEF CallFails, GiveUp, Goto, StorageTypeOK, FilesAreWhole, InWrite
  <2>3. WriterInv'
    <3>1. up /\ lock = t
      BY <1>16 DEF CallFails, GiveUp, Goto, StorageTypeOK, FilesAreWhole, WriterInv, Progress, InWrite
    <3> SUFFICES ASSUME NEW w \in Thread PROVE Progress(w)'
      BY <1>16, <3>1 DEF CallFails, GiveUp, Goto, WriterInv
    <3>2. CASE w = t
      BY <1>16, <3>1, <3>2 DEF CallFails, GiveUp, Goto, StorageTypeOK, WriterInv, Progress, Placing
    <3>3. CASE w # t
      <4>1. pc[w] \in {"idle", "edited"}
        BY <3>1, <3>3, OneWriter
      <4> QED
        BY <1>16, <3>3, <4>1 DEF CallFails, GiveUp, Goto, StorageTypeOK, Progress, Placing
    <3> QED
      BY <3>2, <3>3
  <2>4. EditInv'
    BY <1>16 DEF CallFails, GiveUp, Goto, StorageTypeOK, EditInv
  <2>5. AckedEditsSurvive'
    BY <1>16 DEF CallFails, GiveUp, Goto, AckedEditsSurvive, Recoverable
  <2> QED
    BY <2>1, <2>2, <2>3, <2>4, <2>5
<1>17. ASSUME NEW t \in Thread, Leave(t) PROVE StorageIInv'
  <2>1. StorageTypeOK'
    BY <1>17 DEF Leave, Goto, StorageTypeOK, EditInv, Config
  <2>2. FilesAreWhole'
    BY <1>17 DEF Leave, Goto, StorageTypeOK, FilesAreWhole, InWrite, WriterInv, Progress
  <2>3. WriterInv'
    <3>1. up /\ lock = t
      BY <1>17 DEF Leave, Goto, StorageTypeOK, FilesAreWhole, WriterInv, Progress, InWrite
    <3> SUFFICES ASSUME NEW w \in Thread PROVE Progress(w)'
      BY <1>17, <3>1 DEF Leave, Goto, WriterInv
    <3>2. CASE w = t
      BY <1>17, <3>1, <3>2 DEF Leave, Goto, StorageTypeOK, WriterInv, Progress, Placing
    <3>3. CASE w # t
      <4>1. pc[w] \in {"idle", "edited"}
        BY <3>1, <3>3, OneWriter
      <4> QED
        BY <1>17, <3>3, <4>1 DEF Leave, Goto, StorageTypeOK, Progress, Placing
    <3> QED
      BY <3>2, <3>3
  <2>4. EditInv'
    BY <1>17 DEF Leave, Goto, StorageTypeOK, EditInv
  <2>5. AckedEditsSurvive'
    BY <1>17, OnDiskIsFile DEF Leave, Goto, StorageTypeOK, AckedEditsSurvive, Recoverable, ContentOf, WriterInv, Progress, EditInv
  <2> QED
    BY <2>1, <2>2, <2>3, <2>4, <2>5
<1> QED
  BY <1>1, <1>2, <1>3, <1>4, <1>5, <1>6, <1>7, <1>8, <1>9, <1>10, <1>11, <1>12, <1>13, <1>14, <1>15, <1>16, <1>17 DEF StorageNext, WriteStep

(***************************************************************************)
(* What Disk sees of a thread: nothing but its own save changes, and a     *)
(* thread that is not at a call has none.                                  *)
(***************************************************************************)
LEMMA SaveChanges ==
  ASSUME NEW t \in Thread, NEW x, Save(t)' = x,
         \A w \in Thread : w # t => Save(w)' = Save(w)
  PROVE  Saves' = [Saves EXCEPT ![t] = x]
  BY DEF Saves

LEMMA PhaseChanges ==
  ASSUME NEW t \in Thread, NEW next,
         Save(t) = [phase |-> "writing", content |-> OnDisk(memory)]
  PROVE  [Saves EXCEPT ![t].phase = next]
           = [Saves EXCEPT ![t] = [phase |-> next, content |-> OnDisk(memory)]]
<1>1. Saves[t] = [phase |-> "writing", content |-> OnDisk(memory)]
  BY DEF Saves
<1>2. [Saves[t] EXCEPT !.phase = next] = [phase |-> next, content |-> OnDisk(memory)]
  BY <1>1
<1> QED
  BY <1>2

LEMMA OthersSave ==
  ASSUME StorageIInv, NEW t \in Thread, lock = t \/ lock = Nobody, NEW label, Goto(t, label)
  PROVE  \A w \in Thread : w # t => Save(w)' = Save(w)
<1> SUFFICES ASSUME NEW w \in Thread, w # t PROVE Save(w)' = Save(w)
  OBVIOUS
<1>1. pc[w] \in {"idle", "edited"}
  BY OneWriter, FreeLock
<1>2. pc'[w] = pc[w]
  BY DEF Goto, StorageIInv, StorageInv, StorageTypeOK
<1> QED
  BY <1>1, <1>2 DEF Save, Phase, InWrite

LEMMA Idling ==
  ASSUME \A t \in Thread : pc[t] \in {"idle", "edited"} /\ pc'[t] \in {"idle", "edited"}
  PROVE  Saves' = Saves /\ Saves = [t \in Thread |-> Disk!Idle]
  BY DEF Saves, Save, Phase, InWrite, Disk!Idle

(***************************************************************************)
(* Every step is one of AtomicFile's, or one that it does not see.         *)
(***************************************************************************)
LEMMA AtomicStep == StorageIInv /\ StorageIInv' /\ [StorageNext]_storageVars => [Disk!Next]_(Disk!vars)
<1> SUFFICES ASSUME StorageIInv, StorageIInv', [StorageNext]_storageVars PROVE [Disk!Next]_(Disk!vars)
  OBVIOUS
<1> USE DEF history, disk
<1>1. CASE UNCHANGED storageVars
  BY <1>1 DEF storageVars, Disk!vars, Saves, Save, Phase, Recoverable
<1>2. CASE StartUp
  <2>1. \A w \in Thread : pc[w] \in {"idle", "edited"} /\ pc'[w] \in {"idle", "edited"}
    BY <1>2 DEF StartUp, StorageIInv, StorageInv, StorageTypeOK, WriterInv
  <2>2. UNCHANGED Recoverable
    BY <1>2 DEF StartUp, Recoverable
  <2> QED
    BY <2>1, <2>2, Idling DEF Disk!vars
<1>3. CASE Reload
  <2>1. \A w \in Thread : pc[w] \in {"idle", "edited"} /\ pc'[w] \in {"idle", "edited"}
    BY <1>3, FreeLock DEF Reload
  <2>2. UNCHANGED Recoverable
    BY <1>3 DEF Reload, Recoverable
  <2> QED
    BY <2>1, <2>2, Idling DEF Disk!vars
<1>4. CASE Crash
  <2>1. AfterCrash(target) = target /\ AfterCrash(bak) = bak
    BY WholeSurvives DEF StorageIInv, StorageInv, StorageTypeOK, FilesAreWhole
  <2>2. UNCHANGED Recoverable
    BY <1>4, <2>1 DEF Crash, Recoverable
  <2>3. Saves' = [w \in Thread |-> Disk!Idle]
    BY <1>4 DEF Crash, Saves, Save, Phase, InWrite, Disk!Idle
  <2> QED
    BY <2>2, <2>3 DEF Disk!Next, Disk!Crash
<1>5. ASSUME NEW t \in Thread, NEW e \in Edit, MakeEdit(t, e) PROVE [Disk!Next]_(Disk!vars)
  <2>1. \A w \in Thread : pc[w] \in {"idle", "edited"} /\ pc'[w] \in {"idle", "edited"}
    BY <1>5, FreeLock DEF MakeEdit, Goto, StorageIInv, StorageInv, StorageTypeOK
  <2>2. UNCHANGED Recoverable
    BY <1>5 DEF MakeEdit, Recoverable
  <2> QED
    BY <2>1, <2>2, Idling DEF Disk!vars
<1>6. ASSUME NEW t \in Thread, Enter(t) PROVE [Disk!Next]_(Disk!vars)
  <2>1. lock = t \/ lock = Nobody
    BY <1>6 DEF Enter
  <2>2. Goto(t, "create")
    BY <1>6 DEF Enter
  <2>3. \A w \in Thread : w # t => Save(w)' = Save(w)
    BY <2>1, <2>2, OthersSave
  <2>4. Save(t)' = [phase |-> "writing", content |-> OnDisk(memory)]
    BY <1>6, <2>2 DEF Enter, Goto, StorageIInv, StorageInv, StorageTypeOK, Save, Phase, InWrite, Disk!Idle
  <2>5. Save(t) = Disk!Idle
    BY <1>6 DEF Enter, Save, Phase, InWrite, Disk!Idle
  <2>6. UNCHANGED Recoverable
    BY <1>6 DEF Enter, Recoverable
  <2>7. Saves' = [Saves EXCEPT ![t] = [phase |-> "writing", content |-> OnDisk(memory)]]
    BY <2>3, <2>4, SaveChanges
  <2>8. Saves[t] = Save(t)
    BY DEF Saves
  <2>9. OnDisk(memory) \in {OnDisk(c) : c \in Config}
    BY DEF StorageIInv, StorageInv, StorageTypeOK
  <2>10. Disk!Begin(t, OnDisk(memory))
    BY <2>5, <2>6, <2>7, <2>8 DEF Disk!Begin
  <2> QED
    BY <2>9, <2>10 DEF Disk!Next
<1>7. ASSUME NEW t \in Thread, CreateTemp(t) PROVE [Disk!Next]_(Disk!vars)
  <2>1. lock = t \/ lock = Nobody
    BY <1>7 DEF CreateTemp, StorageIInv, StorageInv, StorageTypeOK, FilesAreWhole, WriterInv, Progress, InWrite
  <2>2. Goto(t, "write")
    BY <1>7 DEF CreateTemp
  <2>3. \A w \in Thread : w # t => Save(w)' = Save(w)
    BY <2>1, <2>2, OthersSave
  <2>4. Save(t)' = Save(t)
    BY <1>7, <2>2 DEF CreateTemp, Goto, StorageIInv, StorageInv, StorageTypeOK, Save, Phase, InWrite
  <2>5. UNCHANGED Saves
    BY <2>3, <2>4 DEF Saves
  <2>6. UNCHANGED Recoverable
    BY <1>7 DEF CreateTemp, Recoverable
  <2> QED
    BY <2>5, <2>6 DEF Disk!vars
<1>8. ASSUME NEW t \in Thread, WriteTemp(t) PROVE [Disk!Next]_(Disk!vars)
  <2>1. lock = t \/ lock = Nobody
    BY <1>8 DEF WriteTemp, StorageIInv, StorageInv, StorageTypeOK, FilesAreWhole, WriterInv, Progress, InWrite
  <2>2. Goto(t, "flush")
    BY <1>8 DEF WriteTemp
  <2>3. \A w \in Thread : w # t => Save(w)' = Save(w)
    BY <2>1, <2>2, OthersSave
  <2>4. Save(t)' = Save(t)
    BY <1>8, <2>2 DEF WriteTemp, Goto, StorageIInv, StorageInv, StorageTypeOK, Save, Phase, InWrite
  <2>5. UNCHANGED Saves
    BY <2>3, <2>4 DEF Saves
  <2>6. UNCHANGED Recoverable
    BY <1>8 DEF WriteTemp, Recoverable
  <2> QED
    BY <2>5, <2>6 DEF Disk!vars
<1>9. ASSUME NEW t \in Thread, FlushTemp(t) PROVE [Disk!Next]_(Disk!vars)
  <2>1. lock = t \/ lock = Nobody
    BY <1>9 DEF FlushTemp, StorageIInv, StorageInv, StorageTypeOK, FilesAreWhole, WriterInv, Progress, InWrite
  <2>2. Goto(t, "verify")
    BY <1>9 DEF FlushTemp
  <2>3. \A w \in Thread : w # t => Save(w)' = Save(w)
    BY <2>1, <2>2, OthersSave
  <2>4. Save(t)' = Save(t)
    BY <1>9, <2>2 DEF FlushTemp, Goto, StorageIInv, StorageInv, StorageTypeOK, Save, Phase, InWrite
  <2>5. UNCHANGED Saves
    BY <2>3, <2>4 DEF Saves
  <2>6. UNCHANGED Recoverable
    BY <1>9 DEF FlushTemp, Recoverable
  <2> QED
    BY <2>5, <2>6 DEF Disk!vars
<1>10. ASSUME NEW t \in Thread, VerifyTemp(t) PROVE [Disk!Next]_(Disk!vars)
  <2>1. lock = t \/ lock = Nobody
    BY <1>10 DEF VerifyTemp, StorageIInv, StorageInv, StorageTypeOK, FilesAreWhole, WriterInv, Progress, InWrite
  <2>2. Goto(t, "place")
    BY <1>10 DEF VerifyTemp
  <2>3. \A w \in Thread : w # t => Save(w)' = Save(w)
    BY <2>1, <2>2, OthersSave
  <2>4. Save(t)' = Save(t)
    BY <1>10, <2>2 DEF VerifyTemp, Goto, StorageIInv, StorageInv, StorageTypeOK, Save, Phase, InWrite
  <2>5. UNCHANGED Saves
    BY <2>3, <2>4 DEF Saves
  <2>6. UNCHANGED Recoverable
    BY <1>10 DEF VerifyTemp, Recoverable
  <2> QED
    BY <2>5, <2>6 DEF Disk!vars
<1>11. ASSUME NEW t \in Thread, Place(t) PROVE [Disk!Next]_(Disk!vars)
  <2>1. lock = t \/ lock = Nobody
    BY <1>11 DEF Place, StorageIInv, StorageInv, StorageTypeOK, FilesAreWhole, WriterInv, Progress, InWrite
  <2>2. Goto(t, IF target = NoFile THEN "move" ELSE "delbak")
    BY <1>11 DEF Place
  <2>3. \A w \in Thread : w # t => Save(w)' = Save(w)
    BY <2>1, <2>2, OthersSave
  <2>4. Save(t)' = Save(t)
    BY <1>11, <2>2 DEF Place, Goto, StorageIInv, StorageInv, StorageTypeOK, Save, Phase, InWrite
  <2>5. UNCHANGED Saves
    BY <2>3, <2>4 DEF Saves
  <2>6. UNCHANGED Recoverable
    BY <1>11 DEF Place, Recoverable
  <2> QED
    BY <2>5, <2>6 DEF Disk!vars
<1>12. ASSUME NEW t \in Thread, DeleteBak(t) PROVE [Disk!Next]_(Disk!vars)
  <2>1. lock = t \/ lock = Nobody
    BY <1>12 DEF DeleteBak, StorageIInv, StorageInv, StorageTypeOK, FilesAreWhole, WriterInv, Progress, InWrite
  <2>2. Goto(t, "rename")
    BY <1>12 DEF DeleteBak
  <2>3. \A w \in Thread : w # t => Save(w)' = Save(w)
    BY <2>1, <2>2, OthersSave
  <2>4. Save(t)' = Save(t)
    BY <1>12, <2>2 DEF DeleteBak, Goto, StorageIInv, StorageInv, StorageTypeOK, Save, Phase, InWrite
  <2>5. UNCHANGED Saves
    BY <2>3, <2>4 DEF Saves
  <2>6. UNCHANGED Recoverable
    BY <1>12 DEF DeleteBak, Recoverable, StorageIInv, StorageInv, StorageTypeOK, WriterInv, Progress
  <2> QED
    BY <2>5, <2>6 DEF Disk!vars
<1>13. ASSUME NEW t \in Thread, Rename(t) PROVE [Disk!Next]_(Disk!vars)
  <2>1. lock = t \/ lock = Nobody
    BY <1>13 DEF Rename, StorageIInv, StorageInv, StorageTypeOK, FilesAreWhole, WriterInv, Progress, InWrite
  <2>2. Goto(t, "swap")
    BY <1>13 DEF Rename
  <2>3. \A w \in Thread : w # t => Save(w)' = Save(w)
    BY <2>1, <2>2, OthersSave
  <2>4. Save(t)' = Save(t)
    BY <1>13, <2>2 DEF Rename, Goto, StorageIInv, StorageInv, StorageTypeOK, Save, Phase, InWrite
  <2>5. UNCHANGED Saves
    BY <2>3, <2>4 DEF Saves
  <2>6. UNCHANGED Recoverable
    BY <1>13 DEF Rename, Recoverable, StorageIInv, StorageInv, StorageTypeOK, WriterInv, Progress
  <2> QED
    BY <2>5, <2>6 DEF Disk!vars
<1>14. ASSUME NEW t \in Thread, ReplaceFails(t) PROVE [Disk!Next]_(Disk!vars)
  <2>1. lock = t \/ lock = Nobody
    BY <1>14 DEF ReplaceFails, StorageIInv, StorageInv, StorageTypeOK, FilesAreWhole, WriterInv, Progress, InWrite
  <2>2. Goto(t, "move")
    BY <1>14 DEF ReplaceFails
  <2>3. \A w \in Thread : w # t => Save(w)' = Save(w)
    BY <2>1, <2>2, OthersSave
  <2>4. Save(t)' = Save(t)
    BY <1>14, <2>2 DEF ReplaceFails, Goto, StorageIInv, StorageInv, StorageTypeOK, Save, Phase, InWrite
  <2>5. UNCHANGED Saves
    BY <2>3, <2>4 DEF Saves
  <2>6. UNCHANGED Recoverable
    BY <1>14 DEF ReplaceFails, Recoverable
  <2> QED
    BY <2>5, <2>6 DEF Disk!vars
<1>15. ASSUME NEW t \in Thread, MoveTemp(t) PROVE [Disk!Next]_(Disk!vars)
  <2>1. lock = t \/ lock = Nobody
    BY <1>15 DEF MoveTemp, StorageIInv, StorageInv, StorageTypeOK, FilesAreWhole, WriterInv, Progress, InWrite
  <2>2. Goto(t, "saved")
    BY <1>15 DEF MoveTemp
  <2>3. \A w \in Thread : w # t => Save(w)' = Save(w)
    BY <2>1, <2>2, OthersSave
  <2>4. Save(t)' = [phase |-> "saved", content |-> OnDisk(memory)]
    BY <1>15, <2>2 DEF MoveTemp, Goto, StorageIInv, StorageInv, StorageTypeOK, Save, Phase, InWrite
  <2>5. Save(t) = [phase |-> "writing", content |-> OnDisk(memory)]
    BY <1>15 DEF MoveTemp, Save, Phase, InWrite
  <2>6. Recoverable' = OnDisk(memory)
    BY <1>15, OnDiskIsFile DEF MoveTemp, Recoverable, StorageIInv, StorageInv, StorageTypeOK, WriterInv, Progress, Placing
  <2>7. Saves' = [Saves EXCEPT ![t] = [phase |-> "saved", content |-> OnDisk(memory)]]
    BY <2>3, <2>4, SaveChanges
  <2>8. Saves[t] = Save(t)
    BY DEF Saves
  <2>9. Disk!Commit(t)
    <3>1. [Saves EXCEPT ![t].phase = "saved"]
            = [Saves EXCEPT ![t] = [phase |-> "saved", content |-> OnDisk(memory)]]
      BY <2>5, PhaseChanges
    <3>2. Saves' = [Saves EXCEPT ![t].phase = "saved"]
      BY <2>7, <3>1
    <3> QED
      BY <2>5, <2>6, <2>8, <3>2 DEF Disk!Commit, Disk!Ends
  <2> QED
    BY <2>9 DEF Disk!Next
<1>16. ASSUME NEW t \in Thread, CallFails(t) PROVE [Disk!Next]_(Disk!vars)
  <2>1. lock = t \/ lock = Nobody
    BY <1>16 DEF CallFails, StorageIInv, StorageInv, StorageTypeOK, FilesAreWhole, WriterInv, Progress, InWrite
  <2>2. Goto(t, "failed")
    BY <1>16 DEF CallFails, GiveUp
  <2>3. \A w \in Thread : w # t => Save(w)' = Save(w)
    BY <2>1, <2>2, OthersSave
  <2>4. Save(t)' = [phase |-> "failed", content |-> OnDisk(memory)]
    BY <1>16, <2>2 DEF CallFails, GiveUp, Goto, StorageIInv, StorageInv, StorageTypeOK, Save, Phase, InWrite
  <2>5. Save(t) = [phase |-> "writing", content |-> OnDisk(memory)]
    BY <1>16 DEF CallFails, GiveUp, Save, Phase, InWrite
  <2>6. UNCHANGED Recoverable
    BY <1>16 DEF CallFails, GiveUp, Recoverable
  <2>7. Saves' = [Saves EXCEPT ![t] = [phase |-> "failed", content |-> OnDisk(memory)]]
    BY <2>3, <2>4, SaveChanges
  <2>8. Saves[t] = Save(t)
    BY DEF Saves
  <2>9. Disk!Fail(t)
    <3>1. [Saves EXCEPT ![t].phase = "failed"]
            = [Saves EXCEPT ![t] = [phase |-> "failed", content |-> OnDisk(memory)]]
      BY <2>5, PhaseChanges
    <3>2. Saves' = [Saves EXCEPT ![t].phase = "failed"]
      BY <2>7, <3>1
    <3> QED
      BY <2>5, <2>6, <2>8, <3>2 DEF Disk!Fail, Disk!Ends
  <2> QED
    BY <2>9 DEF Disk!Next
<1>17. ASSUME NEW t \in Thread, Leave(t) PROVE [Disk!Next]_(Disk!vars)
  <2>1. lock = t \/ lock = Nobody
    BY <1>17 DEF Leave, StorageIInv, StorageInv, StorageTypeOK, FilesAreWhole, WriterInv, Progress, InWrite
  <2>2. Goto(t, "idle")
    BY <1>17 DEF Leave
  <2>3. \A w \in Thread : w # t => Save(w)' = Save(w)
    BY <2>1, <2>2, OthersSave
  <2>4. Save(t)' = Disk!Idle
    BY <1>17, <2>2 DEF Leave, Goto, StorageIInv, StorageInv, StorageTypeOK, Save, Phase, InWrite, Disk!Idle
  <2>5. Save(t).phase \in {"saved", "failed"}
    BY <1>17 DEF Leave, Save, Phase, InWrite, Disk!Idle
  <2>6. UNCHANGED Recoverable
    BY <1>17 DEF Leave, Recoverable
  <2>7. Saves' = [Saves EXCEPT ![t] = Disk!Idle]
    BY <2>3, <2>4, SaveChanges
  <2>8. Saves[t] = Save(t)
    BY DEF Saves
  <2>9. Disk!Return(t)
    BY <2>5, <2>6, <2>7, <2>8 DEF Disk!Return
  <2> QED
    BY <2>9 DEF Disk!Next
<1> QED
  BY <1>1, <1>2, <1>3, <1>4, <1>5, <1>6, <1>7, <1>8, <1>9, <1>10, <1>11, <1>12, <1>13, <1>14, <1>15, <1>16, <1>17 DEF StorageNext, WriteStep

(* The program starts with a whole file, or none, and nothing to save. *)
LEMMA StorageStarts == StorageInit => StorageIInv
<1> SUFFICES ASSUME StorageInit PROVE StorageIInv  OBVIOUS
<1>1. OnDisk({}) \in File /\ OnDisk({}).content = {} /\ OnDisk({}).whole /\ OnDisk({}).flushed
  BY OnDiskIsFile DEF Config
<1>2. StorageTypeOK  BY <1>1 DEF StorageInit, StorageTypeOK, Config
<1>3. FilesAreWhole  BY <1>1 DEF StorageInit, FilesAreWhole, InWrite
<1>4. WriterInv  BY DEF StorageInit, WriterInv, Progress, Placing
<1>5. EditInv  BY DEF StorageInit, EditInv
<1>6. AckedEditsSurvive  BY DEF StorageInit, AckedEditsSurvive
<1> QED BY <1>2, <1>3, <1>4, <1>5, <1>6 DEF StorageIInv, StorageInv

(***************************************************************************)
(* Whatever fails and wherever the program or the machine stops, no        *)
(* partial config.ini or backup is left.                                   *)
(***************************************************************************)
THEOREM FilesStayWhole == StorageSpec => []StorageInv
<1>1. StorageIInv => StorageInv
  BY DEF StorageIInv
<1> QED
  BY <1>1, StorageStarts, StorageStep, PTL DEF StorageSpec

(***************************************************************************)
(* For any number of workers and edits: what was reported as saved stays.  *)
(***************************************************************************)
THEOREM SavedEditsStay == StorageSpec => []AckedEditsSurvive
<1>1. StorageIInv => AckedEditsSurvive
  BY DEF StorageIInv
<1> QED
  BY <1>1, StorageStarts, StorageStep, PTL DEF StorageSpec

(***************************************************************************)
(* The write call by call implements the atomic file.                      *)
(***************************************************************************)
THEOREM ImplementsAtomicFile == StorageSpec => WritesAreAtomic
<1>1. StorageInit => Disk!Init
  <2> SUFFICES ASSUME StorageInit PROVE Disk!Init
    OBVIOUS
  <2>1. Recoverable \in {OnDisk(c) : c \in Config} \cup {NoFile}
    BY DEF StorageInit, Recoverable, Config
  <2>2. Saves = [t \in Thread |-> Disk!Idle]
    BY DEF StorageInit, Saves, Save, Phase, InWrite, Disk!Idle
  <2> QED
    BY <2>1, <2>2 DEF Disk!Init
<1> QED
  BY <1>1, StorageStarts, StorageStep, AtomicStep, PTL DEF StorageSpec, WritesAreAtomic, Disk!Spec
=============================================================================
