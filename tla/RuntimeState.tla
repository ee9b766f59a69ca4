---------------------------- MODULE RuntimeState ----------------------------
(***************************************************************************)
(* keysidekick::RuntimeState: the lifecycle of the session, the health of  *)
(* its parts, and the waiters told of every change.  One step is what a    *)
(* thread does while it holds mutex_; a waiter leaves it in                *)
(* condition_variable::wait_for, whose deadline is a GetTickCount() value  *)
(* that starts again at 0 after Wrap ticks.                                *)
(***************************************************************************)
EXTENDS Integers

CONSTANTS
  Subsystem,    \* device, HTTP, tray and configuration
  Health,       \* what is known of a subsystem
  Unknown,      \* Health::unknown
  Profile,      \* id, name and mode of an active profile
  NoProfile,
  Error,        \* code and message of an error
  NoError,
  Waiter,       \* threads that call WaitForRevision
  Timeout,      \* the timeouts they pass, in ticks
  Wrap,         \* 2^32 in the program
  Boot,         \* GetTickCount() in the initial state
  MaxRevision,  \* bound of the changes
  MaxReport,    \* bound of the time of a report
  MaxTicks      \* bound of the time that passes

ASSUME RuntimeAssumption ==
  /\ Unknown \in Health /\ NoProfile \notin Profile /\ NoError \notin Error
  /\ Wrap \in Nat \ {0} /\ Boot \in 0..(Wrap - 1)
  /\ Timeout \subseteq Nat
  /\ MaxRevision \in Nat /\ MaxReport \in Nat /\ MaxTicks \in Nat

VARIABLES
  snapshot,     \* what Snapshot() returns
  resumeState,  \* where ResumeSession goes back to
  ticks,        \* ticks since the initial state
  wait,         \* per waiter, the call of WaitForRevision it is in
  answer        \* per waiter, the last WaitResult (of its snapshot, revision and
                \* lifecycle), with what was asked and the ticks it took

vars == <<snapshot, resumeState, ticks, wait, answer>>

Lifecycle == {"starting", "waiting_device", "opening", "connected", "reconnecting",
              "paused_session", "error", "stopping"}

Snapshots ==
  [lifecycle : Lifecycle, health : [Subsystem -> Health], profile : Profile \cup {NoProfile},
   revision : Nat, lastError : Error \cup {NoError}, lastReport : 0..MaxReport]

(* A call is over, asleep in SleepConditionVariableCS, or awake and about  *)
(* to look again: woken, or timed out.                                     *)
Waits ==
  [pc : {"idle", "asleep", "woken", "timedOut"}, observed : Nat, timeout : Timeout \cup {0},
   deadline : 0..(Wrap - 1), remaining : Nat, waited : Nat]

Answers ==
  [status : {"none", "changed", "timeout", "shutdown"}, revision : Nat, lifecycle : Lifecycle,
   observed : Nat, timeout : Timeout \cup {0}, waited : Nat]

InitialSnapshot ==
  [lifecycle |-> "starting", health |-> [s \in Subsystem |-> Unknown], profile |-> NoProfile,
   revision |-> 0, lastError |-> NoError, lastReport |-> 0]

NoWait == [pc |-> "idle", observed |-> 0, timeout |-> 0, deadline |-> 0, remaining |-> 0,
           waited |-> 0]

Init ==
  /\ snapshot = InitialSnapshot
  /\ resumeState = "waiting_device"
  /\ ticks = 0
  /\ wait = [w \in Waiter |-> NoWait]
  /\ answer = [w \in Waiter |-> [status |-> "none", revision |-> 0, lifecycle |-> "starting",
                                 observed |-> 0, timeout |-> 0, waited |-> 0]]
-----------------------------------------------------------------------------
Stopping == snapshot.lifecycle = "stopping"

AwakenAll == [w \in Waiter |-> IF wait[w].pc = "asleep" THEN [wait[w] EXCEPT !.pc = "woken"]
                                                       ELSE wait[w]]

(* CommitChangeLocked: every change of the snapshot is a new revision. *)
Commit(changed) ==
  /\ snapshot.revision < MaxRevision  \* bound
  /\ snapshot' = [changed EXCEPT !.revision = snapshot.revision + 1]
  /\ wait' = AwakenAll
  /\ UNCHANGED <<ticks, answer>>

(* IsAllowedTransition: a state paused, failed or stopped is reached by    *)
(* the operations below only.                                              *)
NextLifecycle ==
  [starting       |-> {"waiting_device", "opening"},
   waiting_device |-> {"opening", "reconnecting"},
   opening        |-> {"connected", "waiting_device", "reconnecting"},
   connected      |-> {"reconnecting", "waiting_device"},
   reconnecting   |-> {"waiting_device", "opening", "connected"},
   error          |-> {"waiting_device", "opening", "reconnecting"},
   paused_session |-> {},
   stopping       |-> {}]

(* Mutant: the error survives the transition. *)
TransitionKeepsError(next) ==
  /\ next \in NextLifecycle[snapshot.lifecycle]
  /\ Commit([snapshot EXCEPT !.lifecycle = next])
  /\ UNCHANGED resumeState

TransitionTo(next) ==
  /\ next \in NextLifecycle[snapshot.lifecycle]
  /\ Commit([snapshot EXCEPT !.lifecycle = next, !.lastError = NoError])
  /\ UNCHANGED resumeState

PauseSession ==
  /\ snapshot.lifecycle \notin {"paused_session", "stopping"}
  /\ resumeState' = IF snapshot.lifecycle = "starting" THEN "waiting_device"
                                                      ELSE snapshot.lifecycle
  /\ Commit([snapshot EXCEPT !.lifecycle = "paused_session"])

ResumeSession ==
  /\ snapshot.lifecycle = "paused_session"
  /\ resumeState \notin {"paused_session", "stopping"}
  /\ Commit([snapshot EXCEPT !.lifecycle = resumeState])
  /\ UNCHANGED resumeState

(* An error also ends a pause. *)
SetError(e) ==
  /\ ~ Stopping
  /\ ~ (snapshot.lifecycle = "error" /\ snapshot.lastError = e)
  /\ Commit([snapshot EXCEPT !.lifecycle = "error", !.lastError = e])
  /\ UNCHANGED resumeState

Stop ==
  /\ ~ Stopping
  /\ Commit([snapshot EXCEPT !.lifecycle = "stopping"])
  /\ UNCHANGED resumeState

(* UpdateDeviceHealth and its three siblings. *)
UpdateHealth(s, h) ==
  /\ ~ Stopping
  /\ snapshot.health[s] # h
  /\ Commit([snapshot EXCEPT !.health[s] = h])
  /\ UNCHANGED resumeState

UpdateSubsystemHealth(hs) ==
  /\ ~ Stopping
  /\ snapshot.health # hs
  /\ Commit([snapshot EXCEPT !.health = hs])
  /\ UNCHANGED resumeState

UpdateProfile(p) ==
  /\ ~ Stopping
  /\ snapshot.profile # p
  /\ Commit([snapshot EXCEPT !.profile = p])
  /\ UNCHANGED resumeState

(* Mutant: a late report moves the time back. *)
MarkAnyReport(t) ==
  /\ ~ Stopping
  /\ t # snapshot.lastReport
  /\ Commit([snapshot EXCEPT !.lastReport = t])
  /\ UNCHANGED resumeState

(* Reports of several threads come in any order: an older one is ignored. *)
MarkReport(t) ==
  /\ ~ Stopping
  /\ t > snapshot.lastReport
  /\ Commit([snapshot EXCEPT !.lastReport = t])
  /\ UNCHANGED resumeState
-----------------------------------------------------------------------------
GetTickCount == (Boot + ticks) % Wrap

(* Mutant: a waiter does not look for the stop. *)
NewRevision(c) == snapshot.revision > c.observed

Ready(c) == snapshot.revision > c.observed \/ Stopping

(* WaitForRevision returns, with the snapshot of the moment. *)
Return(w, c, ready) ==
  /\ answer' = [answer EXCEPT ![w] =
       [status |-> IF Stopping THEN "shutdown" ELSE IF ready THEN "changed" ELSE "timeout",
        revision |-> snapshot.revision, lifecycle |-> snapshot.lifecycle,
        observed |-> c.observed, timeout |-> c.timeout, waited |-> c.waited]]
  /\ wait' = [wait EXCEPT ![w] = NoWait]

(* The loop of wait_for from its test on: return, give up, or sleep. *)
LookAgain(w, c) ==
  \/ /\ Ready(c)
     /\ Return(w, c, TRUE)
  \/ /\ ~ Ready(c)
     /\ GetTickCount >= c.deadline
     /\ Return(w, c, FALSE)
  \/ /\ ~ Ready(c)
     /\ GetTickCount < c.deadline
     /\ wait' = [wait EXCEPT ![w] = [c EXCEPT !.pc = "asleep",
                                              !.remaining = c.deadline - GetTickCount]]
     /\ UNCHANGED answer

WaitForRevision(w, observed, timeout) ==
  /\ wait[w].pc = "idle"
  /\ LookAgain(w, [NoWait EXCEPT !.observed = observed, !.timeout = timeout,
                                 !.deadline = (GetTickCount + timeout) % Wrap])
  /\ UNCHANGED <<snapshot, resumeState, ticks>>

Woken(w) ==
  /\ wait[w].pc = "woken"
  /\ LookAgain(w, wait[w])
  /\ UNCHANGED <<snapshot, resumeState, ticks>>

(* SleepConditionVariableCS gives up, and then waits for mutex_. *)
SleepEnds(w) ==
  /\ wait[w].pc = "asleep" /\ wait[w].remaining = 0
  /\ wait' = [wait EXCEPT ![w].pc = "timedOut"]
  /\ UNCHANGED <<snapshot, resumeState, ticks, answer>>

(* Mutant: the wait that timed out does not look again. *)
TimedOutBlindly(w) ==
  /\ wait[w].pc = "timedOut"
  /\ Return(w, wait[w], FALSE)
  /\ UNCHANGED <<snapshot, resumeState, ticks>>

TimedOut(w) ==
  /\ wait[w].pc = "timedOut"
  /\ Return(w, wait[w], Ready(wait[w]))
  /\ UNCHANGED <<snapshot, resumeState, ticks>>

OneTickLater(c) ==
  IF c.pc = "idle" THEN c
  ELSE [c EXCEPT !.waited = @ + 1, !.remaining = IF @ > 0 THEN @ - 1 ELSE 0]

(* A millisecond passes; nobody sleeps much longer than it asked to. *)
Tick ==
  /\ ticks < MaxTicks  \* bound
  /\ ticks' = ticks + 1
  /\ wait' = [w \in Waiter |-> OneTickLater(wait[w])]
  /\ UNCHANGED <<snapshot, resumeState, answer>>

WaiterStep(w) ==
  \/ \E o \in 0..MaxRevision, t \in Timeout : WaitForRevision(w, o, t)
  \/ Woken(w)
  \/ SleepEnds(w)
  \/ TimedOut(w)

Change ==
  \/ \E l \in Lifecycle : TransitionTo(l)
  \/ PauseSession
  \/ ResumeSession
  \/ \E e \in Error : SetError(e)
  \/ Stop
  \/ \E s \in Subsystem, h \in Health : UpdateHealth(s, h)
  \/ \E hs \in [Subsystem -> Health] : UpdateSubsystemHealth(hs)
  \/ \E p \in Profile : UpdateProfile(p)
  \/ \E t \in 0..MaxReport : MarkReport(t)

Next ==
  \/ Change
  \/ \E w \in Waiter : WaiterStep(w)
  \/ Tick

Spec == Init /\ [][Next]_vars

(* The scheduler runs a thread that is awake, and ends a sleep in time. *)
Fairness ==
  \A w \in Waiter : WF_vars(Woken(w)) /\ WF_vars(SleepEnds(w)) /\ WF_vars(TimedOut(w))

FairSpec == Spec /\ Fairness
-----------------------------------------------------------------------------
TypeOK ==
  /\ snapshot \in Snapshots
  /\ resumeState \in Lifecycle
  /\ ticks \in Nat
  /\ wait \in [Waiter -> Waits]
  /\ answer \in [Waiter -> Answers]

(***************************************************************************)
(* An error is kept as long as the session is in it and no longer, through *)
(* any pauses: a session that works shows no old error, and one that shows *)
(* an error is in it, will resume in it, or has stopped.                   *)
(***************************************************************************)
ErrorIsCurrent ==
  LET underneath == IF snapshot.lifecycle = "paused_session" THEN resumeState
                                                            ELSE snapshot.lifecycle
  IN  ~ Stopping => (snapshot.lastError # NoError <=> underneath = "error")

(***************************************************************************)
(* No wake-up is missed: a waiter still asleep has nothing to be told of.  *)
(***************************************************************************)
SleepersHaveNoNews == \A w \in Waiter : wait[w].pc = "asleep" => ~ Ready(wait[w])

(***************************************************************************)
(* WaitForRevision tells the truth about the snapshot it returns, also     *)
(* when the change comes in the moment the wait runs out.                  *)
(***************************************************************************)
AnswerIsRight ==
  \A w \in Waiter :
    LET a == answer[w] IN
      /\ a.status = "shutdown" => a.lifecycle = "stopping"
      /\ a.status = "changed" => /\ a.revision > a.observed
                                 /\ a.lifecycle # "stopping"
      /\ a.status = "timeout" => /\ a.revision <= a.observed
                                 /\ a.lifecycle # "stopping"

(***************************************************************************)
(* Waiters are neither forgotten nor lied to.                              *)
(***************************************************************************)
WaitsAreTrue == SleepersHaveNoNews /\ AnswerIsRight

(***************************************************************************)
(* A wait that ends with "timeout" has lasted its timeout.  It holds until *)
(* the tick counter wraps.                                                 *)
(***************************************************************************)
TimeoutIsReal ==
  \A w \in Waiter : answer[w].status = "timeout" => answer[w].waited >= answer[w].timeout

(***************************************************************************)
(* Two snapshots with one revision are the same, so that a client that     *)
(* compares revisions misses nothing; the last report never goes back; and *)
(* after Stop nothing changes any more.                                    *)
(***************************************************************************)
RevisionsTell ==
  [][/\ snapshot' # snapshot => snapshot'.revision > snapshot.revision
     /\ snapshot'.lastReport >= snapshot.lastReport
     /\ Stopping => snapshot' = snapshot]_vars

(***************************************************************************)
(* Stop ends every wait, and the waiter learns why.                        *)
(***************************************************************************)
StopIsHeard ==
  \A w \in Waiter :
    (Stopping /\ wait[w].pc # "idle") ~> (wait[w].pc = "idle" /\ answer[w].status = "shutdown")
=============================================================================
