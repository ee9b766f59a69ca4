---------------------------- MODULE CommandQueue ----------------------------
(***************************************************************************)
(* command_queue::CommandQueue: requests of several threads, executed by   *)
(* the threads that own the state they change.  One step is what a thread  *)
(* does while it holds mutex_ of the queue or mtx of a command; conditions *)
(* are notified after the mutex is released, a step of its own.            *)
(***************************************************************************)
EXTENDS Integers, Sequences, FiniteSets

CONSTANTS
  Caller,  \* threads that enqueue a command and wait for its outcome
  Owner,   \* threads that pop and fulfil commands
  Capacity,
  MaxId    \* bound of the commands

ASSUME QueueAssumption ==
  /\ IsFiniteSet(Caller) /\ IsFiniteSet(Owner) /\ Caller \cap Owner = {}
  /\ Capacity \in Nat \ {0}  \* the constructor throws otherwise
  /\ MaxId \in Nat

VARIABLES
  commands,   \* the queue, of ids
  nextId,
  shutdown,   \* FALSE, then TRUE
  closing,    \* the shutdown is not yet told to the owners
  state,      \* per command, its State: completionStatus with its value, cancellationRequested
  caller,     \* per caller, the call it is in and its Request
  owner       \* per owner, the call it is in and its Command

queueVars == <<commands, nextId, shutdown, closing, state, caller, owner>>

Id == 1..MaxId
NoId == 0

Pending == "Pending"
Completion == {Pending} \cup Owner

QueueInit ==
  /\ commands = <<>> /\ nextId = 1
  /\ shutdown = FALSE /\ closing = FALSE
  /\ state = [i \in Id |-> [completion |-> Pending, cancellationRequested |-> FALSE]]
  /\ caller = [c \in Caller |-> [pc |-> "idle", id |-> NoId]]
  /\ owner = [o \in Owner |-> [pc |-> "idle", id |-> NoId]]
-----------------------------------------------------------------------------
(* enqueueValue: a command is accepted, or refused because the queue is    *)
(* shut down or full.                                                      *)
Enqueue(c) ==
  /\ caller[c].pc = "idle"
  /\ nextId <= MaxId  \* bound
  /\ ~ shutdown /\ Len(commands) < Capacity
  /\ commands' = Append(commands, nextId)
  /\ nextId' = nextId + 1
  /\ caller' = [caller EXCEPT ![c] = [pc |-> "notify", id |-> nextId]]
  /\ UNCHANGED <<shutdown, closing, state, owner>>

Refused(c) ==
  /\ caller[c].pc = "idle"
  /\ shutdown \/ Len(commands) >= Capacity
  /\ caller' = [caller EXCEPT ![c].id = NoId]
  /\ UNCHANGED <<commands, nextId, shutdown, closing, state, owner>>

WakeOneOwner ==
  \/ /\ \A o \in Owner : owner[o].pc # "asleep"
     /\ UNCHANGED owner
  \/ \E o \in Owner : owner[o].pc = "asleep" /\ owner' = [owner EXCEPT ![o].pc = "woken"]

(* queueChanged_.notify_one() *)
NotifyOwner(c) ==
  /\ caller[c].pc = "notify"
  /\ WakeOneOwner
  /\ caller' = [caller EXCEPT ![c].pc = "idle"]
  /\ UNCHANGED <<commands, nextId, shutdown, closing, state>>

RequestCancellation(c) ==
  /\ caller[c].pc = "idle" /\ caller[c].id # NoId
  /\ LET i == caller[c].id IN
       /\ state[i].completion = Pending /\ ~ state[i].cancellationRequested
       /\ state' = [state EXCEPT ![i].cancellationRequested = TRUE]
  /\ UNCHANGED <<commands, nextId, shutdown, closing, caller, owner>>

(* wait and waitFor: sleep while the command is pending, or return its     *)
(* completion, copied to the Outcome.                                      *)
Look(c) ==
  caller' = [caller EXCEPT ![c].pc =
               IF state[caller[c].id].completion = Pending THEN "asleep" ELSE "idle"]

Wait(c) ==
  /\ caller[c].pc = "idle" /\ caller[c].id # NoId
  /\ Look(c)
  /\ UNCHANGED <<commands, nextId, shutdown, closing, state, owner>>

CallerWoken(c) ==
  /\ caller[c].pc = "woken"
  /\ Look(c)
  /\ UNCHANGED <<commands, nextId, shutdown, closing, state, owner>>

(* waitFor times out, and returns with the outcome if it came just now; if *)
(* not, the command stays, and the caller may wait again or forget it.     *)
WaitTimesOut(c) ==
  /\ caller[c].pc = "asleep"
  /\ caller' = [caller EXCEPT ![c].pc = "idle"]
  /\ UNCHANGED <<commands, nextId, shutdown, closing, state, owner>>
-----------------------------------------------------------------------------
TakeFront(o) ==
  /\ owner' = [owner EXCEPT ![o] = [pc |-> "working", id |-> Head(commands)]]
  /\ commands' = Tail(commands)

TryPop(o) ==
  /\ owner[o].pc = "idle"
  /\ commands # <<>>
  /\ TakeFront(o)
  /\ UNCHANGED <<nextId, shutdown, closing, state, caller>>

(* waitPop, from its call or from its sleep: the queue is emptied before   *)
(* the shutdown is returned.                                               *)
WaitPop(o) ==
  /\ owner[o].pc \in {"idle", "woken"}
  /\ \/ commands # <<>> /\ TakeFront(o)
     \/ /\ commands = <<>> /\ shutdown
        /\ owner' = [owner EXCEPT ![o].pc = "idle"]
        /\ UNCHANGED commands
     \/ /\ commands = <<>> /\ ~ shutdown
        /\ owner' = [owner EXCEPT ![o].pc = "asleep"]
        /\ UNCHANGED commands
  /\ UNCHANGED <<nextId, shutdown, closing, state, caller>>

(* A Command is a shared pointer: another thread may get a copy (of one    *)
(* not completed: the bound of the copies).                                *)
CopyCommand(o, p) ==
  /\ owner[o].pc = "working" /\ owner[p].pc = "idle"
  /\ state[owner[o].id].completion = Pending
  /\ owner' = [owner EXCEPT ![p] = owner[o]]
  /\ UNCHANGED <<commands, nextId, shutdown, closing, state, caller>>

(* completeSuccess and completeError: the first one counts.  A completion  *)
(* is named after its thread, its value being the thread's choice.         *)
Fulfil(o) ==
  /\ owner[o].pc = "working"
  /\ IF state[owner[o].id].completion = Pending
       THEN /\ state' = [state EXCEPT ![owner[o].id].completion = o]
            /\ owner' = [owner EXCEPT ![o].pc = "notify"]
       ELSE /\ owner' = [owner EXCEPT ![o] = [pc |-> "idle", id |-> NoId]]
            /\ UNCHANGED state
  /\ UNCHANGED <<commands, nextId, shutdown, closing, caller>>

(* Mutant: one of those who wait is told. *)
NotifyOneCaller(o) ==
  /\ owner[o].pc = "notify"
  /\ \/ /\ \A c \in Caller : ~ (caller[c].pc = "asleep" /\ caller[c].id = owner[o].id)
        /\ UNCHANGED caller
     \/ \E c \in Caller : /\ caller[c].pc = "asleep" /\ caller[c].id = owner[o].id
                         /\ caller' = [caller EXCEPT ![c].pc = "woken"]
  /\ owner' = [owner EXCEPT ![o] = [pc |-> "idle", id |-> NoId]]
  /\ UNCHANGED <<commands, nextId, shutdown, closing, state>>

(* completionChanged.notify_all(), after which the owner drops the command. *)
NotifyCallers(o) ==
  /\ owner[o].pc = "notify"
  /\ caller' = [c \in Caller |->
       IF caller[c].pc = "asleep" /\ caller[c].id = owner[o].id
         THEN [caller[c] EXCEPT !.pc = "woken"] ELSE caller[c]]
  /\ owner' = [owner EXCEPT ![o] = [pc |-> "idle", id |-> NoId]]
  /\ UNCHANGED <<commands, nextId, shutdown, closing, state>>

(* A Request, too, is a shared pointer. *)
CopyRequest(c, d) ==
  /\ caller[c].id # NoId /\ caller[d].pc = "idle"
  /\ caller' = [caller EXCEPT ![d].id = caller[c].id]
  /\ UNCHANGED <<commands, nextId, shutdown, closing, state, owner>>
-----------------------------------------------------------------------------
Shutdown ==
  /\ ~ shutdown
  /\ shutdown' = TRUE /\ closing' = TRUE
  /\ UNCHANGED <<commands, nextId, state, caller, owner>>

(* Mutant: one owner is told. *)
NotifyShutdownToOne ==
  /\ closing
  /\ closing' = FALSE
  /\ WakeOneOwner
  /\ UNCHANGED <<commands, nextId, shutdown, state, caller>>

(* queueChanged_.notify_all() *)
NotifyShutdown ==
  /\ closing
  /\ closing' = FALSE
  /\ owner' = [o \in Owner |-> IF owner[o].pc = "asleep" THEN [owner[o] EXCEPT !.pc = "woken"]
                                                        ELSE owner[o]]
  /\ UNCHANGED <<commands, nextId, shutdown, state, caller>>

CallerStep(c) ==
  \/ Enqueue(c) \/ Refused(c) \/ NotifyOwner(c) \/ RequestCancellation(c)
  \/ Wait(c) \/ CallerWoken(c) \/ WaitTimesOut(c)
  \/ \E d \in Caller : CopyRequest(c, d)

OwnerStep(o) ==
  \/ TryPop(o) \/ WaitPop(o) \/ Fulfil(o) \/ NotifyCallers(o)
  \/ \E p \in Owner : CopyCommand(o, p)

QueueNext ==
  \/ \E c \in Caller : CallerStep(c)
  \/ \E o \in Owner : OwnerStep(o)
  \/ Shutdown
  \/ NotifyShutdown

QueueSpec == QueueInit /\ [][QueueNext]_queueVars

(* A thread woken or in the middle of a call goes on, and an owner does    *)
(* what the owners of the tests do: pop until waitPop returns false, and   *)
(* fulfil what was popped.  Nobody has to enqueue, to wait or to shut down.*)
QueueFairness ==
  /\ \A c \in Caller : WF_queueVars(NotifyOwner(c)) /\ WF_queueVars(CallerWoken(c))
  /\ \A o \in Owner :
       WF_queueVars(WaitPop(o)) /\ WF_queueVars(Fulfil(o)) /\ WF_queueVars(NotifyCallers(o))
  /\ WF_queueVars(NotifyShutdown)

QueueFairSpec == QueueSpec /\ QueueFairness
-----------------------------------------------------------------------------
Threads(f, pc) == {t \in DOMAIN f : f[t].pc = pc}

QueueTypeOK ==
  /\ commands \in Seq(Id) /\ Len(commands) <= Capacity
  /\ nextId \in 1..(MaxId + 1)
  /\ shutdown \in BOOLEAN /\ closing \in BOOLEAN
  /\ state \in [Id -> [completion : Completion, cancellationRequested : BOOLEAN]]
  /\ caller \in [Caller -> [pc : {"idle", "notify", "asleep", "woken"}, id : Id \cup {NoId}]]
  /\ owner \in [Owner -> [pc : {"idle", "asleep", "woken", "working", "notify"},
                          id : Id \cup {NoId}]]

(***************************************************************************)
(* While an owner sleeps, there is for every command in the queue an owner *)
(* already woken, or a notify_one still to come; and a shutdown is still   *)
(* to be told.  Without it commands wait while owners sleep.               *)
(***************************************************************************)
NoLostWakeUp ==
  /\ QueueTypeOK
  /\ Threads(owner, "asleep") # {} =>
       /\ Len(commands) <= Cardinality(Threads(owner, "woken"))
                             + Cardinality(Threads(caller, "notify"))
       /\ shutdown => closing

(***************************************************************************)
(* Every accepted command is completed, also one that a shutdown finds in  *)
(* the queue.                                                              *)
(***************************************************************************)
EveryCommandCompletes ==
  \A i \in 1..MaxId : (i < nextId) ~> (state[i].completion # Pending)

(***************************************************************************)
(* Every wait ends: the caller comes back with the outcome, or timed out.  *)
(***************************************************************************)
EveryWaitEnds == \A c \in Caller : (caller[c].pc = "asleep") ~> (caller[c].pc = "idle")

(***************************************************************************)
(* Nothing that was accepted or waited for is left hanging.                *)
(***************************************************************************)
EverythingEnds == EveryCommandCompletes /\ EveryWaitEnds
=============================================================================
