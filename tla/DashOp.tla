------------------------------- MODULE DashOp -------------------------------
(***************************************************************************)
(* Write operations of the dashboard.  An HTTP worker allocates a DashOp,  *)
(* posts its address to the main thread and waits 15 s for the event in    *)
(* it; the main thread applies the operation, writes config.ini and sets   *)
(* the event.  Whoever is done last frees the operation: a caller that     *)
(* gave up leaves it to the main thread.                                   *)
(*                                                                         *)
(* Two requests change the configuration on the worker: an import writes   *)
(* config.ini and then posts a reload; the creation of an application      *)
(* edits the domain and then writes config.ini.  Both need g_csProfile,    *)
(* which the main thread holds in its handler, in ReloadConfig and in      *)
(* WriteConfig.  What a worker does under the lock is one step.            *)
(* A configuration is the set of the operations whose edits it contains.   *)
(***************************************************************************)
EXTENDS Naturals, Sequences, FiniteSets

CONSTANTS
  Worker,  \* HTTP worker threads
  Op,      \* write requests; the DashOp of one is allocated once
  NoOp,    \* no operation
  Kind,    \* what an operation is for
  MaxCalls \* bound on the requests that arrive

ASSUME DashOpAssumption ==
  /\ NoOp \notin Op
  /\ Kind \in [Op -> {"edit", "fire", "reload", "import", "create"}]

VARIABLES
  wpc,       \* control of every worker
  wop,       \* the operation a worker has in hand
  heap,      \* allocation state of every operation
  event,     \* its doneEvent
  timedOut,  \* its flag timedOut
  success,   \* its flag success
  queue,     \* WM_DASH_OP messages not yet dispatched
  mpc,       \* control of the main thread
  mop,       \* the operation it handles
  abandoned, \* its local copy of timedOut
  mem,       \* edits in g_domain and g_profiles
  file,      \* edits in config.ini
  diverged,  \* history: a failed read, write or post left mem and file apart
  served,    \* history: operations whose handler has decided on success
  answer     \* history: what the caller was told

worker == <<wpc, wop>>
object == <<heap, event, timedOut, success>>
main   == <<mpc, mop, abandoned>>
config == <<mem, file, diverged>>
ghost  == <<served, answer>>
vars   == <<worker, object, queue, main, config, ghost>>

(***************************************************************************)
(* Types; a thread has an operation in hand exactly while it serves one.   *)
(***************************************************************************)
TypeOK ==
  /\ wpc \in [Worker -> {"idle", "write", "post", "wait", "expired", "collect", "delete",
                       "create", "unsaved", "reply"}]
  /\ wop \in [Worker -> Op \cup {NoOp}]
  /\ heap \in [Op -> {"new", "live", "freed"}]
  /\ event \in [Op -> {"unset", "set", "closed"}]
  /\ timedOut \in [Op -> BOOLEAN]
  /\ success \in [Op -> BOOLEAN]
  /\ queue \in Seq(Op)
  /\ mpc \in {"pump", "apply", "save", "persist", "reenter", "reload",
              "epilogue", "signal", "dispose", "exited"}
  /\ mop \in Op \cup {NoOp}
  /\ abandoned \in BOOLEAN
  /\ mem \subseteq Op
  /\ file \subseteq Op
  /\ diverged \in BOOLEAN
  /\ served \subseteq Op
  /\ answer \in [Op -> {"none", "open", "ok", "error", "timeout"}]
  /\ \A w \in Worker : wop[w] = NoOp <=> wpc[w] = "idle"
  /\ mop = NoOp <=> mpc \in {"pump", "exited"}

Init ==
  /\ wpc = [w \in Worker |-> "idle"]
  /\ wop = [w \in Worker |-> NoOp]
  /\ heap = [o \in Op |-> "new"]
  /\ event = [o \in Op |-> "unset"]
  /\ timedOut = [o \in Op |-> FALSE]
  /\ success = [o \in Op |-> FALSE]
  /\ queue = <<>>
  /\ mpc = "pump" /\ mop = NoOp
  /\ abandoned = FALSE
  /\ mem = {} /\ file = {}
  /\ diverged = FALSE
  /\ served = {}
  /\ answer = [o \in Op |-> "none"]
-----------------------------------------------------------------------------
Go(w, label) == wpc' = [wpc EXCEPT ![w] = label]

Exhausted == Cardinality({o \in Op : answer[o] # "none"}) >= MaxCalls

(* The main thread is outside the regions that g_csProfile guards. *)
LockFree == mpc \notin {"apply", "persist", "reload"}

(***************************************************************************)
(* A request arrives: a valid import writes the file before it allocates   *)
(* its reload, and the creation of an application allocates no DashOp.     *)
(***************************************************************************)
Receive(w, o) ==
  /\ wpc[w] = "idle" /\ answer[o] = "none"
  /\ ~ Exhausted
  /\ wop' = [wop EXCEPT ![w] = o]
  /\ \/ Kind[o] = "import" /\ Go(w, "write") /\ UNCHANGED heap
     \/ Kind[o] = "create" /\ Go(w, "create") /\ UNCHANGED heap
     \/ /\ Kind[o] \in {"edit", "fire", "reload"}
        /\ Go(w, "post")
        /\ heap' = [heap EXCEPT ![o] = "live"]
  /\ answer' = [answer EXCEPT ![o] = "open"]
  /\ UNCHANGED <<event, timedOut, success, queue, main, config, served>>

(* AtomicWriteUtf8 under g_csProfile, which is left before RunDashOp. *)
WriteImport(w) ==
  /\ wpc[w] = "write" /\ LockFree
  /\ file' = {wop[w]}
  /\ heap' = [heap EXCEPT ![wop[w]] = "live"]
  /\ Go(w, "post")
  /\ UNCHANGED <<wop, event, timedOut, success, queue, main, mem, diverged, ghost>>

WriteImportFails(w) ==
  /\ wpc[w] = "write" /\ LockFree
  /\ answer' = [answer EXCEPT ![wop[w]] = "error"]
  /\ wop' = [wop EXCEPT ![w] = NoOp]
  /\ Go(w, "idle")
  /\ UNCHANGED <<object, queue, main, config, served>>

(* POST /applications/create edits the domain, under the lock, ... *)
CreateEdit(w) ==
  /\ wpc[w] = "create" /\ LockFree
  /\ mem' = mem \cup {wop[w]}
  /\ Go(w, "unsaved")
  /\ UNCHANGED <<wop, object, queue, main, file, diverged, ghost>>

(* ... leaves it, and enters it again in WriteConfig. *)
CreateSave(w) ==
  /\ wpc[w] = "unsaved" /\ LockFree
  /\ \/ /\ file' = mem /\ diverged' = FALSE
        /\ success' = [success EXCEPT ![wop[w]] = TRUE]
     \/ /\ UNCHANGED file /\ diverged' = TRUE
        /\ success' = [success EXCEPT ![wop[w]] = FALSE]
  /\ served' = served \cup {wop[w]}
  /\ Go(w, "reply")
  /\ UNCHANGED <<wop, heap, event, timedOut, queue, main, mem, answer>>

CreateReply(w) ==
  /\ wpc[w] = "reply"
  /\ answer' = [answer EXCEPT ![wop[w]] = IF success[wop[w]] THEN "ok" ELSE "error"]
  /\ wop' = [wop EXCEPT ![w] = NoOp]
  /\ Go(w, "idle")
  /\ UNCHANGED <<object, queue, main, config, served>>

(* RunDashOp: CreateEvent and PostMessage; both may fail. *)
Post(w) ==
  /\ wpc[w] = "post"
  /\ queue' = Append(queue, wop[w])
  /\ Go(w, "wait")
  /\ UNCHANGED <<wop, object, main, config, ghost>>

PostFails(w) ==
  /\ wpc[w] = "post"
  /\ event' = [event EXCEPT ![wop[w]] = "closed"]
  /\ answer' = [answer EXCEPT ![wop[w]] = "error"]
  /\ diverged' = (diverged \/ Kind[wop[w]] = "import")
  /\ Go(w, "delete")
  /\ UNCHANGED <<wop, heap, timedOut, success, queue, main, mem, file, served>>

(* WaitForSingleObject returns: the event is set, or the time is up. *)
WaitSucceeds(w) ==
  /\ wpc[w] = "wait" /\ event[wop[w]] = "set"
  /\ Go(w, "collect")
  /\ UNCHANGED <<wop, object, queue, main, config, ghost>>

(* Mutant: the wait starts over when the time is up. *)
WaitForever(w) == wpc[w] = "wait" /\ event[wop[w]] # "set" /\ UNCHANGED vars

WaitExpires(w) ==
  /\ wpc[w] = "wait" /\ event[wop[w]] # "set"
  /\ Go(w, "expired")
  /\ UNCHANGED <<wop, object, queue, main, config, ghost>>

(* Mutant: the event alone counts as success. *)
CollectUnchecked(w) ==
  /\ wpc[w] = "collect"
  /\ answer' = [answer EXCEPT ![wop[w]] = "ok"]
  /\ event' = [event EXCEPT ![wop[w]] = "closed"]
  /\ Go(w, "delete")
  /\ UNCHANGED <<wop, heap, timedOut, success, queue, main, config, served>>

(* The result is copied out of the operation and its event closed. *)
Collect(w) ==
  /\ wpc[w] = "collect"
  /\ answer' = [answer EXCEPT ![wop[w]] = IF success[wop[w]] THEN "ok" ELSE "error"]
  /\ event' = [event EXCEPT ![wop[w]] = "closed"]
  /\ Go(w, "delete")
  /\ UNCHANGED <<wop, heap, timedOut, success, queue, main, config, served>>

DeleteOp(w) ==
  /\ wpc[w] = "delete"
  /\ heap' = [heap EXCEPT ![wop[w]] = "freed"]
  /\ wop' = [wop EXCEPT ![w] = NoOp]
  /\ Go(w, "idle")
  /\ UNCHANGED <<event, timedOut, success, queue, main, config, ghost>>

(* Mutant: the caller frees the operation also when the time is up. *)
AbandonFreed(w) ==
  /\ wpc[w] = "expired"
  /\ heap' = [heap EXCEPT ![wop[w]] = "freed"]
  /\ answer' = [answer EXCEPT ![wop[w]] = "timeout"]
  /\ wop' = [wop EXCEPT ![w] = NoOp]
  /\ Go(w, "idle")
  /\ UNCHANGED <<event, timedOut, success, queue, main, config, served>>

(* The caller gives up: the operation is the main thread's to free. *)
Abandon(w) ==
  /\ wpc[w] = "expired"
  /\ timedOut' = [timedOut EXCEPT ![wop[w]] = TRUE]
  /\ answer' = [answer EXCEPT ![wop[w]] = "timeout"]
  /\ wop' = [wop EXCEPT ![w] = NoOp]
  /\ Go(w, "idle")
  /\ UNCHANGED <<heap, event, success, queue, main, config, served>>
-----------------------------------------------------------------------------
(* The main thread dispatches WM_DASH_OP and enters g_csProfile. *)
Take ==
  /\ mpc = "pump" /\ queue # <<>>
  /\ mop' = Head(queue)
  /\ queue' = Tail(queue)
  /\ success' = [success EXCEPT ![Head(queue)] = FALSE]
  /\ mpc' = "apply"
  /\ UNCHANGED <<worker, heap, event, timedOut, abandoned, config, ghost>>

(* Mutant: the edit is not written. *)
ApplyEditUnwritten ==
  /\ mpc = "apply" /\ Kind[mop] = "edit"
  /\ mem' = mem \cup {mop}
  /\ success' = [success EXCEPT ![mop] = TRUE]
  /\ served' = served \cup {mop}
  /\ mpc' = "epilogue"
  /\ UNCHANGED <<worker, heap, event, timedOut, queue, mop, abandoned, file, diverged, answer>>

(* The switch over op->op; the lock is left before the write. *)
ApplyEdit ==
  /\ mpc = "apply" /\ Kind[mop] = "edit"
  /\ mem' = mem \cup {mop}
  /\ success' = [success EXCEPT ![mop] = TRUE]
  /\ mpc' = "save"
  /\ UNCHANGED <<worker, heap, event, timedOut, queue, mop, abandoned, file, diverged, ghost>>

(* DASH_FIRE_ACTION: no configuration is touched. *)
ApplyFire ==
  /\ mpc = "apply" /\ Kind[mop] = "fire"
  /\ success' = [success EXCEPT ![mop] = TRUE]
  /\ served' = served \cup {mop}
  /\ mpc' = "epilogue"
  /\ UNCHANGED <<worker, heap, event, timedOut, queue, mop, abandoned, config, answer>>

(* DASH_RELOAD leaves the lock to ReloadConfig, which releases the keys first. *)
LeaveForReload ==
  /\ mpc = "apply" /\ Kind[mop] \in {"reload", "import"}
  /\ mpc' = "reenter"
  /\ UNCHANGED <<worker, object, queue, mop, abandoned, config, ghost>>

(* WriteConfig and ReloadConfig enter g_csProfile themselves. *)
Reenter ==
  /\ \/ mpc = "save" /\ mpc' = "persist"
     \/ mpc = "reenter" /\ mpc' = "reload"
  /\ UNCHANGED <<worker, object, queue, mop, abandoned, config, ghost>>

(* ReloadConfig; an unreadable file leaves the defaults. *)
ApplyReload ==
  /\ mpc = "reload"
  /\ \E readable \in BOOLEAN :
       /\ mem' = IF readable THEN file ELSE {}
       /\ success' = [success EXCEPT ![mop] = readable]
       /\ diverged' = ~readable
  /\ served' = served \cup {mop}
  /\ mpc' = "epilogue"
  /\ UNCHANGED <<worker, heap, event, timedOut, queue, mop, abandoned, file, answer>>

(* An operation the switch rejects changes nothing and is not written. *)
Reject ==
  /\ mpc = "apply" /\ Kind[mop] \in {"edit", "fire"}
  /\ served' = served \cup {mop}
  /\ mpc' = "epilogue"
  /\ UNCHANGED <<worker, object, queue, mop, abandoned, config, answer>>

(* WriteConfig: a failure takes the success back. *)
Persist ==
  /\ mpc = "persist"
  /\ \/ file' = mem /\ diverged' = FALSE /\ UNCHANGED success
     \/ success' = [success EXCEPT ![mop] = FALSE] /\ diverged' = TRUE /\ UNCHANGED file
  /\ served' = served \cup {mop}
  /\ mpc' = "epilogue"
  /\ UNCHANGED <<worker, heap, event, timedOut, queue, mop, abandoned, mem, answer>>

ReadTimedOut ==
  /\ mpc = "epilogue"
  /\ abandoned' = timedOut[mop]
  /\ mpc' = "signal"
  /\ UNCHANGED <<worker, object, queue, mop, config, ghost>>

Signal ==
  /\ mpc = "signal"
  /\ event' = [event EXCEPT ![mop] = "set"]
  /\ mpc' = "dispose"
  /\ UNCHANGED <<worker, heap, timedOut, success, queue, mop, abandoned, config, ghost>>

Dispose ==
  /\ mpc = "dispose"
  /\ IF abandoned
       THEN /\ event' = [event EXCEPT ![mop] = "closed"]
            /\ heap' = [heap EXCEPT ![mop] = "freed"]
       ELSE UNCHANGED <<event, heap>>
  /\ mop' = NoOp
  /\ abandoned' = FALSE
  /\ mpc' = "pump"
  /\ UNCHANGED <<worker, timedOut, success, queue, config, ghost>>

(* The message loop ends; nothing in the queue is dispatched any more. *)
Exit ==
  /\ mpc = "pump"
  /\ mpc' = "exited"
  /\ UNCHANGED <<worker, object, queue, mop, abandoned, config, ghost>>

(* The requests are used up, or every operation is. *)
Finished ==
  /\ mpc \in {"pump", "exited"} /\ \A w \in Worker : wpc[w] = "idle"
  /\ Exhausted \/ \A o \in Op : answer[o] # "none"
  /\ UNCHANGED vars
-----------------------------------------------------------------------------
WorkerStep(w) ==
  \/ WriteImport(w) \/ WriteImportFails(w)
  \/ CreateEdit(w) \/ CreateSave(w) \/ CreateReply(w)
  \/ Post(w) \/ PostFails(w)
  \/ WaitSucceeds(w) \/ WaitExpires(w) \/ Collect(w) \/ DeleteOp(w) \/ Abandon(w)

WorkerNext(w) ==
  \/ \E o \in Op : Receive(w, o)
  \/ WorkerStep(w)

(* What the main thread does under g_csProfile. *)
Locked == ApplyEdit \/ ApplyFire \/ LeaveForReload \/ Reject \/ ApplyReload \/ Persist

MainNext == Take \/ Locked \/ Reenter \/ ReadTimedOut \/ Signal \/ Dispose \/ Exit

Next == (\E w \in Worker : WorkerNext(w)) \/ MainNext \/ Finished

Spec == Init /\ [][Next]_vars

(***************************************************************************)
(* The system runs every worker.  The main thread may be stuck anywhere or *)
(* gone, except under g_csProfile: there it computes and reads or writes   *)
(* one file, waits for nobody, and leaves the lock.                        *)
(***************************************************************************)
FairSpec ==
  /\ Spec
  /\ \A w \in Worker : WF_vars(WorkerStep(w))
  /\ WF_vars(Locked)
-----------------------------------------------------------------------------
Queued(o) == \E i \in 1..Len(queue) : queue[i] = o

(***************************************************************************)
(* Memory safety: whoever is about to touch an operation, or to close its  *)
(* event, finds it allocated and the event open, and no two threads are    *)
(* about to free the same one.                                             *)
(***************************************************************************)
Handling == mpc \in {"apply", "save", "persist", "reenter", "reload"}

MainTouches == Handling \/ mpc \in {"epilogue", "signal"} \/ (mpc = "dispose" /\ abandoned)

OpsAreLive ==
  /\ \A w \in Worker : wpc[w] \in {"post", "wait", "expired", "collect", "delete"} =>
       heap[wop[w]] = "live"
  /\ \A w \in Worker : wpc[w] \in {"post", "wait", "expired", "collect"} =>
       event[wop[w]] # "closed"
  /\ \A i \in 1..Len(queue) : heap[queue[i]] = "live" /\ event[queue[i]] = "unset"
  /\ MainTouches => heap[mop] = "live" /\ event[mop] # "closed"
  /\ mpc = "dispose" /\ abandoned => \A w \in Worker : wop[w] # mop

(***************************************************************************)
(* Between two messages config.ini holds what the program runs on, unless  *)
(* a read, write or post failed, an import is waiting for its reload, or   *)
(* an application was just created and its worker has still to write.      *)
(***************************************************************************)
ImportPending ==
  \E o \in Op : /\ Kind[o] = "import"
                /\ Queued(o) \/ (\E w \in Worker : wop[w] = o /\ wpc[w] = "post")

CreatePending == \E w \in Worker : wpc[w] = "unsaved"

FileHoldsMemory ==
  mpc \in {"pump", "exited"} => mem = file \/ diverged \/ ImportPending \/ CreatePending

(***************************************************************************)
(* Every write request is answered: the wait for the event ends after      *)
(* kDashOpTimeoutMs, also when the main thread is stuck or gone, and the   *)
(* wait for g_csProfile ends because nobody waits for anybody under it.    *)
(***************************************************************************)
EveryCallReturns == \A o \in Op : answer[o] = "open" ~> answer[o] # "open"

(***************************************************************************)
(* What the comments at DashOp and MsgWndProc say of the ownership: an     *)
(* operation nobody works on any more has been freed.                      *)
(***************************************************************************)
NothingLeaks ==
  mpc = "pump" /\ queue = <<>> /\ (\A w \in Worker : wpc[w] = "idle")
    => \A o \in Op : heap[o] # "live"

(***************************************************************************)
(* What the import route says it does, write config.ini and load it: when  *)
(* its reload succeeds, the imported configuration is in use.              *)
(***************************************************************************)
ImportIsLoaded ==
  mpc = "epilogue" /\ Kind[mop] = "import" /\ success[mop] => mop \in mem
-----------------------------------------------------------------------------
(***************************************************************************)
(* The strengthening of OpsAreLive that is inductive.                      *)
(***************************************************************************)
OneOwner == \A v, w \in Worker : v # w /\ wop[v] # NoOp => wop[v] # wop[w]

(* An operation is queued once, and before it is handled. *)
QueueInv ==
  /\ \A i, j \in 1..Len(queue) : i # j => queue[i] # queue[j]
  /\ \A i \in 1..Len(queue) :
       /\ queue[i] # mop /\ queue[i] \notin served
       /\ heap[queue[i]] = "live" /\ event[queue[i]] = "unset"
       /\ answer[queue[i]] \in {"open", "timeout"}

(* What a worker knows of the operation it has in hand. *)
WorkerInv ==
  \A w \in Worker : wpc[w] # "idle" =>
    /\ timedOut[wop[w]] = FALSE
    /\ answer[wop[w]] = "open" \/ wpc[w] = "delete"
    /\ wpc[w] \in {"write", "create", "unsaved", "reply", "post"} =>
         ~ Queued(wop[w]) /\ mop # wop[w] /\ event[wop[w]] = "unset"
    /\ wpc[w] \in {"write", "create", "unsaved", "post"} => wop[w] \notin served
    /\ wpc[w] = "reply" => wop[w] \in served
    /\ heap[wop[w]] = IF wpc[w] \in {"write", "create", "unsaved", "reply"} THEN "new" ELSE "live"
    /\ wpc[w] \in {"wait", "expired"} => event[wop[w]] \in {"unset", "set"}
    /\ wpc[w] = "collect" => event[wop[w]] = "set" /\ wop[w] \in served
    /\ wpc[w] \in {"collect", "delete"} =>
         ~ Queued(wop[w]) /\ (mop = wop[w] => mpc = "dispose" /\ ~ abandoned)

(* The main thread owns what it found abandoned; what it has not signalled is live. *)
MainInv ==
  /\ Handling \/ mpc \in {"epilogue", "signal"} =>
       heap[mop] = "live" /\ event[mop] = "unset" /\ answer[mop] \in {"open", "timeout"}
  /\ Handling => mop \notin served
  /\ mpc = "apply" => ~ success[mop]
  /\ mpc \in {"epilogue", "signal", "dispose"} => mop \in served
  /\ Handling \/ mpc \in {"pump", "epilogue"} => ~ abandoned
  /\ abandoned => timedOut[mop]
  /\ mpc = "dispose" /\ abandoned => heap[mop] = "live" /\ event[mop] = "set"

(* A set event, a performed operation and a given-up call are past their stages. *)
ObjectInv ==
  \A o \in Op :
    /\ answer[o] = "none" =>
         /\ heap[o] = "new" /\ event[o] = "unset" /\ ~ timedOut[o]
         /\ \A w \in Worker : wop[w] # o
         /\ mop # o /\ ~ Queued(o) /\ o \notin served
    /\ event[o] = "set" => o \in served
    /\ timedOut[o] => \A w \in Worker : wop[w] # o

DashInv == TypeOK /\ OneOwner /\ QueueInv /\ WorkerInv /\ MainInv /\ ObjectInv
-----------------------------------------------------------------------------
(***************************************************************************)
(* The operations seen as the calls of OperationService.                   *)
(***************************************************************************)
outcome ==
  [o \in Op |->
     IF o \in served THEN IF success[o] THEN "done" ELSE "failed"
     ELSE IF answer[o] = "none" THEN "none"
     ELSE IF answer[o] = "error" THEN "refused" ELSE "pending"]

Service == INSTANCE OperationService

ServiceSpec == Service!Spec
==============================================================================
