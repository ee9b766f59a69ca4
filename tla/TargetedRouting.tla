--------------------------- MODULE TargetedRouting ---------------------------
(***************************************************************************)
(* Targeted mode: a mapped key of the dedicated keyboard is posted to the  *)
(* window of the active profile, held there, repeated from a timer and     *)
(* released with the physical key.  The ledger g_targetedKeys remembers    *)
(* the held keys and the identity of the window each was sent to.          *)
(*                                                                         *)
(* The main thread processes reports, timer messages and profile switches; *)
(* HTTP workers call ReleaseAllTargetedKeys.  g_csLedger protects single   *)
(* ledger operations; identity checks and PostMessage run outside it.  A   *)
(* handle can be recycled for another window at any moment, a window that  *)
(* is there can refuse a message (its queue is full, or it belongs to an   *)
(* elevated process), and SetTimer can fail.                               *)
(***************************************************************************)
EXTENDS ReportRouting

CONSTANTS
  Main, Worker,  \* the main thread and the HTTP worker threads
  Handle,        \* window handles
  Identity,      \* (process, class) pairs CaptureWindowIdentity can read
  FiredUsage,    \* the usages for which the Live screen fires actions
  Gone,          \* no window behind the handle
  NoEntry,       \* no ledger entry
  MsgWindow      \* CreateMsgWindow got a window: g_hMsgWindow is not NULL

ASSUME TargetedAssumption ==
  /\ Main \notin Worker /\ Gone \notin Identity
  /\ FiredUsage \subseteq Usage /\ MsgWindow \in BOOLEAN

Thread == Worker \cup {Main}

Entry == [usage : Usage, win : Handle, id : Identity]   \* TargetedKey

ASSUME EntryAssumption == NoEntry \notin Entry

VARIABLES
  mode, active, beforeToggle,  \* as in BasicRouting
  prev, report, prof, todo,    \* the previous report, the one in process, its work
  pc,        \* control of every thread
  held,      \* g_targetedKeys
  fired,     \* history: the usages in the ledger that the Live screen fired
  edited,    \* history: a mode was edited while the ledger held keys
  timer,     \* TARGETED_REPEAT_TIMER_ID: off, set, or to be set in vain
  arm,       \* ScheduleTargetedRepeatTimer has seen an entry
  cand,      \* the entry SendHoldableKeyToTarget is pressing
  due,       \* DispatchTargetedRepeats' copy of the entries to repeat
  toPost,    \* entries taken from the ledger whose key-up is still to post, per thread
  posting,   \* the entry whose window identity was just found valid, per thread
  back,      \* where the main thread resumes after a release or a schedule
  ident,     \* the window behind every handle
  winDown,   \* entries whose window has seen a key-down last
  opened,    \* history: initial key-downs not followed by a key-up
  stray      \* history: keys of a window the ledger has lost track of: the window
             \* refused their key-up or a repeat, or saw a key-down that was meant
             \* for another window or that came after a worker's release

profile == <<mode, active, beforeToggle>>
local   == <<prev, report, prof, todo>>
ledger  == <<held, fired, edited, timer>>
work    == <<arm, cand, due, toPost, posting>>
desktop == <<ident, winDown, opened, stray>>
vars    == <<profile, local, pc, ledger, work, back, desktop>>

TypeOK ==
  /\ mode \in [Profile -> ProfileMode]
  /\ active \in Profile
  /\ beforeToggle \in Profile \cup {NoProfile}
  /\ prev \subseteq Key
  /\ report \subseteq Key
  /\ prof \in Profile
  /\ todo \subseteq Usage
  /\ pc \in [Thread -> {"idle", "vanish", "press", "pressPost", "enter", "schedule", "arm",
                        "repeat", "repeatPost", "relKill", "relTake", "relCheck", "relPost",
                        "stopped"}]
  /\ held \subseteq Entry
  /\ fired \subseteq Usage
  /\ edited \in BOOLEAN
  /\ timer \in {"off", "set", "failed"}
  /\ arm \in BOOLEAN
  /\ cand \in Entry \cup {NoEntry}
  /\ due \subseteq Entry
  /\ toPost \in [Thread -> SUBSET Entry]
  /\ posting \in [Thread -> Entry \cup {NoEntry}]
  /\ back \in {"idle", "vanish", "press", "closed", "stopped"}
  /\ ident \in [Handle -> Identity \cup {Gone}]
  /\ winDown \subseteq Entry
  /\ opened \subseteq Entry
  /\ stray \subseteq Entry

Init ==
  /\ mode = InitialMode
  /\ active = DefaultProfile
  /\ beforeToggle = NoProfile
  /\ prev = {} /\ report = {} /\ todo = {}
  /\ prof = DefaultProfile
  /\ pc = [t \in Thread |-> "idle"]
  /\ held = {} /\ fired = {} /\ due = {}
  /\ edited = FALSE
  /\ timer = "off" /\ arm = FALSE
  /\ cand = NoEntry
  /\ toPost = [t \in Thread |-> {}]
  /\ posting = [t \in Thread |-> NoEntry]
  /\ back = "idle"
  /\ ident \in [Handle -> Identity \cup {Gone}]
  /\ winDown = {} /\ opened = {} /\ stray = {}
-----------------------------------------------------------------------------
Goto(t, label) == pc' = [pc EXCEPT ![t] = label]

(* TargetIdentityStillValid *)
Valid(x) == ident[x.win] = x.id

(* x as the window now behind its handle sees it; nothing if there is none. *)
AtWindow(x) == IF ident[x.win] = Gone THEN {} ELSE {[x EXCEPT !.id = ident[x.win]]}

(***************************************************************************)
(* PostWindowKey with KeyUp, RepeatDown and InitialDown.  Of a window that *)
(* is gone none arrives; of one that is there, any may be refused.         *)
(***************************************************************************)
PostKeyUp(x) ==
  \/ /\ winDown' = winDown \ AtWindow(x)
     /\ opened' = opened \ AtWindow(x)
     /\ stray' = stray \ AtWindow(x)
  \/ /\ stray' = stray \cup AtWindow(x)
     /\ UNCHANGED <<winDown, opened>>

RepeatArrives(x) ==
  /\ ident[x.win] # Gone
  /\ winDown' = winDown \cup AtWindow(x)
  /\ stray' = IF Valid(x) /\ x \in held THEN stray ELSE stray \cup AtWindow(x)
  /\ UNCHANGED opened

RepeatRefused(x) ==
  /\ stray' = stray \cup AtWindow(x)
  /\ UNCHANGED <<winDown, opened>>

PressArrives(x) ==
  /\ ident[x.win] # Gone
  /\ winDown' = winDown \cup AtWindow(x)
  /\ opened' = IF Valid(x) THEN opened \cup {x} ELSE opened
  /\ stray' = IF Valid(x) THEN stray \ {x} ELSE stray \cup AtWindow(x)

PressRefused(x) == UNCHANGED <<winDown, opened, stray>>

(* TargetedInputLedger::recordUp *)
RecordUp(u) ==
  /\ held' = {x \in held : x.usage # u}
  /\ fired' = fired \ {u}

Owns(u) == \E x \in held : x.usage = u
-----------------------------------------------------------------------------
(***************************************************************************)
(* ReleaseAllTargetedKeys: kill the timer; take the whole ledger under the *)
(* lock; then, entry by entry, check the window and post the key-up.       *)
(***************************************************************************)
RelKill(t) ==
  /\ pc[t] = "relKill"
  /\ timer' = "off"
  /\ Goto(t, "relTake")
  /\ UNCHANGED <<profile, local, held, fired, edited, work, back, desktop>>

RelTakeCleared(t) ==   \* mutant: the ledger is cleared before it is copied
  /\ pc[t] = "relTake"
  /\ held' = {} /\ fired' = {} /\ edited' = FALSE
  /\ Goto(t, "relCheck")
  /\ UNCHANGED <<profile, local, timer, work, back, desktop>>

RelTake(t) ==
  /\ pc[t] = "relTake"
  /\ toPost' = [toPost EXCEPT ![t] = held]
  /\ held' = {} /\ fired' = {} /\ edited' = FALSE
  /\ Goto(t, "relCheck")
  /\ UNCHANGED <<profile, local, timer, arm, cand, due, posting, back, desktop>>

RelCheck(t) ==
  /\ pc[t] = "relCheck"
  /\ \E x \in toPost[t] :
       IF Valid(x)
         THEN /\ posting' = [posting EXCEPT ![t] = x]
              /\ Goto(t, "relPost")
              /\ UNCHANGED toPost
         ELSE /\ toPost' = [toPost EXCEPT ![t] = @ \ {x}]
              /\ UNCHANGED <<posting, pc>>
  /\ UNCHANGED <<profile, local, ledger, arm, cand, due, back, desktop>>

RelPost(t) ==
  /\ pc[t] = "relPost"
  /\ PostKeyUp(posting[t])
  /\ toPost' = [toPost EXCEPT ![t] = @ \ {posting[t]}]
  /\ posting' = [posting EXCEPT ![t] = NoEntry]
  /\ Goto(t, "relCheck")
  /\ UNCHANGED <<profile, local, ledger, arm, cand, due, back, ident>>

ReleaseStep(t) == RelKill(t) \/ RelTake(t) \/ RelCheck(t) \/ RelPost(t)

(* The main thread resumes; ReleaseTargetedUsage first reschedules the timer. *)
RelReturn ==
  /\ pc[Main] = "relCheck" /\ toPost[Main] = {}
  /\ Goto(Main, CASE back = "vanish" -> "schedule"
                  [] back = "closed" -> "idle"
                  [] OTHER -> back)
  /\ prev' = IF back = "closed" THEN {} ELSE prev
  /\ back' = IF back = "vanish" THEN back ELSE "idle"
  /\ UNCHANGED <<profile, report, prof, todo, ledger, work, desktop>>

(***************************************************************************)
(* ScheduleTargetedRepeatTimer: kill the timer, read the ledger under the  *)
(* lock, set the timer if an entry was seen; SetTimer may fail, which is   *)
(* only logged, and without a message window nothing is done.              *)
(***************************************************************************)
ScheduleRead ==
  /\ pc[Main] = "schedule"
  /\ IF MsgWindow
       THEN /\ timer' = "off"
            /\ arm' = (held # {})
            /\ Goto(Main, "arm")
            /\ UNCHANGED back
       ELSE /\ timer' = "failed"
            /\ Goto(Main, back)
            /\ back' = "idle"
            /\ UNCHANGED arm
  /\ UNCHANGED <<profile, local, held, fired, edited, cand, due, toPost, posting, desktop>>

ScheduleSet ==
  /\ pc[Main] = "arm"
  /\ IF arm THEN timer' \in {"set", "failed"} ELSE UNCHANGED timer
  /\ arm' = FALSE
  /\ Goto(Main, back)
  /\ back' = "idle"
  /\ UNCHANGED <<profile, local, held, fired, edited, cand, due, toPost, posting, desktop>>
-----------------------------------------------------------------------------
(***************************************************************************)
(* ProcessReport.  In targeted mode the usages that vanished are released  *)
(* first; both modes then dispatch the usages that are new.  In basic mode *)
(* the identify window may swallow the report.                             *)
(***************************************************************************)
BeginReport(edges) ==
  /\ pc[Main] = "idle"
  /\ report' = (prev \ edges) \cup (edges \ prev)
  /\ prof' = active
  /\ IF mode[active] = "targeted"
       THEN todo' = (prev \cap edges) \cap Usage /\ Goto(Main, "vanish")
       ELSE todo' = (edges \ prev) \cap Usage /\ Goto(Main, "press")
  /\ UNCHANGED <<profile, prev, ledger, work, back, desktop>>

SwallowReport(edges) ==
  /\ pc[Main] = "idle"
  /\ mode[active] = "basic"
  /\ prev' = (prev \ edges) \cup (edges \ prev)
  /\ UNCHANGED <<profile, report, prof, todo, pc, ledger, work, back, desktop>>

(* ReleaseTargetedUsage *)
Vanish(u) ==
  /\ pc[Main] = "vanish" /\ u \in todo
  /\ todo' = todo \ {u}
  /\ IF Owns(u)
       THEN /\ toPost' = [toPost EXCEPT ![Main] = {x \in held : x.usage = u}]
            /\ RecordUp(u)
            /\ back' = "vanish"
            /\ Goto(Main, "relCheck")
       ELSE UNCHANGED <<toPost, held, fired, back, pc>>
  /\ UNCHANGED <<profile, prev, report, prof, edited, timer, arm, cand, due, posting, desktop>>

EndVanish ==
  /\ pc[Main] = "vanish" /\ todo = {}
  /\ todo' = (report \ prev) \cap Usage
  /\ Goto(Main, "press")
  /\ UNCHANGED <<profile, prev, report, prof, ledger, work, back, desktop>>

(***************************************************************************)
(* The assignment to g_activeProfile and OnProfileSwitched, which always   *)
(* releases the targeted keys; !toggle skips it when nothing changes.      *)
(***************************************************************************)
SetActive(p, caller) ==
  /\ active' = p
  /\ Goto(Main, "relKill")
  /\ back' = caller

Switch(a, caller) ==
  /\ a.kind \in SwitchKind
  /\ beforeToggle' = NextBefore(a, active, beforeToggle)
  /\ LET p == NextActive(a, active, beforeToggle) IN
       IF a.kind = "toggle" /\ p = active
         THEN UNCHANGED <<active, pc, back>>
         ELSE SetActive(p, caller)
  /\ UNCHANGED cand

(* SendHoldableKeyToTarget up to the capture of the window's identity. *)
Press(p, u, a, caller) ==
  /\ a.kind = "key" /\ mode[p] = "targeted" /\ ~Owns(u)
  /\ \E w \in Handle :
       /\ ident[w] # Gone
       /\ cand' = [usage |-> u, win |-> w, id |-> ident[w]]
  /\ Goto(Main, "pressPost")
  /\ back' = caller
  /\ UNCHANGED <<active, beforeToggle>>

(* Actions that leave nothing held, a held key, or a profile without a window. *)
HoldsNothing(a) ==
  /\ a.kind \notin SwitchKind
  /\ UNCHANGED <<active, beforeToggle, pc, back, cand>>

DispatchEdge(u, a) ==
  /\ pc[Main] = "press"
  /\ todo' = todo \ {u}
  /\ Switch(a, "press") \/ Press(prof, u, a, "press") \/ HoldsNothing(a)
  /\ UNCHANGED <<mode, prev, report, prof, ledger, arm, due, toPost, posting, desktop>>

Dispatch == \E u \in todo : \E a \in KeyMap[prof][u] : DispatchEdge(u, a)

PressPostUnrecorded ==   \* mutant: the key is not entered into the ledger
  /\ pc[Main] = "pressPost"
  /\ PressArrives(cand) \/ PressRefused(cand)
  /\ cand' = NoEntry
  /\ Goto(Main, back) /\ back' = "idle"
  /\ UNCHANGED <<profile, local, ledger, arm, due, toPost, posting, ident>>

(* The initial key-down; if it fails, the call falls back to a one-shot send. *)
PressPost ==
  /\ pc[Main] = "pressPost"
  /\ \/ PressArrives(cand) /\ Goto(Main, "enter") /\ UNCHANGED <<cand, back>>
     \/ PressRefused(cand) /\ cand' = NoEntry /\ Goto(Main, back) /\ back' = "idle"
  /\ UNCHANGED <<profile, local, ledger, arm, due, toPost, posting, ident>>

(* recordDown, or the key-up that takes the press back. *)
Enter ==
  /\ pc[Main] = "enter"
  /\ IF Owns(cand.usage)
       THEN PostKeyUp(cand) /\ Goto(Main, back) /\ back' = "idle" /\ UNCHANGED <<held, fired>>
       ELSE /\ held' = held \cup {cand}
            /\ fired' = IF back = "idle" THEN fired \cup {cand.usage} ELSE fired
            /\ Goto(Main, "schedule")
            /\ UNCHANGED <<back, winDown, opened, stray>>
  /\ cand' = NoEntry
  /\ UNCHANGED <<profile, local, edited, timer, arm, due, toPost, posting, ident>>

EndReport ==
  /\ pc[Main] = "press" /\ todo = {}
  /\ prev' = report /\ report' = {} /\ prof' = DefaultProfile   \* the locals end
  /\ Goto(Main, "idle")
  /\ UNCHANGED <<profile, todo, ledger, work, back, desktop>>
-----------------------------------------------------------------------------
(***************************************************************************)
(* DispatchTargetedRepeats, on WM_TIMER.  Which entries are due depends on *)
(* their deadlines: any of them may be.                                    *)
(***************************************************************************)
TimerFires(entries) ==
  /\ pc[Main] = "idle" /\ timer = "set"
  /\ timer' = "off"
  /\ due' = entries
  /\ Goto(Main, "repeat")
  /\ UNCHANGED <<profile, local, held, fired, edited, arm, cand, toPost, posting, back, desktop>>

RepeatCheck(x) ==
  /\ pc[Main] = "repeat" /\ x \in due
  /\ IF Valid(x)
       THEN /\ posting' = [posting EXCEPT ![Main] = x]
            /\ Goto(Main, "repeatPost")
            /\ UNCHANGED <<held, fired, due>>
       ELSE /\ RecordUp(x.usage)
            /\ due' = due \ {x}
            /\ UNCHANGED <<posting, pc>>
  /\ UNCHANGED <<profile, local, edited, timer, arm, cand, toPost, back, desktop>>

(* A repeat that fails ends the hold: no key-up is posted. *)
RepeatPost ==
  /\ pc[Main] = "repeatPost"
  /\ LET x == posting[Main] IN
       /\ \/ RepeatArrives(x) /\ UNCHANGED <<held, fired>>
          \/ RepeatRefused(x) /\ RecordUp(x.usage)
       /\ due' = due \ {x}
  /\ posting' = [posting EXCEPT ![Main] = NoEntry]
  /\ Goto(Main, "repeat")
  /\ UNCHANGED <<profile, local, edited, timer, arm, cand, toPost, back, ident>>

EndRepeatUnscheduled ==   \* mutant: the timer is not set again
  /\ pc[Main] = "repeat" /\ due = {}
  /\ Goto(Main, "idle")
  /\ UNCHANGED <<profile, local, ledger, work, back, desktop>>

EndRepeat ==
  /\ pc[Main] = "repeat" /\ due = {}
  /\ Goto(Main, "schedule")
  /\ UNCHANGED <<profile, local, ledger, work, back, desktop>>
-----------------------------------------------------------------------------
SwitchProfile(p) ==
  /\ pc[Main] = "idle"
  /\ SetActive(p, "idle")
  /\ UNCHANGED <<mode, beforeToggle, local, ledger, work, desktop>>

(* DASH_FIRE_ACTION: action a for usage u, as if pressed in profile p. *)
FireAction(p, u, a) ==
  /\ pc[Main] = "idle"
  /\ Switch(a, "idle") \/ Press(p, u, a, "idle")
  /\ UNCHANGED <<mode, local, ledger, arm, due, toPost, posting, desktop>>

DashSetProfile(p, m) ==
  /\ pc[Main] = "idle"
  /\ mode' = [mode EXCEPT ![p] = m]
  /\ edited' = (edited \/ held # {})
  /\ UNCHANGED <<active, beforeToggle, local, pc, held, fired, timer, work, back, desktop>>

(* Before a suspend or a reload ("idle"), in CloseDevice ("closed"), at exit. *)
ReleaseEverything(caller) ==
  /\ pc[Main] = "idle"
  /\ Goto(Main, "relKill")
  /\ back' = caller
  /\ UNCHANGED <<profile, local, ledger, work, desktop>>

WorkerCall(t) ==
  /\ pc[t] = "idle"
  /\ Goto(t, "relKill")
  /\ UNCHANGED <<profile, local, ledger, work, back, desktop>>

WorkerReturn(t) ==
  /\ pc[t] = "relCheck" /\ toPost[t] = {}
  /\ Goto(t, "idle")
  /\ UNCHANGED <<profile, local, ledger, work, back, desktop>>

(* A window is destroyed, or its handle names a new window. *)
WindowChanges(w, i) ==
  /\ i # ident[w]
  /\ ident' = [ident EXCEPT ![w] = i]
  /\ winDown' = {x \in winDown : x.win # w}
  /\ opened' = {x \in opened : x.win # w}
  /\ stray' = {x \in stray : x.win # w}
  /\ UNCHANGED <<profile, local, pc, ledger, work, back>>

Stopped == pc[Main] = "stopped" /\ UNCHANGED vars
-----------------------------------------------------------------------------
ReportStep ==
  \/ \E u \in Usage : Vanish(u)
  \/ EndVanish \/ Dispatch \/ PressPost \/ Enter \/ EndReport

RepeatStep == (\E x \in Entry : RepeatCheck(x)) \/ RepeatPost \/ EndRepeat

ScheduleStep == ScheduleRead \/ ScheduleSet

MainNext ==
  \/ \E e \in EdgeSet : BeginReport(e) \/ SwallowReport(e)
  \/ ReportStep \/ RepeatStep \/ ScheduleStep
  \/ \E d \in SUBSET held : TimerFires(d)
  \/ \E p \in Profile : SwitchProfile(p)
  \/ \E p \in Profile, u \in FiredUsage, a \in Fired : FireAction(p, u, a)
  \/ \E p \in Editable, m \in ProfileMode : DashSetProfile(p, m)
  \/ \E b \in {"idle", "closed", "stopped"} : ReleaseEverything(b)
  \/ ReleaseStep(Main) \/ RelReturn

WorkerNext(t) == WorkerCall(t) \/ ReleaseStep(t) \/ WorkerReturn(t)

Next ==
  \/ MainNext
  \/ \E t \in Worker : WorkerNext(t)
  \/ \E w \in Handle, i \in Identity \cup {Gone} : WindowChanges(w, i)
  \/ Stopped

Spec == Init /\ [][Next]_vars
-----------------------------------------------------------------------------
Quiet == \A t \in Thread : pc[t] \in {"idle", "stopped"}

(* Someone will post the key-up of x. *)
Tracked(x) ==
  \/ x \in held
  \/ pc[Main] = "enter" /\ x = cand
  \/ \E t \in Thread : x \in toPost[t]

(***************************************************************************)
(* Every initial key-down that reached its window and was not followed by  *)
(* a key-up is in the ledger, is being entered, is in the hands of a       *)
(* thread that will post the key-up, or was lost when its window refused   *)
(* the key-up or a repeat.                                                 *)
(***************************************************************************)
OpenedIsAccounted == \A x \in opened : Tracked(x) \/ x \in stray

(***************************************************************************)
(* Keys are held at rest only while the repeat timer runs, or could not be *)
(* set when it was last due to be: a worker's KillTimer never silences a   *)
(* key that stays in the ledger.                                           *)
(***************************************************************************)
HeldKeysRepeat == Quiet /\ held # {} => timer # "off"

(***************************************************************************)
(* At rest a key of the ledger is physically down and the active profile   *)
(* is a targeted one, unless the Live screen fired the key or the          *)
(* dashboard changed the mode of a profile while it was held.              *)
(***************************************************************************)
HeldKeysAreDown ==
  Quiet /\ ~ edited =>
    \A x \in held : x.usage \in fired \/ (x.usage \in prev /\ mode[active] = "targeted")

(***************************************************************************)
(* At rest a window sees a key down only if the ledger will release it, or *)
(* has lost track of this very key: the window refused its key-up or a     *)
(* repeat, or a key-down came that was not meant for it or was late.       *)
(***************************************************************************)
WindowKeysAreHeld == Quiet => winDown \subseteq held \cup stray

(***************************************************************************)
(* The ledger is true on both sides: of the keyboard and of the windows.   *)
(***************************************************************************)
LedgerIsTrue == HeldKeysAreDown /\ WindowKeysAreHeld

(***************************************************************************)
(* What FAQ.md says of a key held in targeted mode, without a condition on *)
(* what the Live screen fires: it is released with the physical key.       *)
(***************************************************************************)
HeldUntilReleased == Quiet => \A x \in held : x.usage \in prev

(***************************************************************************)
(* What the comment on TargetIdentityStillValid rules out: a repeat or a   *)
(* key-up that reaches a stranger's window behind a recycled handle.       *)
(***************************************************************************)
NoStranger ==
  \A t \in Thread : pc[t] \in {"relPost", "repeatPost"} =>
    ident[posting[t].win] \in {posting[t].id, Gone}

(***************************************************************************)
(* What a reader of ReleaseTargetedUsage expects without the failures of   *)
(* PostMessage: at rest no window sees a key down that no one will release.*)
(***************************************************************************)
NothingAstray == Quiet => stray \cap winDown = {}

(***************************************************************************)
(* What a reader of ScheduleTargetedRepeatTimer expects without the        *)
(* failure of SetTimer: a held key repeats.                                *)
(***************************************************************************)
HeldKeysAlwaysRepeat == Quiet /\ held # {} => timer = "set"
-----------------------------------------------------------------------------
(***************************************************************************)
(* The strengthening of OpenedIsAccounted: an open entry matches the       *)
(* window behind its handle, a thread that is not releasing has nothing    *)
(* left to post, an entry due for a repeat is the one the ledger has for   *)
(* its usage, if it still has one, and only a release ends in CloseDevice  *)
(* or at exit.                                                             *)
(***************************************************************************)
HandoverInv ==
  /\ \A x \in opened : Valid(x)
  /\ \A t \in Thread : pc[t] \notin {"relCheck", "relPost"} => toPost[t] = {}
  /\ \A t \in Thread : pc[t] = "relPost" => posting[t] \in toPost[t]
  /\ pc[Main] \in {"pressPost", "enter"} => cand \in Entry
  /\ \A x, y \in held : x.usage = y.usage => x = y
  /\ pc[Main] \in {"repeat", "repeatPost"} =>
       \A x \in due, y \in held : x.usage = y.usage => x = y
  /\ pc[Main] = "repeatPost" => posting[Main] \in due
  /\ back \in {"closed", "stopped"} =>
       pc[Main] \in {"relKill", "relTake", "relCheck", "relPost"}

(***************************************************************************)
(* The strengthening of HeldKeysRepeat: while the timer is off, the main   *)
(* thread is on its way to set it, or some thread is about to empty the    *)
(* ledger.                                                                 *)
(***************************************************************************)
TimerInv ==
  /\ held = {} \/ timer # "off" \/ pc[Main] \in {"repeat", "repeatPost", "schedule", "arm"}
                \/ \E t \in Thread : pc[t] = "relTake"
  /\ pc[Main] = "arm" => held = {} \/ arm

TargetedInv == TypeOK /\ OpenedIsAccounted /\ HandoverInv /\ TimerInv
==============================================================================
