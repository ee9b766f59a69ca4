---------------------------- MODULE BasicRouting ----------------------------
(***************************************************************************)
(* Basic mode: reports of the dedicated keyboard are re-injected with      *)
(* SendInput, and the ledger g_injectedKeys remembers which keys the       *)
(* program holds down in the system.                                       *)
(*                                                                         *)
(* The main thread processes reports, switches profiles, suspends, closes  *)
(* the device and exits.  HTTP workers serve /devices/detect,              *)
(* /devices/capture and /input/identify, which release every injected key. *)
(* g_csLedger protects single ledger operations only: a SendInput and the  *)
(* ledger update that goes with it are two steps, with other threads       *)
(* between them.                                                           *)
(***************************************************************************)
EXTENDS ReportRouting

CONSTANTS
  Main, Worker,  \* the main thread and the HTTP worker threads
  NoKey          \* no SendInput in progress

ASSUME ThreadAssumption == Main \notin Worker /\ NoKey \notin Key

Thread == Worker \cup {Main}

VARIABLES
  mode,          \* g_profiles[p].mode
  active,        \* g_activeProfile
  beforeToggle,  \* g_lastProfileBeforeToggle
  prev,          \* g_prevReport and g_prevModifiers
  report,        \* the report in process
  prof,          \* its copy of the active profile
  stale,         \* its reading of the identify clock: since >= 15000
  todo,          \* usages still to dispatch, then keys still to inject
  consumed,      \* exceptUsages
  pc,            \* control of every thread
  op,            \* the key of the SendInput in progress, per thread
  toRelease,     \* ReleaseAllKeys' copy of the ledger still to release, per thread
  back,          \* where the main thread resumes after ReleaseAllKeys
  osDown,        \* injected keys the system holds down
  owned,         \* g_injectedKeys
  listening,     \* g_identifyListening
  fresh,         \* less than 15 s since g_identifyStartTick
  raced,         \* history: keys injected while a release had them listed
  missed         \* history: keys whose change the identify window swallowed, or
                 \* that were down when the dashboard changed the mode of a profile

control == <<pc, op, toRelease, back>>
profile == <<mode, active, beforeToggle>>
local   == <<report, prof, stale, todo, consumed>>
system  == <<osDown, owned, raced, missed>>
window  == <<listening, fresh>>
vars    == <<profile, prev, local, control, system, window>>

TypeOK ==
  /\ mode \in [Profile -> ProfileMode]
  /\ active \in Profile
  /\ beforeToggle \in Profile \cup {NoProfile}
  /\ prev \subseteq Key
  /\ report \subseteq Key
  /\ prof \in Profile
  /\ stale \in BOOLEAN
  /\ todo \subseteq Key
  /\ consumed \subseteq Usage
  /\ pc \in [Thread -> {"idle", "gate", "press", "inject", "send", "record", "stopped",
                        "release", "relSend", "relRecord", "listen", "tick"}]
  /\ op \in [Thread -> Key \cup {NoKey}]
  /\ toRelease \in [Thread -> SUBSET Key]
  /\ back \in {"idle", "press", "closed", "stopped"}
  /\ osDown \subseteq Key
  /\ owned \subseteq Key
  /\ raced \subseteq Key
  /\ missed \subseteq Key
  /\ listening \in BOOLEAN
  /\ fresh \in BOOLEAN

Init ==
  /\ mode = InitialMode
  /\ active = DefaultProfile
  /\ beforeToggle = NoProfile
  /\ prev = {} /\ report = {} /\ todo = {} /\ consumed = {}
  /\ prof = DefaultProfile
  /\ stale = FALSE
  /\ pc = [t \in Thread |-> "idle"]
  /\ op = [t \in Thread |-> NoKey]
  /\ toRelease = [t \in Thread |-> {}]
  /\ back = "idle"
  /\ osDown = {} /\ owned = {} /\ raced = {} /\ missed = {}
  /\ listening = FALSE
  /\ fresh = FALSE
-----------------------------------------------------------------------------
Goto(t, label) == pc' = [pc EXCEPT ![t] = label]

(***************************************************************************)
(* ReleaseAllKeys, called by the main thread or a worker: copy the ledger  *)
(* under the lock; then, key by key, SendInput and recordUp.               *)
(***************************************************************************)
RelSnapshot(t) ==
  /\ pc[t] = "release"
  /\ toRelease' = [toRelease EXCEPT ![t] = owned]
  /\ Goto(t, "relSend")
  /\ UNCHANGED <<profile, prev, local, op, back, system, window>>

RelSend(t) ==
  /\ pc[t] = "relSend"
  /\ \E k \in toRelease[t] :
       /\ osDown' = osDown \ {k}
       /\ op' = [op EXCEPT ![t] = k]
  /\ Goto(t, "relRecord")
  /\ UNCHANGED <<profile, prev, local, toRelease, back, owned, raced, missed, window>>

RelRecord(t) ==
  /\ pc[t] = "relRecord"
  /\ owned' = owned \ {op[t]}
  /\ toRelease' = [toRelease EXCEPT ![t] = @ \ {op[t]}]
  /\ op' = [op EXCEPT ![t] = NoKey]
  /\ Goto(t, "relSend")
  /\ UNCHANGED <<profile, prev, local, back, osDown, raced, missed, window>>

(* The main thread returns to its caller; CloseDevice then forgets the report. *)
RelReturn ==
  /\ pc[Main] = "relSend" /\ toRelease[Main] = {}
  /\ Goto(Main, IF back = "closed" THEN "idle" ELSE back)
  /\ prev' = IF back = "closed" THEN {} ELSE prev
  /\ back' = "idle"
  /\ UNCHANGED <<profile, local, op, toRelease, system, window>>

(***************************************************************************)
(* SetActive is the assignment to g_activeProfile followed by              *)
(* OnProfileSwitched, which releases the injected keys when the switch     *)
(* leaves basic mode.                                                      *)
(***************************************************************************)
EntersBasic(from, to) == mode[from] # "basic" /\ mode[to] = "basic"   \* mutant: swapped

LeavesBasic(from, to) == mode[from] = "basic" /\ mode[to] # "basic"

SetActive(p, caller) ==
  /\ active' = p
  /\ IF LeavesBasic(active, p)
       THEN Goto(Main, "release") /\ back' = caller
       ELSE Goto(Main, caller) /\ UNCHANGED back
-----------------------------------------------------------------------------
(***************************************************************************)
(* ProcessReport.  A report differs from the previous one in the keys of   *)
(* edges.  In basic mode the identify clock is read first.                 *)
(***************************************************************************)
BeginReport(edges) ==
  /\ pc[Main] = "idle"
  /\ report' = (prev \ edges) \cup (edges \ prev)
  /\ prof' = active
  /\ todo' = (edges \ prev) \cap Usage
  /\ consumed' = {}
  /\ stale' = ~fresh
  /\ Goto(Main, IF mode[active] = "basic" THEN "gate" ELSE "press")
  /\ UNCHANGED <<profile, prev, op, toRelease, back, system, window>>

(* The identify window swallows the report, or a stale clock closes the window. *)
Gate ==
  /\ pc[Main] = "gate"
  /\ LET swallow == listening /\ ~stale IN
       /\ prev' = IF swallow THEN report ELSE prev
       /\ Goto(Main, IF swallow THEN "idle" ELSE "press")
       /\ todo' = IF swallow THEN {} ELSE todo
       /\ listening' = (listening /\ ~stale)
       /\ stale' = FALSE
       /\ missed' = IF swallow THEN missed \cup (prev \ report) ELSE missed
  /\ UNCHANGED <<profile, report, prof, consumed, op, toRelease, back, osDown, owned, raced, fresh>>

(* One keydown edge whose mapping in the copied profile is action a. *)
DispatchEdge(u, a) ==
  /\ pc[Main] = "press"
  /\ todo' = todo \ {u}
  /\ consumed' = IF a.kind = "none" THEN consumed ELSE consumed \cup {u}
  /\ beforeToggle' = NextBefore(a, active, beforeToggle)
  /\ IF a.kind \in SwitchKind
       THEN SetActive(NextActive(a, active, beforeToggle), "press")
       ELSE UNCHANGED <<active, pc, back>>
  /\ UNCHANGED <<mode, prev, report, prof, stale, op, toRelease, system, window>>

Dispatch == \E u \in todo \cap Usage : \E a \in KeyMap[prof][u] : DispatchEdge(u, a)

(* ComputeReportEdges, and the modifiers that changed *)
Edges == (prev \ report) \cup (report \ prev)

(* Every edge is dispatched: basic mode goes on to BasicReinject. *)
EndDispatch ==
  /\ pc[Main] = "press" /\ todo = {}
  /\ IF mode[prof] = "basic"
       THEN /\ todo' = Edges \ consumed
            /\ Goto(Main, "inject")
            /\ UNCHANGED prev
       ELSE /\ prev' = report
            /\ Goto(Main, "idle")
            /\ UNCHANGED todo
  /\ consumed' = {}
  /\ UNCHANGED <<profile, report, prof, stale, op, toRelease, back, system, window>>

(* BasicReinject works through modifiers first, then key-ups, then key-downs. *)
NextKeys ==
  IF todo \cap Modifier # {} THEN todo \cap Modifier
  ELSE IF todo \ report # {} THEN todo \ report
  ELSE todo

(* Mutant: a key-up waits until no worker is releasing. *)
CheckUpWaits ==
  /\ pc[Main] = "inject" /\ \A t \in Worker : pc[t] = "idle"
  /\ \E k \in NextKeys \ report :
       /\ todo' = todo \ {k}
       /\ IF k \in owned
            THEN op' = [op EXCEPT ![Main] = k] /\ Goto(Main, "send")
            ELSE UNCHANGED <<op, pc>>
  /\ UNCHANGED <<profile, prev, report, prof, stale, consumed, toRelease, back, system, window>>

(* SendOneScan for a key-up: asks the ledger first and skips a foreign key. *)
CheckUp ==
  /\ pc[Main] = "inject"
  /\ \E k \in NextKeys \ report :
       /\ todo' = todo \ {k}
       /\ IF k \in owned
            THEN op' = [op EXCEPT ![Main] = k] /\ Goto(Main, "send")
            ELSE UNCHANGED <<op, pc>>
  /\ UNCHANGED <<profile, prev, report, prof, stale, consumed, toRelease, back, system, window>>

SendUp ==
  /\ pc[Main] = "send"
  /\ osDown' = osDown \ {op[Main]}
  /\ Goto(Main, "record")
  /\ UNCHANGED <<profile, prev, local, op, toRelease, back, owned, raced, missed, window>>

(* SendOneScan for a key-down: no question asked. *)
SendDown ==
  /\ pc[Main] = "inject"
  /\ \E k \in NextKeys \cap report :
       /\ todo' = todo \ {k}
       /\ op' = [op EXCEPT ![Main] = k]
       /\ osDown' = osDown \cup {k}
       /\ raced' = IF \E t \in Worker : k \in toRelease[t] THEN raced \cup {k} ELSE raced
  /\ Goto(Main, "record")
  /\ UNCHANGED <<profile, prev, report, prof, stale, consumed, toRelease, back, owned, missed, window>>

RecordForgets ==   \* mutant: recordDown is missing
  /\ pc[Main] = "record"
  /\ owned' = owned \ {op[Main]}
  /\ op' = [op EXCEPT ![Main] = NoKey]
  /\ Goto(Main, "inject")
  /\ UNCHANGED <<profile, prev, local, toRelease, back, osDown, raced, missed, window>>

Record ==
  /\ pc[Main] = "record"
  /\ owned' = IF op[Main] \in report THEN owned \cup {op[Main]} ELSE owned \ {op[Main]}
  /\ op' = [op EXCEPT ![Main] = NoKey]
  /\ Goto(Main, "inject")
  /\ UNCHANGED <<profile, prev, local, toRelease, back, osDown, raced, missed, window>>

EndReport ==
  /\ pc[Main] = "inject" /\ todo = {}
  /\ prev' = report
  /\ Goto(Main, "idle")
  /\ UNCHANGED <<profile, local, op, toRelease, back, system, window>>
-----------------------------------------------------------------------------
(* SwitchProfileByName: the tray, the HTTP switch and the foreground watcher. *)
SwitchProfile(p) ==
  /\ pc[Main] = "idle"
  /\ SetActive(p, "idle")
  /\ UNCHANGED <<mode, beforeToggle, prev, local, op, toRelease, system, window>>

(* DASH_FIRE_ACTION of a profile switch; everything else it fires holds nothing. *)
FireAction(a) ==
  /\ pc[Main] = "idle" /\ a.kind \in SwitchKind
  /\ beforeToggle' = NextBefore(a, active, beforeToggle)
  /\ SetActive(NextActive(a, active, beforeToggle), "idle")
  /\ UNCHANGED <<mode, prev, local, op, toRelease, system, window>>

(* DASH_SET_PROFILE on an existing profile: assigns the mode, releases nothing. *)
DashSetProfile(p, m) ==
  /\ pc[Main] = "idle"
  /\ mode' = [mode EXCEPT ![p] = m]
  /\ missed' = missed \cup osDown
  /\ UNCHANGED <<active, beforeToggle, prev, local, control, osDown, owned, raced, window>>

ReleaseUnlessExiting(caller) ==   \* mutant: the exit releases nothing
  /\ pc[Main] = "idle"
  /\ Goto(Main, IF caller = "stopped" THEN caller ELSE "release")
  /\ back' = IF caller = "stopped" THEN back ELSE caller
  /\ UNCHANGED <<profile, prev, local, op, toRelease, system, window>>

(* The main thread releases everything: before a suspend or a reload of the    *)
(* configuration ("idle"), in CloseDevice ("closed"), at exit ("stopped").     *)
ReleaseEverything(caller) ==
  /\ pc[Main] = "idle"
  /\ Goto(Main, "release")
  /\ back' = caller
  /\ UNCHANGED <<profile, prev, local, op, toRelease, system, window>>
-----------------------------------------------------------------------------
(***************************************************************************)
(* POST /devices/detect, /devices/capture and /input/identify.             *)
(***************************************************************************)
WorkerCall(t) ==
  /\ pc[t] = "idle"
  /\ Goto(t, "release")
  /\ UNCHANGED <<profile, prev, local, op, toRelease, back, system, window>>

WorkerReturn(t) ==
  /\ pc[t] = "relSend" /\ toRelease[t] = {}
  /\ \/ Goto(t, "idle")
     \/ Goto(t, "listen")
  /\ UNCHANGED <<profile, prev, local, op, toRelease, back, system, window>>

(* identify opens the window: the flag first, the clock second. *)
StoreListening(t) ==
  /\ pc[t] = "listen"
  /\ listening' = TRUE
  /\ Goto(t, "tick")
  /\ UNCHANGED <<profile, prev, local, op, toRelease, back, system, fresh>>

StoreTick(t) ==
  /\ pc[t] = "tick"
  /\ fresh' = TRUE
  /\ Goto(t, "idle")
  /\ UNCHANGED <<profile, prev, local, op, toRelease, back, system, listening>>

FifteenSecondsPass ==
  /\ fresh
  /\ fresh' = FALSE
  /\ UNCHANGED <<profile, prev, local, control, system, listening>>
-----------------------------------------------------------------------------
ReportStep ==
  \/ Gate \/ Dispatch \/ EndDispatch
  \/ CheckUp \/ SendUp \/ SendDown \/ Record \/ EndReport

ReleaseStep(t) == RelSnapshot(t) \/ RelSend(t) \/ RelRecord(t)

MainNext ==
  \/ \E e \in EdgeSet : BeginReport(e)
  \/ ReportStep
  \/ \E p \in Profile : SwitchProfile(p)
  \/ \E a \in Fired : FireAction(a)
  \/ \E p \in Editable, m \in ProfileMode : DashSetProfile(p, m)
  \/ \E b \in {"idle", "closed", "stopped"} : ReleaseEverything(b)
  \/ ReleaseStep(Main) \/ RelReturn

WorkerNext(t) ==
  \/ WorkerCall(t) \/ ReleaseStep(t) \/ WorkerReturn(t)
  \/ StoreListening(t) \/ StoreTick(t)

(* After exit nothing is left to do for the main thread. *)
Stopped == pc[Main] = "stopped" /\ UNCHANGED vars

Next ==
  \/ MainNext
  \/ \E t \in Worker : WorkerNext(t)
  \/ FifteenSecondsPass
  \/ Stopped

Spec == Init /\ [][Next]_vars

(***************************************************************************)
(* ProcessReport and ReleaseAllKeys wait for nothing but a lock that is    *)
(* held for one ledger operation: once begun, they run to their end.       *)
(***************************************************************************)
Fairness == WF_vars(ReportStep \/ ReleaseStep(Main) \/ RelReturn)

FairSpec == Spec /\ Fairness
-----------------------------------------------------------------------------
(* The key-down whose ledger entry SendOneScan is about to write. *)
Entering == IF pc[Main] = "record" /\ op[Main] \in report THEN {op[Main]} ELSE {}

Quiet == \A t \in Thread : pc[t] \in {"idle", "stopped"}

(***************************************************************************)
(* No key is lost: a key the system holds down is in the ledger, or is     *)
(* being entered by the SendOneScan that sent it, whatever the workers     *)
(* release meanwhile.  The only exception is a key that was injected while *)
(* a worker's ReleaseAllKeys had it in its copy of the ledger.             *)
(***************************************************************************)
NoLostKey == osDown \subseteq owned \cup Entering \cup raced

(***************************************************************************)
(* A clean exit leaves no injected key down, up to the same exception: the *)
(* last ReleaseAllKeys reaches every key of the system.                    *)
(***************************************************************************)
NothingLeftAtExit == pc[Main] = "stopped" => osDown \subseteq raced

(***************************************************************************)
(* At rest the ledger is exactly the set of injected keys that are down:   *)
(* a key-up owned by the ledger never goes to a key of the main keyboard.  *)
(* The exceptions are the raced keys and the missed ones.                  *)
(***************************************************************************)
Excepted == raced \cup missed

LedgerIsExact == Quiet => owned \ Excepted = osDown \ Excepted

(***************************************************************************)
(* At rest an injected key is down only while the dedicated keyboard holds *)
(* it and the active profile is basic: no key sticks after its release,    *)
(* and none survives a switch to a targeted profile.  The exceptions are   *)
(* the same.                                                               *)
(***************************************************************************)
Tracked == osDown \ Excepted

DownKeysAreHeld ==
  Quiet => /\ Tracked \subseteq prev
           /\ mode[active] = "targeted" => Tracked = {}

(***************************************************************************)
(* A key that the dedicated keyboard has released goes up in the system,   *)
(* unless it is pressed again before that, was raced or is missed.         *)
(***************************************************************************)
ReleasedKeyComesUp ==
  \A x \in Key : (x \in osDown /\ x \notin report)
                   ~> (x \notin osDown \/ x \in Excepted \cup report)

(***************************************************************************)
(* What FAQ.md and OnProfileSwitched promise without any condition on the  *)
(* reports: after a profile switch out of basic mode no injected key is    *)
(* left down.                                                              *)
(***************************************************************************)
SwitchReleasesInjected == Quiet /\ mode[active] = "targeted" => osDown = {}

(***************************************************************************)
(* What the ledger is for: at rest every key the program holds down in the *)
(* system is one the ledger can release.                                   *)
(***************************************************************************)
DownKeysAreOwned == Quiet => osDown \subseteq owned
-----------------------------------------------------------------------------
(***************************************************************************)
(* The inductive strengthening of NoLostKey and NothingLeftAtExit: a       *)
(* key-up that was sent but not yet recorded has left its key up, unless   *)
(* the key was raced; and while the main thread releases, its copy covers  *)
(* the ledger, which the workers only shrink.                              *)
(***************************************************************************)
UpsAreUp ==
  /\ \A t \in Thread : pc[t] = "relRecord" =>
        op[t] \in toRelease[t] /\ (op[t] \notin osDown \/ op[t] \in raced)
  /\ pc[Main] = "send" => op[Main] \notin report
  /\ pc[Main] = "record" /\ op[Main] \notin report => op[Main] \notin osDown

MainReleaseCovers ==
  /\ pc[Main] \in {"relSend", "relRecord"} => owned \subseteq toRelease[Main]
  /\ pc[Main] = "stopped" => owned = {}

LedgerInv == TypeOK /\ NoLostKey /\ UpsAreUp /\ MainReleaseCovers

(***************************************************************************)
(* The strengthening of LedgerIsExact and DownKeysAreHeld.  A report that  *)
(* switches the profile carries no other edge, so when the copied profile  *)
(* is no longer the active one every edge of the report is consumed.       *)
(***************************************************************************)
InRelease == pc[Main] \in {"release", "relSend", "relRecord"}

Dispatching == pc[Main] \in {"gate", "press"} \/ (InRelease /\ back = "press")

Injecting == pc[Main] \in {"inject", "send", "record"}

DispatchInv ==
  Dispatching =>
    /\ Edges \in EdgeSet
    /\ todo \cup consumed \subseteq report \ prev
    /\ todo \cap consumed = {}
    /\ active # prof => Edges \subseteq consumed
    /\ mode[prof] = "targeted" => Tracked = {}
    /\ pc[Main] = "gate" => active = prof

(* Where the keys that are down come from, at each stage of a report. *)
DownInv ==
  /\ Injecting =>
       Tracked \subseteq report \cup todo \cup (IF pc[Main] = "send" THEN {op[Main]} ELSE {})
  /\ ~Injecting => Tracked \subseteq prev
  /\ mode[active] = "targeted" => InRelease \/ Tracked = {}
  /\ mode[active] = "targeted" /\ Injecting => todo = {} /\ pc[Main] = "inject"

(* The keys whose key-up a ReleaseAllKeys has sent and not yet recorded. *)
GoingUp == {op[t] : t \in {u \in Thread : pc[u] = "relRecord"}}

(* A key of the ledger is down or on its way up; and no worker's copy has  *)
(* the key that is being entered, nor the ledger one that is yet to be     *)
(* pressed.                                                                *)
ExactInv ==
  /\ owned \ Excepted \subseteq
       osDown \cup GoingUp \cup (IF pc[Main] = "record" THEN {op[Main]} ELSE {})
  /\ Injecting => owned \cap todo \cap report \subseteq Excepted \cup GoingUp
  /\ pc[Main] \in {"send", "record"} => op[Main] \notin todo
  /\ Entering \ Excepted \subseteq osDown \ (owned \cup UNION {toRelease[t] : t \in Worker})

HeldInv == DispatchInv /\ DownInv /\ ExactInv
==============================================================================
