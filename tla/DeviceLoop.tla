----------------------------- MODULE DeviceLoop -----------------------------
(***************************************************************************)
(* The main thread of sidekick.cpp as the owner of the keyboard: the       *)
(* always-on loop of main, which finds the device, opens it or waits for   *)
(* it; ReadLoop, which keeps one overlapped read under way and pumps       *)
(* window messages; ReconnectDevice; and the messages that matter to them. *)
(* Beside it run the USB bus, which plugs and unplugs devices and completes*)
(* reads, the console thread, and the timer of the auto-switch.            *)
(*                                                                         *)
(* A step is a call that touches the device, a wait, or one message; a     *)
(* local variable that goes out of scope goes back to its first value.     *)
(* A read that is complete when WinUsb_ReadPipe returns changes nothing    *)
(* here and is left out.                                                   *)
(***************************************************************************)
EXTENDS Integers, FiniteSets

CONSTANTS
  Device,     \* devices, and the patterns of g_deviceVidPid that match them
  NoDevice,
  Config,     \* the lists of patterns config.ini may hold
  Tries,      \* the attempts of ReconnectDevice
  Backoff,    \* seconds a wait of the main loop lasts at least
  MaxEvents   \* bound of what happens outside the main thread

ASSUME DeviceAssumption ==
  /\ NoDevice \notin Device /\ Config \subseteq SUBSET Device
  /\ Tries \in Nat \ {0} /\ Backoff \in Nat \ {0} /\ MaxEvents \in Nat

VARIABLES
  pc,                \* where the main thread is
  back,              \* where it goes when it has pumped its messages
  tries,             \* of ReconnectDevice
  waited,            \* seconds the present wait of the main loop has lasted
  path,              \* the device FindDevicePath returned
  wanted,            \* g_deviceVidPid, as the devices it matches
  running,           \* g_running
  notified,          \* g_deviceChangeNotified
  powerResume,       \* g_powerResume
  pendingReconnect,  \* g_pendingReconnect
  event,             \* g_reconnectRequestEvent is signalled
  handle,            \* g_hWinUsb: "none", "good", or "dead" if its device is gone
  open,              \* the device behind the handle
  readPending,       \* of ReadLoop
  irp,               \* the overlapped read
  plugged,           \* devices on the bus
  posted,            \* messages in the queue of the window
  console,           \* the console thread
  ticking,           \* SetTimer(9999) of the auto-switch has succeeded
  events,            \* how much has happened outside so far
  slow,              \* history: an abort has lasted longer than its wait
  asked,             \* history: a device was activated since the last open
  unheard            \* history: no WM_DEVICECHANGE will tell what there is to open

local == <<back, tries, waited, path>>
flags == <<notified, powerResume, pendingReconnect, event>>
device == <<handle, open, readPending, irp>>
outside == <<plugged, console, ticking, events>>
ghosts == <<slow, asked, unheard>>
vars == <<pc, local, wanted, running, flags, device, outside, posted, ghosts>>

MessageKind == {"change", "resume", "exit", "shutdown", "timer", "activate", "reload"}
Message == [kind : MessageKind, to : SUBSET Device]
Plain(kind) == [kind |-> kind, to |-> {}]

TypeOK ==
  /\ pc \in {"find", "absent", "open", "failed", "read", "wait", "abort", "reopen", "left",
             "drain", "pump", "exit", "stopped"}
  /\ back \in {"find", "absent", "failed", "read"}
  /\ tries \in 0..Tries /\ waited \in 0..Backoff
  /\ path \in Device \cup {NoDevice} /\ wanted \subseteq Device
  /\ running \in BOOLEAN /\ notified \in BOOLEAN /\ powerResume \in BOOLEAN
  /\ pendingReconnect \in BOOLEAN /\ event \in BOOLEAN
  /\ handle \in {"none", "good", "dead"} /\ open \in Device \cup {NoDevice}
  /\ readPending \in BOOLEAN
  /\ irp \in {"none", "pending", "cancelling", "done", "failed"}
  /\ plugged \subseteq Device /\ posted \subseteq Message
  /\ console \in {"idle", "post", "done", "failed"} /\ ticking \in BOOLEAN
  /\ events \in 0..MaxEvents
  /\ slow \in BOOLEAN /\ asked \in BOOLEAN /\ unheard \in BOOLEAN

Init ==
  /\ pc = "find" /\ back = "find" /\ tries = 0 /\ waited = 0 /\ path = NoDevice
  /\ wanted \in Config
  /\ running = TRUE
  /\ notified = FALSE /\ powerResume = FALSE /\ pendingReconnect = FALSE /\ event = FALSE
  /\ handle = "none" /\ open = NoDevice /\ readPending = FALSE /\ irp = "none"
  /\ plugged \in SUBSET Device
  /\ posted = {} /\ console = "idle" /\ ticking \in BOOLEAN /\ events = 0
  /\ slow = FALSE /\ asked = FALSE /\ unheard = FALSE
-----------------------------------------------------------------------------
(* What the main thread does to the device.                                *)

Outstanding == irp \in {"pending", "cancelling"}

(* FindDevicePath: the first device of the enumeration that some pattern matches. *)
Found == wanted \cap plugged

(* WinUsb_AbortPipe *)
Cancelled(i) == IF i = "pending" THEN "cancelling" ELSE i

(* WinUsb_Free and CloseHandle.  A read that is still outstanding stays so. *)
Close ==
  /\ handle' = "none" /\ open' = NoDevice
  /\ irp' = IF Outstanding THEN irp ELSE "none"

Happens == events < MaxEvents /\ events' = events + 1  \* bound

(* OpenDevice: fails if the device is gone by now, or for a reason of its own. *)
Opens(d) ==
  /\ d \in plugged
  /\ handle' = "good" /\ open' = d
  /\ asked' = FALSE /\ unheard' = FALSE
  /\ UNCHANGED events

OpenFails(d) ==
  \/ d \notin plugged /\ UNCHANGED events
  \/ d \in plugged /\ Happens
-----------------------------------------------------------------------------
(* The loop of main.                                                       *)

Find ==
  /\ pc = "find"
  /\ \/ /\ ~running /\ pc' = "exit"
        /\ UNCHANGED local
     \/ /\ running
        /\ \E d \in Found : path' = d
        /\ pc' = "open"
        /\ UNCHANGED <<back, tries, waited>>
     \/ /\ running /\ Found = {}
        /\ pc' = "absent"
        /\ UNCHANGED local
  /\ UNCHANGED <<wanted, running, flags, device, outside, posted, ghosts>>

(* A message ends the wait, and the wait begins anew afterwards. *)
Awake ==
  /\ pc \in {"absent", "failed"} /\ posted # {}
  /\ pc' = "pump" /\ back' = pc /\ waited' = 0
  /\ UNCHANGED <<tries, path, wanted, running, flags, device, outside, posted, ghosts>>

(* No device, and the wait runs out: look once more, and wait longer. *)
AbsentElapses ==
  /\ pc = "absent" /\ posted = {} /\ waited >= Backoff
  /\ waited' = 0
  /\ \/ /\ ~running /\ pc' = "exit"
        /\ UNCHANGED path
     \/ /\ running
        /\ \E d \in Found : path' = d
        /\ pc' = "open"
     \/ /\ running /\ Found = {}
        /\ UNCHANGED <<pc, path>>
  /\ UNCHANGED <<back, tries, wanted, running, flags, device, outside, posted, ghosts>>

(* A device that could not be opened, and the wait runs out. *)
FailedElapses ==
  /\ pc = "failed" /\ posted = {} /\ waited >= Backoff
  /\ pc' = "find" /\ waited' = 0
  /\ UNCHANGED <<back, tries, path, wanted, running, flags, device, outside, posted, ghosts>>

Open ==
  /\ pc = "open"
  /\ \/ /\ Opens(path)
        /\ pc' = "read"
        /\ powerResume' = FALSE /\ pendingReconnect' = FALSE
        /\ event' = (event /\ ~pendingReconnect)
        /\ UNCHANGED <<notified, slow>>
     \/ /\ OpenFails(path)
        /\ pc' = "failed"
        /\ unheard' = TRUE
        /\ UNCHANGED <<flags, handle, open, slow, asked>>
  /\ path' = NoDevice
  /\ UNCHANGED <<back, tries, waited, wanted, running, readPending, irp, plugged, console, ticking,
                 posted>>
-----------------------------------------------------------------------------
(* ReconnectDevice: close, then try to find and open a device, once a      *)
(* second.  No message is pumped meanwhile.                                *)
BeginReconnect ==
  /\ Close
  /\ pc' = "reopen" /\ tries' = 0

Reopen ==
  /\ pc = "reopen"
  /\ \/ /\ running /\ tries < Tries
        /\ \E d \in Found : Opens(d)
        /\ pc' = "read" /\ readPending' = FALSE /\ tries' = 0
        /\ UNCHANGED slow
     \/ /\ running /\ tries < Tries
        /\ \/ Found = {} /\ UNCHANGED events
           \/ \E d \in Found : OpenFails(d)
        /\ tries' = tries + 1
        /\ UNCHANGED <<pc, handle, open, readPending, ghosts>>
     \/ /\ ~running \/ tries = Tries
        /\ pc' = "left" /\ tries' = 0
        /\ UNCHANGED <<handle, open, readPending, events, ghosts>>
  /\ UNCHANGED <<back, waited, path, wanted, running, flags, irp, plugged, console, ticking, posted>>
-----------------------------------------------------------------------------
(* ReadLoop                                                                *)

LeaveLoop ==
  /\ pc = "read" /\ (~running \/ handle = "none")
  /\ pc' = "left"
  /\ UNCHANGED <<local, wanted, running, flags, device, outside, posted, ghosts>>

(* WinUsb_ReadPipe, unless a read is under way. *)
StartRead ==
  /\ pc = "read" /\ running
  /\ \/ readPending /\ UNCHANGED <<irp, readPending>>
     \/ ~readPending /\ handle = "good" /\ irp' = "pending" /\ readPending' = TRUE
  /\ handle # "none"
  /\ pc' = "wait"
  /\ UNCHANGED <<local, wanted, running, flags, handle, open, outside, posted, ghosts>>

ReadPipeFails ==
  /\ pc = "read" /\ running /\ ~readPending
  /\ \/ handle = "dead" /\ UNCHANGED events
     \/ handle = "good" /\ Happens
  /\ BeginReconnect
  /\ UNCHANGED <<back, waited, path, wanted, running, flags, readPending, plugged, console, ticking,
                 posted, ghosts>>

(* The read is complete: a report, or an error. *)
ReadCompletes ==
  /\ pc = "wait" /\ ~Outstanding
  /\ IF irp = "failed" /\ powerResume
       THEN /\ powerResume' = FALSE
            /\ BeginReconnect
            /\ UNCHANGED readPending
       ELSE /\ readPending' = FALSE /\ irp' = "none"
            /\ pc' = "read"
            /\ UNCHANGED <<powerResume, handle, open, tries>>
  /\ UNCHANGED <<back, waited, path, wanted, running, notified, pendingReconnect, event,
                 outside, posted, ghosts>>

(* A reconnect was asked for: the read is aborted first. *)
Requested ==
  /\ pc = "wait" /\ Outstanding /\ event
  /\ event' = FALSE /\ pendingReconnect' = FALSE
  /\ irp' = Cancelled(irp)
  /\ pc' = "abort"
  /\ UNCHANGED <<local, wanted, running, notified, powerResume, handle, open, readPending,
                 outside, posted, ghosts>>

WaitPumps ==
  /\ pc = "wait" /\ Outstanding /\ ~event /\ posted # {}
  /\ pc' = "pump" /\ back' = "read"
  /\ UNCHANGED <<tries, waited, path, wanted, running, flags, device, outside, posted, ghosts>>

(* Mutant: the aborted read is not waited for. *)
Unwaited == UNCHANGED <<events, slow>>

(* The wait for the aborted read, one second at most. *)
Waited ==
  /\ Outstanding => Happens
  /\ ~Outstanding => UNCHANGED events
  /\ slow' = (slow \/ Outstanding)

AbortEnds ==
  /\ pc = "abort"
  /\ Waited
  /\ readPending' = FALSE
  /\ BeginReconnect
  /\ UNCHANGED <<back, waited, path, wanted, running, flags, plugged, console, ticking, posted,
                 asked, unheard>>

(* After the loop: a read that is under way is aborted and waited for, and *)
(* main closes the device.                                                 *)
Left ==
  /\ pc = "left"
  /\ irp' = IF readPending THEN Cancelled(irp) ELSE irp
  /\ pc' = "drain"
  /\ UNCHANGED <<local, wanted, running, flags, handle, open, readPending, outside, posted, ghosts>>

Drain ==
  /\ pc = "drain"
  /\ IF readPending THEN Waited ELSE UNCHANGED <<events, slow>>
  /\ Close
  /\ readPending' = FALSE
  /\ pc' = (IF running THEN "pump" ELSE "find") /\ back' = "find"
  /\ UNCHANGED <<tries, waited, path, wanted, running, flags, plugged, console, ticking, posted,
                 asked, unheard>>

(* The last releases of main, and the end. *)
Exit ==
  /\ pc = "exit"
  /\ pc' = "stopped"
  /\ UNCHANGED <<local, wanted, running, flags, device, outside, posted, ghosts>>
-----------------------------------------------------------------------------
(* The messages.                                                           *)

(* DASH_ACTIVATE_DEVICE: a new pattern joins the list. *)
Activate(m) ==
  /\ wanted' = wanted \cup m.to
  /\ IF m.to \subseteq wanted THEN UNCHANGED <<pendingReconnect, event, asked>>
     ELSE pendingReconnect' = TRUE /\ event' = TRUE /\ asked' = TRUE

(* A message of the window. *)
MsgWndProc(m) ==
  /\ pc = "pump" /\ m \in posted
  /\ posted' = posted \ {m}
  /\ notified' = (notified \/ m.kind = "change")
  /\ powerResume' = (powerResume \/ m.kind = "resume")
  /\ running' = (running /\ m.kind # "exit")
  /\ irp' = IF m.kind \in {"resume", "exit", "shutdown"} /\ handle # "none"
              THEN Cancelled(irp) ELSE irp
  /\ IF m.kind = "activate" THEN Activate(m)
     ELSE /\ wanted' = IF m.kind = "reload" THEN m.to ELSE wanted
          /\ UNCHANGED <<pendingReconnect, event, asked>>
  /\ unheard' = IF m.kind = "change" THEN FALSE
                ELSE unheard \/ (m.kind \in {"activate", "reload"} /\ back \in {"absent", "failed"})
  /\ UNCHANGED <<pc, local, handle, open, readPending, outside, slow>>

(* Mutant: a device change is taken note of, and nobody looks. *)
PumpedUnseen ==
  /\ pc = "pump" /\ posted = {}
  /\ pc' = (IF running THEN back ELSE "find") /\ back' = "find"
  /\ notified' = (notified /\ back \notin {"absent", "failed"})
  /\ UNCHANGED <<tries, waited, path, wanted, running, powerResume, pendingReconnect, event, device,
                 outside, posted, ghosts>>

(* The queue is empty: back to the loop that pumped.  A device change is   *)
(* taken note of once, and makes the main loop look.                       *)
Pumped ==
  /\ pc = "pump" /\ posted = {}
  /\ notified' = (notified /\ back \notin {"absent", "failed"})
  /\ \/ /\ back \in {"find", "read"}
        /\ pc' = back /\ UNCHANGED path
     \/ /\ back = "failed"
        /\ pc' = (IF notified \/ ~running THEN "find" ELSE "failed")
        /\ UNCHANGED path
     \/ /\ back = "absent" /\ notified
        /\ \E d \in Found : path' = d
        /\ pc' = (IF running THEN "open" ELSE "exit")
     \/ /\ back = "absent" /\ (notified => Found = {})
        /\ pc' = (IF running THEN "absent" ELSE "exit")
        /\ UNCHANGED path
  /\ back' = "find"
  /\ UNCHANGED <<tries, waited, wanted, running, powerResume, pendingReconnect, event, device,
                 outside, posted, ghosts>>
-----------------------------------------------------------------------------
(* The bus, the system, the other threads.                                 *)

main == <<pc, local, wanted, running, flags, open, readPending>>

Change(told) ==
  posted' = IF told THEN posted \cup {Plain("change")} ELSE posted

Plug(d, told) ==
  /\ Happens /\ d \notin plugged
  /\ plugged' = plugged \cup {d}
  /\ Change(told)
  /\ unheard' = (unheard \/ ~told)
  /\ UNCHANGED <<main, handle, irp, console, ticking, slow, asked>>

Unplug(d, told) ==
  /\ Happens /\ d \in plugged
  /\ plugged' = plugged \ {d}
  /\ Change(told)
  /\ handle' = IF open = d THEN "dead" ELSE handle
  /\ irp' = IF open = d /\ Outstanding THEN "failed" ELSE irp
  /\ UNCHANGED <<main, console, ticking, ghosts>>

Report ==
  /\ Happens /\ irp = "pending" /\ handle = "good"
  /\ irp' = "done"
  /\ UNCHANGED <<main, handle, plugged, console, ticking, posted, ghosts>>

(* An abort takes effect; a report may have come first. *)
CancelEnds ==
  /\ irp = "cancelling"
  /\ irp' \in {"failed", "done"}
  /\ UNCHANGED <<main, handle, outside, posted, ghosts>>

Post(m) ==
  /\ Happens /\ m \notin posted
  /\ posted' = posted \cup {m}
  /\ UNCHANGED <<main, handle, irp, plugged, console, ticking, ghosts>>

(* The system wakes up, the tray ends the program, the dashboard activates *)
(* a device or reloads the configuration.                                  *)
Asked ==
  \/ Post(Plain("resume")) \/ Post(Plain("exit"))
  \/ \E d \in Device : Post([kind |-> "activate", to |-> {d}])
  \/ \E ds \in Config : Post([kind |-> "reload", to |-> ds])

(* Mutant: the message is not posted. *)
NothingPosted ==
  /\ console = "post"
  /\ console' = "done"
  /\ UNCHANGED <<main, handle, irp, posted, plugged, ticking, events, ghosts>>

(* ConsoleHandler: the flag, and then the message. *)
ConsoleFlag ==
  /\ console = "idle"
  /\ console' = "post" /\ running' = FALSE
  /\ UNCHANGED <<pc, local, wanted, flags, device, posted, plugged, ticking, events, ghosts>>

(* The message is lost without a window, and when PostMessage fails. *)
ConsolePost ==
  /\ console = "post"
  /\ \/ console' = "done" /\ posted' = posted \cup {Plain("shutdown")}
     \/ console' = "failed" /\ UNCHANGED posted
  /\ UNCHANGED <<main, handle, irp, plugged, ticking, events, ghosts>>

(* A second passes.  The main thread is faster: it is asleep by then.      *)
AtRest ==
  \/ pc \in {"absent", "failed"} /\ posted = {} /\ waited < Backoff
  \/ pc = "wait" /\ Outstanding /\ ~event /\ posted = {}

Second ==
  /\ AtRest
  /\ waited' = IF pc \in {"absent", "failed"} THEN waited + 1 ELSE waited
  /\ posted' = IF ticking THEN {Plain("timer")} ELSE {}
  /\ UNCHANGED <<pc, back, tries, path, wanted, running, flags, device, outside, ghosts>>
-----------------------------------------------------------------------------
MainLoop == Find \/ Awake \/ AbsentElapses \/ FailedElapses \/ Open \/ Exit

ReadLoop ==
  \/ LeaveLoop \/ StartRead \/ ReadPipeFails \/ ReadCompletes \/ Requested \/ WaitPumps
  \/ AbortEnds \/ Left \/ Drain \/ Reopen

Pump == Pumped \/ \E m \in posted : MsgWndProc(m)

Bus ==
  \/ \E d \in Device, told \in BOOLEAN : Plug(d, told) \/ Unplug(d, told)
  \/ Report \/ CancelEnds

Stopped == pc = "stopped" /\ UNCHANGED vars

Next ==
  \/ MainLoop \/ ReadLoop \/ Pump
  \/ Bus \/ Asked \/ ConsoleFlag \/ ConsolePost \/ Second
  \/ Stopped

Spec == Init /\ [][Next]_vars

(* The main and the console thread go on, an abort takes effect, time      *)
(* passes; nothing is plugged, pressed or asked for by necessity.          *)
FairSpec ==
  /\ Spec
  /\ WF_vars(MainLoop \/ ReadLoop \/ Pump)
  /\ WF_vars(CancelEnds) /\ WF_vars(ConsolePost) /\ WF_vars(Second)
-----------------------------------------------------------------------------
(* Unless an abort took longer than its wait, a read is outstanding only   *)
(* while ReadLoop knows of it and the device is open: whatever unplugs,    *)
(* aborts, resumes and activations meet, WinUsb_Free and a second          *)
(* WinUsb_ReadPipe never find a read under way.                            *)
ReadIsTracked ==
  /\ TypeOK
  /\ Outstanding /\ ~slow => readPending /\ handle # "none"

(* An activation is not lost: until the device is opened anew, the event   *)
(* says so, or ReadLoop is on its way to close the device.                 *)
ActivationIsKept == asked /\ handle # "none" => event \/ pc = "abort"

(* Both: the device is neither freed too early nor kept too long.          *)
DeviceIsKept == ReadIsTracked /\ ActivationIsKept

(* A device that is wanted and there is open again and again, once the     *)
(* environment is quiet: through the backoff, or, where the timer keeps    *)
(* the backoff from running out, through the device change that tells.     *)
Settled == running /\ Found # {} /\ (ticking => ~unheard)
DeviceIsOpened == <>[]Settled => []<>(handle = "good")

(* When the program is told to stop, it stops, whatever the device does;   *)
(* only where the console's message could not be posted, and no timer      *)
(* makes up for it, may it wait on for the next report.                    *)
Unheard == console = "failed" /\ ~ticking /\ pc = "wait"
ShutdownEnds == ~running ~> (pc = "stopped" \/ Unheard)

(* What ConsoleHandler's comment takes for granted: the flag and the       *)
(* message reach the owner of the read, and the program stops.             *)
StopIsHeard == ~running ~> pc = "stopped"

(* What main's comment says of its waits: the backoff is a safety net for  *)
(* a device change that was missed.                                        *)
BackoffIsANet == <>[](running /\ Found # {}) => []<>(handle = "good")
=============================================================================
