----------------------------- MODULE Listening -----------------------------
(***************************************************************************)
(* How pages of the dashboard listen to the dedicated keyboard.  "Capture" *)
(* asks for the next key: a worker arms it, ProcessReport stores the key,  *)
(* a poll takes it.  "Identify" opens a window of 15 s in which a basic    *)
(* profile types nothing (what the user presses meanwhile is the subject   *)
(* of IdentifyFeed).  Both are atomics that workers and the main thread    *)
(* read and write one by one.                                              *)
(***************************************************************************)
EXTENDS Integers

CONSTANTS
  Key, Tab,
  Window,   \* the 15000 ms of the identify window, in ticks
  Wrap,     \* the 2^32 values of GetTickCount, in ticks
  MaxTick   \* bound: the time that passes

NoKey == 0
Never == -1

ASSUME ListeningAssumption ==
  /\ NoKey \notin Key
  /\ Window \in Nat \ {0} /\ Wrap \in Nat \ {0} /\ MaxTick \in Nat /\ Window <= MaxTick

VARIABLES
  now,                                         \* time since the machine started
  g_identifyListening, g_identifyStartTick,
  g_captureArmed, g_capturedUsage,
  g_prevReport,
  report,    \* the main thread's report: where it is in ProcessReport, and its locals
  tab,       \* where a page, or its request, is
  heard,     \* history of a capture: the keys pressed since the page asked, and the
             \* one that was being captured then
  sole,      \* history: the page that captures while no other has since it began
  opened,    \* history: when the last window began, and whether the main thread had
             \* judged it by an older clock
  judged     \* history: what the report under way should see of the window

window == <<g_identifyListening, g_identifyStartTick, opened>>
capture == <<g_captureArmed, g_capturedUsage>>
mainThread == <<report, g_prevReport, judged>>
tabs == <<tab, heard, sole>>
listenVars == <<now, window, capture, mainThread, tabs>>

Reading(step, keys, key, basic) ==
  [pc |-> step, keys |-> keys, key |-> key, since |-> 0, basic |-> basic]
NoReport == Reading("idle", {}, NoKey, FALSE)
Unasked == [pressed |-> {}, late |-> {}, shown |-> NoKey]
Unjudged == [window |-> "shut", posted |-> FALSE]

ListenInit ==
  /\ now \in 0..Window
  /\ g_identifyListening = FALSE /\ g_identifyStartTick = 0
  /\ g_captureArmed = FALSE /\ g_capturedUsage = NoKey
  /\ report = NoReport /\ g_prevReport = {} /\ judged = Unjudged
  /\ tab = [p \in Tab |-> "idle"] /\ heard = [p \in Tab |-> Unasked] /\ sole = {}
  /\ opened = [at |-> Never, overtaken |-> FALSE]

Goes(p, step) == tab' = [tab EXCEPT ![p] = step]

Time ==
  /\ now < MaxTick
  /\ now' = now + 1
  /\ UNCHANGED <<window, capture, mainThread, tabs>>
-----------------------------------------------------------------------------
(* A tab's "Capture from keyboard": two stores of a worker. *)
Capturing(p) == tab[p] \in {"start", "wait"}

StartCapture(p) ==
  /\ tab[p] = "idle"
  /\ Goes(p, "start")
  /\ g_capturedUsage' = NoKey
  /\ heard' = [heard EXCEPT ![p].late =
                 IF report.pc \in {"store", "disarm"} THEN {report.key} ELSE {}]
  /\ sole' = IF \E q \in Tab : Capturing(q) THEN {} ELSE {p}
  /\ UNCHANGED <<now, window, g_captureArmed, mainThread>>

Arm(p) ==
  /\ tab[p] = "start"
  /\ Goes(p, "wait")
  /\ g_captureArmed' = TRUE
  /\ UNCHANGED <<now, window, g_capturedUsage, mainThread, heard, sole>>

(* A poll that finds a key takes it, whoever it was meant for. *)
PollCapture(p) ==
  /\ tab[p] = "wait" /\ g_capturedUsage # NoKey
  /\ Goes(p, "show")
  /\ heard' = [heard EXCEPT ![p].shown = g_capturedUsage]
  /\ g_capturedUsage' = NoKey
  /\ UNCHANGED <<now, window, g_captureArmed, mainThread, sole>>

(* The key is shown; or the user leaves the screen, or a poll fails, and   *)
(* the capture stays armed.                                                *)
StopPolling(p) ==
  /\ tab[p] \in {"wait", "show"}
  /\ Goes(p, "idle")
  /\ heard' = [heard EXCEPT ![p] = Unasked] /\ sole' = sole \ {p}
  /\ UNCHANGED <<now, window, capture, mainThread>>
-----------------------------------------------------------------------------
(* POST /input/identify, after it has released every key (BasicRouting,    *)
(* TargetedRouting): the flag, then the clock.                             *)
StoreListening(p) ==
  /\ tab[p] = "idle"
  /\ Goes(p, "tick")
  /\ g_identifyListening' = TRUE
  /\ judged' = [judged EXCEPT !.posted = @ \/ report.pc = "gate"]
  /\ UNCHANGED <<now, g_identifyStartTick, opened, capture, report, g_prevReport, heard, sole>>

StoreStartTick(p) ==
  /\ tab[p] = "tick"
  /\ Goes(p, "idle")
  /\ g_identifyStartTick' = now % Wrap
  /\ opened' = [at |-> now,
                overtaken |-> ~g_identifyListening
                              \/ (report.pc \in {"gate", "close"} /\ report.since >= Window)]
  /\ UNCHANGED <<now, g_identifyListening, capture, mainThread, heard, sole>>
-----------------------------------------------------------------------------
(* ProcessReport, up to the point where the keys are dispatched.  A profile *)
(* in targeted mode does not look at the window.                            *)
AfterCapture(basic) == IF basic THEN "clock" ELSE "dispatch"

ReportArrives(keys, basic) ==
  /\ report.pc = "idle"
  /\ LET edges == keys \ g_prevReport IN
       /\ \/ /\ g_captureArmed
             /\ \E u \in edges : report' = Reading("store", keys, u, basic)
          \/ /\ ~g_captureArmed \/ edges = {}
             /\ report' = Reading(AfterCapture(basic), keys, NoKey, basic)
       /\ heard' = [p \in Tab |-> IF Capturing(p)
                      THEN [heard[p] EXCEPT !.pressed = @ \cup edges] ELSE heard[p]]
  /\ UNCHANGED <<now, window, capture, g_prevReport, judged, tab, sole>>

StoreKey ==
  /\ report.pc = "store"
  /\ report' = [report EXCEPT !.pc = "disarm"]
  /\ g_capturedUsage' = report.key
  /\ UNCHANGED <<now, window, g_captureArmed, g_prevReport, judged, tabs>>

Disarm ==
  /\ report.pc = "disarm"
  /\ report' = [report EXCEPT !.pc = AfterCapture(report.basic), !.key = NoKey]
  /\ g_captureArmed' = FALSE
  /\ UNCHANGED <<now, window, g_capturedUsage, g_prevReport, judged, tabs>>

InWindow == opened.at # Never /\ now - opened.at < Window

ReadClock ==
  /\ report.pc = "clock"
  /\ report' = [report EXCEPT !.pc = "gate", !.since = (now - g_identifyStartTick) % Wrap]
  /\ judged' = [window |-> IF ~InWindow THEN "shut"
                           ELSE IF opened.overtaken THEN "overtaken" ELSE "open",
                posted |-> \E p \in Tab : tab[p] = "tick"]
  /\ UNCHANGED <<now, window, capture, g_prevReport, tabs>>

(* Mutant: an open window is not closed by its clock. *)
GateByFlag ==
  /\ report.pc = "gate"
  /\ report' = [report EXCEPT !.pc = IF g_identifyListening THEN "swallow"
                                     ELSE IF report.since >= Window THEN "close" ELSE "dispatch"]
  /\ UNCHANGED <<now, window, capture, g_prevReport, judged, tabs>>

Gate ==
  /\ report.pc = "gate"
  /\ report' = [report EXCEPT !.pc = IF report.since >= Window THEN "close"
                                     ELSE IF g_identifyListening THEN "swallow" ELSE "dispatch"]
  /\ UNCHANGED <<now, window, capture, g_prevReport, judged, tabs>>

CloseWindow ==
  /\ report.pc = "close"
  /\ report' = [report EXCEPT !.pc = "dispatch"]
  /\ g_identifyListening' = FALSE
  /\ UNCHANGED <<now, g_identifyStartTick, opened, capture, g_prevReport, judged, tabs>>

(* Swallowed or dispatched, the report becomes the one before. *)
EndReport ==
  /\ report.pc \in {"swallow", "dispatch"}
  /\ report' = NoReport /\ g_prevReport' = report.keys /\ judged' = Unjudged
  /\ UNCHANGED <<now, window, capture, tabs>>

ListenNext ==
  \/ Time
  \/ \E p \in Tab :
       \/ StartCapture(p) \/ Arm(p) \/ PollCapture(p) \/ StopPolling(p)
       \/ StoreListening(p) \/ StoreStartTick(p)
  \/ \E keys \in SUBSET Key, basic \in BOOLEAN : ReportArrives(keys, basic)
  \/ StoreKey \/ Disarm \/ ReadClock \/ Gate \/ CloseWindow \/ EndReport

ListenSpec == ListenInit /\ [][ListenNext]_listenVars
-----------------------------------------------------------------------------
ListenTypeOK ==
  /\ now \in 0..MaxTick
  /\ g_identifyListening \in BOOLEAN /\ g_identifyStartTick \in 0..Wrap-1
  /\ g_captureArmed \in BOOLEAN /\ g_capturedUsage \in Key \cup {NoKey}
  /\ report \in [pc : {"idle", "store", "disarm", "clock", "gate", "close", "swallow", "dispatch"},
                 keys : SUBSET Key, key : Key \cup {NoKey}, since : 0..Wrap-1, basic : BOOLEAN]
  /\ g_prevReport \subseteq Key
  /\ tab \in [Tab -> {"idle", "start", "wait", "show", "tick"}]
  /\ heard \in [Tab -> [pressed : SUBSET Key, late : SUBSET Key, shown : Key \cup {NoKey}]]
  /\ sole \subseteq Tab
  /\ opened \in [at : {Never} \cup 0..MaxTick, overtaken : BOOLEAN]
  /\ judged \in [window : {"shut", "overtaken", "open"}, posted : BOOLEAN]

(***************************************************************************)
(* In the 15 s after a POST has opened the window, a basic profile types   *)
(* nothing, unless a report had read the clock before the POST and closes  *)
(* the window; and it is never mute without a POST or for longer, so that  *)
(* a keyboard works again after it was identified.                         *)
(***************************************************************************)
WindowHolds ==
  /\ ListenTypeOK
  /\ report.pc = "dispatch" /\ report.basic => judged.window # "open"
  /\ report.pc = "swallow" => judged.window # "shut" \/ judged.posted

(***************************************************************************)
(* A page is shown a key that was pressed since it asked, or the one that  *)
(* was being captured just then; and a page that asks alone, and not in    *)
(* that moment, is still listened to or has its key waiting.               *)
(***************************************************************************)
CaptureServes ==
  \A p \in Tab :
    /\ heard[p].shown \in heard[p].pressed \cup heard[p].late \cup {NoKey}
    /\ tab[p] = "wait" /\ sole = {p} /\ heard[p].late = {}
         => g_captureArmed \/ g_capturedUsage # NoKey

(* Both listeners serve the page that set them, also when the other is set. *)
ListeningServes == WindowHolds /\ CaptureServes
=============================================================================
