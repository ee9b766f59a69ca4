-------------------------- MODULE MainThreadProofs --------------------------
(***************************************************************************)
(* Theorems about what the main thread does with the dedicated keyboard.   *)
(* The device is closed at the right time, for any number of devices,      *)
(* patterns, attempts and events: never under a read, and not kept when    *)
(* another one was asked for.  Who listens to it is served.  A press finds *)
(* the mapping it should, and its keys the window they are meant for.      *)
(***************************************************************************)
EXTENDS DeviceLoop, Listening, Desktop, KeyMap, FiniteSetTheorems, WellFoundedInduction,
        TLAPS

(* No handle, no device behind it; and ReconnectDevice begins with a close,*)
(* so that nothing it opens comes over a read that is still known.         *)
ClosedIsClosed ==
  /\ handle = "none" <=> open = NoDevice
  /\ pc = "reopen" => handle = "none"

(* While FindDevicePath's answer is on its way to OpenDevice it is a device. *)
PathIsFound == pc = "open" => path \in Device

ReadIsKnown == Outstanding /\ ~slow => readPending /\ handle # "none"

Tracked == ReadIsKnown /\ ActivationIsKept /\ ClosedIsClosed

DeviceInv == TypeOK /\ PathIsFound /\ Tracked

(* The types, in three parts that a proof takes one by one. *)
FlagsTyped ==
  /\ running \in BOOLEAN /\ notified \in BOOLEAN /\ powerResume \in BOOLEAN
  /\ pendingReconnect \in BOOLEAN /\ event \in BOOLEAN /\ readPending \in BOOLEAN
  /\ ticking \in BOOLEAN /\ slow \in BOOLEAN /\ asked \in BOOLEAN /\ unheard \in BOOLEAN

ControlTyped ==
  /\ pc \in {"find", "absent", "open", "failed", "read", "wait", "abort", "reopen", "left",
             "drain", "pump", "exit", "stopped"}
  /\ back \in {"find", "absent", "failed", "read"}
  /\ tries \in 0..Tries /\ waited \in 0..Backoff
  /\ path \in Device \cup {NoDevice}
  /\ console \in {"idle", "post", "done", "failed"} /\ events \in 0..MaxEvents

DeviceTyped ==
  /\ wanted \subseteq Device
  /\ handle \in {"none", "good", "dead"} /\ open \in Device \cup {NoDevice}
  /\ irp \in {"none", "pending", "cancelling", "done", "failed"}
  /\ plugged \subseteq Device /\ posted \subseteq Message

Typed == FlagsTyped /\ ControlTyped /\ DeviceTyped /\ PathIsFound

(* The three parts are the type invariant. *)
LEMMA TypeParts ==
  /\ Typed <=> TypeOK /\ PathIsFound
  /\ Typed' <=> TypeOK' /\ PathIsFound'
  BY DEF Typed, TypeOK, FlagsTyped, ControlTyped, DeviceTyped

(* What is asked of the main thread is a message posted to it. *)
LEMMA AskedPosts == Asked => \E m \in Message : Post(m)
  BY DeviceAssumption DEF Asked, Message, Plain, MessageKind

(* Every step keeps the types, and finds before it opens. *)
LEMMA TypeStep == TypeOK /\ PathIsFound /\ [Next]_vars => Typed'
<1> SUFFICES ASSUME TypeOK, PathIsFound, [Next]_vars PROVE Typed'
  OBVIOUS
<1> USE DeviceAssumption
    DEF TypeOK, FlagsTyped, ControlTyped, DeviceTyped, PathIsFound, Found, Outstanding,
        main, local, flags, device, outside, ghosts
<1>1. CASE Find
  BY <1>1 DEF Typed, Find
<1>2. CASE Awake
  BY <1>2 DEF Typed, Awake
<1>3. CASE AbsentElapses
  BY <1>3 DEF Typed, AbsentElapses
<1>4. CASE FailedElapses
  BY <1>4 DEF Typed, FailedElapses
<1>5. CASE Open
  <2>1. FlagsTyped'
    BY <1>5 DEF Open, Opens, OpenFails, Happens
  <2>2. ControlTyped'
    BY <1>5 DEF Open, Opens, OpenFails, Happens
  <2>3. DeviceTyped'
    BY <1>5 DEF Open, Opens, OpenFails, Happens
  <2>4. PathIsFound'
    BY <1>5 DEF Open, Opens, OpenFails, Happens
  <2>. QED BY <2>1, <2>2, <2>3, <2>4 DEF Typed
<1>6. CASE Exit
  BY <1>6 DEF Typed, Exit
<1>7. CASE LeaveLoop
  BY <1>7 DEF Typed, LeaveLoop
<1>8. CASE StartRead
  <2>1. FlagsTyped'
    BY <1>8 DEF StartRead
  <2>2. ControlTyped'
    BY <1>8 DEF StartRead
  <2>3. DeviceTyped'
    BY <1>8 DEF StartRead
  <2>4. PathIsFound'
    BY <1>8 DEF StartRead
  <2>. QED BY <2>1, <2>2, <2>3, <2>4 DEF Typed
<1>9. CASE ReadPipeFails
  BY <1>9 DEF Typed, ReadPipeFails, BeginReconnect, Close, Happens
<1>10. CASE ReadCompletes
  <2>1. FlagsTyped'
    BY <1>10 DEF ReadCompletes, BeginReconnect, Close
  <2>2. ControlTyped'
    BY <1>10 DEF ReadCompletes, BeginReconnect, Close
  <2>3. DeviceTyped'
    BY <1>10 DEF ReadCompletes, BeginReconnect, Close
  <2>4. PathIsFound'
    BY <1>10 DEF ReadCompletes, BeginReconnect, Close
  <2>. QED BY <2>1, <2>2, <2>3, <2>4 DEF Typed
<1>11. CASE Requested
  <2>1. FlagsTyped'
    BY <1>11 DEF Requested, Cancelled
  <2>2. ControlTyped'
    BY <1>11 DEF Requested, Cancelled
  <2>3. DeviceTyped'
    BY <1>11 DEF Requested, Cancelled
  <2>4. PathIsFound'
    BY <1>11 DEF Requested, Cancelled
  <2>. QED BY <2>1, <2>2, <2>3, <2>4 DEF Typed
<1>12. CASE WaitPumps
  BY <1>12 DEF Typed, WaitPumps
<1>13. CASE AbortEnds
  <2>1. FlagsTyped'
    BY <1>13 DEF AbortEnds, BeginReconnect, Close, Waited, Happens
  <2>2. ControlTyped'
    BY <1>13 DEF AbortEnds, BeginReconnect, Close, Waited, Happens
  <2>3. DeviceTyped'
    BY <1>13 DEF AbortEnds, BeginReconnect, Close, Waited, Happens
  <2>4. PathIsFound'
    BY <1>13 DEF AbortEnds, BeginReconnect, Close, Waited, Happens
  <2>. QED BY <2>1, <2>2, <2>3, <2>4 DEF Typed
<1>14. CASE Left
  BY <1>14 DEF Typed, Left, Cancelled
<1>15. CASE Drain
  <2>1. FlagsTyped'
    BY <1>15 DEF Drain, Close, Waited, Happens
  <2>2. ControlTyped'
    BY <1>15 DEF Drain, Close, Waited, Happens
  <2>3. DeviceTyped'
    BY <1>15 DEF Drain, Close, Waited, Happens
  <2>4. PathIsFound'
    BY <1>15 DEF Drain, Close, Waited, Happens
  <2>. QED BY <2>1, <2>2, <2>3, <2>4 DEF Typed
<1>16. CASE Reopen
  <2>1. FlagsTyped'
    BY <1>16 DEF Reopen, Opens, OpenFails, Happens
  <2>2. ControlTyped'
    BY <1>16 DEF Reopen, Opens, OpenFails, Happens
  <2>3. DeviceTyped'
    BY <1>16 DEF Reopen, Opens, OpenFails, Happens
  <2>4. PathIsFound'
    BY <1>16 DEF Reopen, Opens, OpenFails, Happens
  <2>. QED BY <2>1, <2>2, <2>3, <2>4 DEF Typed
<1>17. CASE Pumped
  BY <1>17 DEF Typed, Pumped
<1>18. ASSUME NEW m \in posted, MsgWndProc(m) PROVE Typed'
  <2>1. FlagsTyped'
    BY <1>18 DEF MsgWndProc, Activate, Cancelled, Message, MessageKind
  <2>2. ControlTyped'
    BY <1>18 DEF MsgWndProc, Activate, Cancelled, Message, MessageKind
  <2>3. DeviceTyped'
    BY <1>18 DEF MsgWndProc, Activate, Cancelled, Message, MessageKind
  <2>4. PathIsFound'
    BY <1>18 DEF MsgWndProc, Activate, Cancelled, Message, MessageKind
  <2>. QED BY <2>1, <2>2, <2>3, <2>4 DEF Typed
<1>19. ASSUME NEW d \in Device, NEW told \in BOOLEAN, Plug(d, told) PROVE Typed'
  BY <1>19 DEF Typed, Plug, Change, Happens, Plain, Message, MessageKind
<1>20. ASSUME NEW d \in Device, NEW told \in BOOLEAN, Unplug(d, told) PROVE Typed'
  BY <1>20 DEF Typed, Unplug, Change, Happens, Plain, Message, MessageKind
<1>21. CASE Report
  BY <1>21 DEF Typed, Report, Happens
<1>22. CASE CancelEnds
  BY <1>22 DEF Typed, CancelEnds
<1>23. ASSUME NEW m \in Message, Post(m) PROVE Typed'
  <2>1. FlagsTyped'
    BY <1>23 DEF Post, Happens
  <2>2. ControlTyped'
    BY <1>23 DEF Post, Happens
  <2>3. DeviceTyped'
    BY <1>23 DEF Post, Happens
  <2>4. PathIsFound'
    BY <1>23 DEF Post, Happens
  <2>. QED BY <2>1, <2>2, <2>3, <2>4 DEF Typed
<1>24. CASE ConsoleFlag
  <2>1. FlagsTyped'
    BY <1>24 DEF ConsoleFlag
  <2>2. ControlTyped'
    BY <1>24 DEF ConsoleFlag
  <2>3. DeviceTyped'
    BY <1>24 DEF ConsoleFlag
  <2>4. PathIsFound'
    BY <1>24 DEF ConsoleFlag
  <2>. QED BY <2>1, <2>2, <2>3, <2>4 DEF Typed
<1>25. CASE ConsolePost
  BY <1>25 DEF Typed, ConsolePost, Plain, Message, MessageKind
<1>26. CASE Second
  BY <1>26 DEF Typed, Second, AtRest, Plain, Message, MessageKind
<1>27. CASE UNCHANGED vars
  BY <1>27 DEF Typed, vars
<1>. QED
  BY <1>1, <1>2, <1>3, <1>4, <1>5, <1>6, <1>7, <1>8, <1>9, <1>10, <1>11, <1>12, <1>13, <1>14,
     <1>15, <1>16, <1>17, <1>18, <1>19, <1>20, <1>21, <1>22, <1>23, <1>24, <1>25, <1>26, <1>27,
     AskedPosts
  DEF Next, MainLoop, ReadLoop, Pump, Bus, Stopped

(* No step frees the device under a read, or forgets an activation. *)
LEMMA TrackedStep == DeviceInv /\ [Next]_vars => Tracked'
<1> SUFFICES ASSUME DeviceInv, [Next]_vars PROVE Tracked'
  OBVIOUS
<1> USE DeviceAssumption
    DEF DeviceInv, Tracked, TypeOK, ReadIsKnown, ActivationIsKept, ClosedIsClosed, PathIsFound,
        Found, Outstanding, main, local, flags, device, outside, ghosts
<1>1. CASE Find
  BY <1>1 DEF Tracked, Find
<1>2. CASE Awake
  BY <1>2 DEF Tracked, Awake
<1>3. CASE AbsentElapses
  BY <1>3 DEF Tracked, AbsentElapses
<1>4. CASE FailedElapses
  BY <1>4 DEF Tracked, FailedElapses
<1>5. CASE Open
  BY <1>5 DEF Tracked, Open, Opens, OpenFails, Happens
<1>6. CASE Exit
  BY <1>6 DEF Tracked, Exit
<1>7. CASE LeaveLoop
  BY <1>7 DEF Tracked, LeaveLoop
<1>8. CASE StartRead
  BY <1>8 DEF Tracked, StartRead
<1>9. CASE ReadPipeFails
  BY <1>9 DEF Tracked, ReadPipeFails, BeginReconnect, Close, Happens
<1>10. CASE ReadCompletes
  BY <1>10 DEF Tracked, ReadCompletes, BeginReconnect, Close
<1>11. CASE Requested
  BY <1>11 DEF Tracked, Requested, Cancelled
<1>12. CASE WaitPumps
  BY <1>12 DEF Tracked, WaitPumps
<1>13. CASE AbortEnds
  BY <1>13 DEF Tracked, AbortEnds, BeginReconnect, Close, Waited, Happens
<1>14. CASE Left
  BY <1>14 DEF Tracked, Left, Cancelled
<1>15. CASE Drain
  BY <1>15 DEF Tracked, Drain, Close, Waited, Happens
<1>16. CASE Reopen
  BY <1>16 DEF Tracked, Reopen, Opens, OpenFails, Happens
<1>17. CASE Pumped
  BY <1>17 DEF Tracked, Pumped
<1>18. ASSUME NEW m \in posted, MsgWndProc(m) PROVE Tracked'
  BY <1>18 DEF Tracked, MsgWndProc, Activate, Cancelled, Message, MessageKind
<1>19. ASSUME NEW d \in Device, NEW told \in BOOLEAN, Plug(d, told) PROVE Tracked'
  BY <1>19 DEF Tracked, Plug, Change, Happens, Plain, Message, MessageKind
<1>20. ASSUME NEW d \in Device, NEW told \in BOOLEAN, Unplug(d, told) PROVE Tracked'
  BY <1>20 DEF Tracked, Unplug, Change, Happens, Plain, Message, MessageKind
<1>21. CASE Report
  BY <1>21 DEF Tracked, Report, Happens
<1>22. CASE CancelEnds
  BY <1>22 DEF Tracked, CancelEnds
<1>23. ASSUME NEW m \in Message, Post(m) PROVE Tracked'
  BY <1>23 DEF Tracked, Post, Happens
<1>24. CASE ConsoleFlag
  BY <1>24 DEF Tracked, ConsoleFlag
<1>25. CASE ConsolePost
  BY <1>25 DEF Tracked, ConsolePost, Plain, Message, MessageKind
<1>26. CASE Second
  BY <1>26 DEF Tracked, Second, AtRest, Plain, Message, MessageKind
<1>27. CASE UNCHANGED vars
  BY <1>27 DEF Tracked, vars
<1>. QED
  BY <1>1, <1>2, <1>3, <1>4, <1>5, <1>6, <1>7, <1>8, <1>9, <1>10, <1>11, <1>12, <1>13, <1>14,
     <1>15, <1>16, <1>17, <1>18, <1>19, <1>20, <1>21, <1>22, <1>23, <1>24, <1>25, <1>26, <1>27,
     AskedPosts
  DEF Next, MainLoop, ReadLoop, Pump, Bus, Stopped

(* The inductive invariant holds. *)
LEMMA DeviceInvariant == Spec => []DeviceInv
<1>1. Init => DeviceInv
  <2> SUFFICES ASSUME Init PROVE DeviceInv
    OBVIOUS
  <2>1. FlagsTyped
    BY DEF Init, FlagsTyped
  <2>2. ControlTyped /\ DeviceTyped
    BY DeviceAssumption DEF Init, ControlTyped, DeviceTyped
  <2>3. PathIsFound /\ Tracked
    BY DEF Init, PathIsFound, Tracked, ReadIsKnown, ActivationIsKept, ClosedIsClosed, Outstanding
  <2>. QED BY <2>1, <2>2, <2>3, TypeParts DEF Typed, DeviceInv
<1>2. DeviceInv /\ [Next]_vars => DeviceInv'
  BY TypeStep, TrackedStep, TypeParts DEF DeviceInv
<1>. QED BY <1>1, <1>2, PTL DEF Spec

(***************************************************************************)
(* Whatever is plugged, unplugged, asked for, aborted and resumed, in      *)
(* whatever order: WinUsb_Free and WinUsb_ReadPipe find no read under way, *)
(* unless an abort took longer than the second that CloseDevice's callers  *)
(* wait for it; and DASH_ACTIVATE_DEVICE ends in a close of the device.    *)
(***************************************************************************)
THEOREM DeviceStaysKept == Spec => []DeviceIsKept
<1>1. DeviceInv => DeviceIsKept
  BY DEF DeviceInv, Tracked, DeviceIsKept, ReadIsTracked, ReadIsKnown
<1>. QED BY <1>1, DeviceInvariant, PTL

-----------------------------------------------------------------------------
(* The types, in three parts; a key that is being captured is a key. *)
ReportTyped ==
  /\ report \in [pc : {"idle", "store", "disarm", "clock", "gate", "close", "swallow", "dispatch"},
                 keys : SUBSET Key, key : Key \cup {NoKey}, since : 0..Wrap-1, basic : BOOLEAN]
  /\ report.pc \in {"store", "disarm"} => report.key \in Key
  /\ g_prevReport \subseteq Key
  /\ judged \in [window : {"shut", "overtaken", "open"}, posted : BOOLEAN]
WindowTyped ==
  /\ now \in 0..MaxTick
  /\ g_identifyListening \in BOOLEAN /\ g_identifyStartTick \in 0..Wrap-1
  /\ opened \in [at : {Never} \cup 0..MaxTick, overtaken : BOOLEAN]
CaptureTyped ==
  /\ g_captureArmed \in BOOLEAN /\ g_capturedUsage \in Key \cup {NoKey}
  /\ tab \in [Tab -> {"idle", "start", "wait", "show", "tick"}]
  /\ heard \in [Tab -> [pressed : SUBSET Key, late : SUBSET Key, shown : Key \cup {NoKey}]]
  /\ sole \subseteq Tab

ListenTyped == ReportTyped /\ WindowTyped /\ CaptureTyped

(* The parts together are the type of Listening. *)
LEMMA ListenTypeParts == ListenTyped => ListenTypeOK
BY DEF ListenTyped, ListenTypeOK, ReportTyped, WindowTyped, CaptureTyped

(* What a report that arrives does, said without its locals. *)
LEMMA ReportIs ==
  ASSUME NEW down \in SUBSET Key, NEW basic \in BOOLEAN, ReportArrives(down, basic)
  PROVE  /\ report.pc = "idle"
         /\ \/ \E u \in down \ g_prevReport : report' = Reading("store", down, u, basic)
            \/ report' = Reading(AfterCapture(basic), down, NoKey, basic)
         /\ heard' = [p \in Tab |-> IF Capturing(p)
                        THEN [heard[p] EXCEPT !.pressed = @ \cup (down \ g_prevReport)] ELSE heard[p]]
         /\ UNCHANGED <<now, window, capture, g_prevReport, judged, tab, sole>>
BY Zenon DEF ReportArrives

(* What a report is when it is taken up, *)
LEMMA ReportStarts ==
  ASSUME NEW down \in SUBSET Key, NEW basic \in BOOLEAN, ReportArrives(down, basic)
  PROVE  /\ report.pc = "idle"
         /\ report'.pc = "store" => report'.key \in down \ g_prevReport
         /\ report'.pc \in {"store", "clock", "dispatch"}
<1>1. report.pc = "idle"  BY Zenon DEF ReportArrives
<1>2. (\E u \in down \ g_prevReport : report' = Reading("store", down, u, basic))
      \/ report' = Reading(AfterCapture(basic), down, NoKey, basic)
  BY Zenon DEF ReportArrives
<1>3. ASSUME NEW u \in down \ g_prevReport, report' = Reading("store", down, u, basic)
      PROVE  report'.pc = "store" /\ report'.key \in down \ g_prevReport
  BY <1>3 DEF Reading
<1>4. CASE report' = Reading(AfterCapture(basic), down, NoKey, basic)
  <2>1. AfterCapture(basic) \in {"clock", "dispatch"}  BY DEF AfterCapture
  <2>2. report'.pc = AfterCapture(basic)  BY <1>4 DEF Reading
  <2> QED BY <1>1, <2>1, <2>2
<1> QED BY <1>1, <1>2, <1>3, <1>4

(* what it is once it was heard, *)
LEMMA ReportHeard ==
  ASSUME NEW down \in SUBSET Key, NEW basic \in BOOLEAN, ReportArrives(down, basic),
         heard \in [Tab -> [pressed : SUBSET Key, late : SUBSET Key, shown : Key \cup {NoKey}]]
  PROVE  \A p \in Tab : /\ heard'[p].late = heard[p].late /\ heard'[p].shown = heard[p].shown
                        /\ \A u \in heard[p].pressed : u \in heard'[p].pressed
                        /\ Capturing(p) => \A u \in down \ g_prevReport : u \in heard'[p].pressed
<1>1. heard' = [p \in Tab |-> IF Capturing(p)
                 THEN [heard[p] EXCEPT !.pressed = @ \cup (down \ g_prevReport)] ELSE heard[p]]
  BY Zenon DEF ReportArrives
<1>2. \A p \in Tab : heard'[p] = IF Capturing(p)
                 THEN [heard[p] EXCEPT !.pressed = @ \cup (down \ g_prevReport)] ELSE heard[p]
  BY <1>1
<1> QED BY <1>2

(* and what of it a later step leaves alone. *)
LEMMA ReportKeeps ==
  ASSUME NEW down \in SUBSET Key, NEW basic \in BOOLEAN, ReportArrives(down, basic)
  PROVE  UNCHANGED <<now, window, capture, g_prevReport, judged, tab, sole>>
BY Zenon DEF ReportArrives

(* The clock of the program is a number below its wrap. *)
LEMMA Modulo == \A n \in Int : n % Wrap \in 0..Wrap-1
BY ListeningAssumption

(* The types are kept, part by part. *)
LEMMA ReportTypedStep ==
  ASSUME ListenTyped, [ListenNext]_listenVars
  PROVE  ReportTyped'
<1> USE ListeningAssumption DEF ListenTyped, ReportTyped, mainThread
<1>1. CASE Time  BY <1>1 DEF Time
<1>2. ASSUME NEW p \in Tab, StartCapture(p) PROVE ReportTyped'  BY <1>2 DEF StartCapture
<1>3. ASSUME NEW p \in Tab, Arm(p) PROVE ReportTyped'  BY <1>3 DEF Arm
<1>4. ASSUME NEW p \in Tab, PollCapture(p) PROVE ReportTyped'  BY <1>4 DEF PollCapture
<1>5. ASSUME NEW p \in Tab, StopPolling(p) PROVE ReportTyped'  BY <1>5 DEF StopPolling
<1>6. ASSUME NEW p \in Tab, StoreListening(p) PROVE ReportTyped'
  <2>1. (judged.posted \/ report.pc = "gate") \in BOOLEAN  OBVIOUS
  <2> QED BY <1>6, <2>1 DEF StoreListening
<1>7. ASSUME NEW p \in Tab, StoreStartTick(p) PROVE ReportTyped'  BY <1>7 DEF StoreStartTick
<1>8. ASSUME NEW down \in SUBSET Key, NEW basic \in BOOLEAN, ReportArrives(down, basic) PROVE ReportTyped'
  <2>1. CASE \E u \in down \ g_prevReport : report' = Reading("store", down, u, basic)
    <3>1. UNCHANGED <<g_prevReport, judged>>  BY <1>8, ReportIs
    <3>2. \A u \in down : ReportTyped /\ UNCHANGED <<g_prevReport, judged>>
                             /\ report' = Reading("store", down, u, basic) => ReportTyped'
      BY DEF Reading
    <3> QED BY <2>1, <3>1, <3>2
  <2>2. CASE report' = Reading(AfterCapture(basic), down, NoKey, basic)
    BY <1>8, <2>2, ReportIs DEF AfterCapture, Reading
  <2> QED BY <1>8, <2>1, <2>2, ReportIs
<1>9. CASE StoreKey  BY <1>9 DEF StoreKey
<1>10. CASE Disarm  BY <1>10 DEF Disarm, AfterCapture
<1>11. CASE ReadClock
  <2>1. (now - g_identifyStartTick) % Wrap \in 0..Wrap-1
    BY Modulo DEF WindowTyped
  <2>2. report' \in [pc : {"idle", "store", "disarm", "clock", "gate", "close", "swallow", "dispatch"},
                 keys : SUBSET Key, key : Key \cup {NoKey}, since : 0..Wrap-1, basic : BOOLEAN]
    BY <1>11, <2>1 DEF ReadClock
  <2>3. (\E p \in Tab : tab[p] = "tick") \in BOOLEAN  OBVIOUS
  <2>4. judged' \in [window : {"shut", "overtaken", "open"}, posted : BOOLEAN]
    BY <1>11, <2>3 DEF ReadClock
  <2> QED BY <1>11, <2>2, <2>4 DEF ReadClock
<1>12. CASE Gate  BY <1>12 DEF Gate
<1>13. CASE CloseWindow  BY <1>13 DEF CloseWindow
<1>14. CASE EndReport  BY <1>14 DEF EndReport, NoReport, Reading, Unjudged
<1>15. CASE UNCHANGED listenVars  BY <1>15 DEF listenVars
<1> QED BY <1>1, <1>2, <1>3, <1>4, <1>5, <1>6, <1>7, <1>8, <1>9, <1>10, <1>11, <1>12, <1>13, <1>14, <1>15 DEF ListenNext

(* The windows of "identify" keep their types, *)
LEMMA WindowTypedStep ==
  ASSUME ListenTyped, [ListenNext]_listenVars
  PROVE  WindowTyped'
<1> USE ListeningAssumption DEF ListenTyped, WindowTyped, window
<1>1. CASE Time  BY <1>1 DEF Time
<1>2. CASE \E p \in Tab : StartCapture(p) \/ Arm(p) \/ PollCapture(p) \/ StopPolling(p)
  BY <1>2 DEF StartCapture, Arm, PollCapture, StopPolling
<1>3. ASSUME NEW p \in Tab, StoreListening(p) PROVE WindowTyped'  BY <1>3 DEF StoreListening
<1>4. ASSUME NEW p \in Tab, StoreStartTick(p) PROVE WindowTyped'
  <2>1. now % Wrap \in 0..Wrap-1  BY Modulo
  <2>2. (~g_identifyListening \/ (report.pc \in {"gate", "close"} /\ report.since >= Window)) \in BOOLEAN
    OBVIOUS
  <2> QED BY <1>4, <2>1, <2>2 DEF StoreStartTick
<1>5. ASSUME NEW down \in SUBSET Key, NEW basic \in BOOLEAN, ReportArrives(down, basic) PROVE WindowTyped'
  BY <1>5, ReportIs
<1>6. CASE StoreKey \/ Disarm \/ ReadClock \/ Gate \/ EndReport
  BY <1>6 DEF StoreKey, Disarm, ReadClock, Gate, EndReport
<1>7. CASE CloseWindow  BY <1>7 DEF CloseWindow
<1>8. CASE UNCHANGED listenVars  BY <1>8 DEF listenVars
<1> QED BY <1>1, <1>2, <1>3, <1>4, <1>5, <1>6, <1>7, <1>8 DEF ListenNext

(* and the capture keeps its types. *)
LEMMA CaptureTypedStep ==
  ASSUME ListenTyped, [ListenNext]_listenVars
  PROVE  CaptureTyped'
<1> USE DEF ListenTyped, CaptureTyped, capture, tabs, Goes
<1>1. CASE Time  BY <1>1 DEF Time
<1>2. ASSUME NEW p \in Tab, StartCapture(p) PROVE CaptureTyped'
  <2>1. \E late \in SUBSET Key : heard' = [heard EXCEPT ![p].late = late]
    BY <1>2, ListeningAssumption DEF StartCapture, ReportTyped
  <2> QED BY <1>2, <2>1 DEF StartCapture
<1>3. ASSUME NEW p \in Tab, Arm(p) PROVE CaptureTyped'  BY <1>3 DEF Arm
<1>4. ASSUME NEW p \in Tab, PollCapture(p) PROVE CaptureTyped'  BY <1>4 DEF PollCapture
<1>5. ASSUME NEW p \in Tab, StopPolling(p) PROVE CaptureTyped'  BY <1>5 DEF StopPolling, Unasked
<1>6. ASSUME NEW p \in Tab, StoreListening(p) \/ StoreStartTick(p) PROVE CaptureTyped'
  BY <1>6 DEF StoreListening, StoreStartTick
<1>7. ASSUME NEW down \in SUBSET Key, NEW basic \in BOOLEAN, ReportArrives(down, basic) PROVE CaptureTyped'
  BY <1>7, ReportIs
<1>8. CASE StoreKey  BY <1>8 DEF StoreKey, ReportTyped
<1>9. CASE Disarm  BY <1>9 DEF Disarm
<1>10. CASE ReadClock \/ Gate \/ CloseWindow \/ EndReport
  BY <1>10 DEF ReadClock, Gate, CloseWindow, EndReport
<1>11. CASE UNCHANGED listenVars  BY <1>11 DEF listenVars
<1> QED BY <1>1, <1>2, <1>3, <1>4, <1>5, <1>6, <1>7, <1>8, <1>9, <1>10, <1>11 DEF ListenNext

(* The identify window.  The tick that was stored is the time the last    *)
(* window began; a window nobody overtook has its flag set; a report that *)
(* will close it is late, or has overtaken it; and the report at the gate *)
(* knows what it should see.                                              *)
WindowInv ==
  /\ opened.at <= now
  /\ g_identifyStartTick = IF opened.at = Never THEN 0 ELSE opened.at % Wrap
  /\ opened.at = Never /\ g_identifyListening => \E p \in Tab : tab[p] = "tick"
  /\ InWindow /\ ~ opened.overtaken => g_identifyListening
  /\ report.pc \in {"gate", "close"} /\ report.since >= Window => opened.overtaken \/ ~ InWindow
  /\ report.pc = "gate" /\ judged.window = "open" => report.since < Window /\ g_identifyListening
  /\ report.pc = "gate" /\ report.since < Window /\ g_identifyListening =>
       judged.window # "shut" \/ judged.posted
  /\ report.pc = "dispatch" /\ report.basic => judged.window # "open"
  /\ report.pc = "swallow" => judged.window # "shut" \/ judged.posted
  /\ report.pc = "close" => report.since >= Window /\ judged.window # "open"
  /\ report.pc \in {"idle", "store", "disarm", "clock"} => judged = Unjudged

(* A capture.  What a page is shown was pressed for it; one page at most  *)
(* is alone; and the key of the page that is alone is not lost between    *)
(* the two stores of the main thread, nor between those of the worker.    *)
KeysHeard ==
  \A p \in Tab :
    /\ heard[p].shown \in heard[p].pressed \cup heard[p].late \cup {NoKey}
    /\ tab[p] # "show" => heard[p].shown = NoKey
    /\ Capturing(p) =>
         /\ g_capturedUsage \in heard[p].pressed \cup heard[p].late \cup {NoKey}
         /\ report.pc = "store" => report.key \in heard[p].pressed \cup heard[p].late
OneIsSole ==
  /\ \A p, q \in sole : p = q
  /\ \A p, q \in Tab : p \in sole /\ Capturing(p) /\ Capturing(q) => p = q
SoleIsServed ==
  \A p \in Tab : sole = {p} /\ heard[p].late = {} =>
    /\ report.pc = "disarm" /\ Capturing(p) => g_capturedUsage # NoKey
    /\ tab[p] = "wait" => g_captureArmed \/ g_capturedUsage # NoKey
CaptureInv == KeysHeard /\ OneIsSole /\ SoleIsServed

(* Before the clock wraps it is the time. *)
LEMMA SmallModulo == \A n \in 0..Wrap-1 : n % Wrap = n
BY ListeningAssumption

(* Every step keeps the window, while the time is below the wrap of the   *)
(* clock: a window opened 49.7 days ago would look new.                   *)
LEMMA WindowInvStep ==
  ASSUME MaxTick < Wrap, ListenTyped, ListenTyped', WindowInv, [ListenNext]_listenVars
  PROVE  WindowInv'
<1> USE ListeningAssumption DEF ListenTyped, ReportTyped, WindowTyped, WindowInv, InWindow, mainThread, window, Goes, Never
<1>1. CASE Time  BY <1>1 DEF Time, tabs
<1>2. ASSUME NEW p \in Tab, StartCapture(p) \/ Arm(p) \/ PollCapture(p) \/ StopPolling(p) PROVE WindowInv'
  BY <1>2 DEF StartCapture, Arm, PollCapture, StopPolling, CaptureTyped
<1>3. ASSUME NEW p \in Tab, StoreListening(p) PROVE WindowInv'
  <2>1. /\ report' = report /\ now' = now /\ opened' = opened
        /\ g_identifyStartTick' = g_identifyStartTick /\ g_identifyListening' = TRUE
        /\ tab'[p] = "tick"
    BY <1>3 DEF StoreListening, CaptureTyped
  <2>2. judged'.window = judged.window  BY <1>3 DEF StoreListening
  <2>3. report.pc = "gate" => judged'.posted
    BY <1>3 DEF StoreListening
  <2>4. report.pc # "gate" => judged' = judged
    <3>1. report.pc # "gate" => (judged.posted \/ report.pc = "gate") = judged.posted  OBVIOUS
    <3>2. judged' = [judged EXCEPT !.posted = judged.posted \/ report.pc = "gate"]
      BY <1>3, Zenon DEF StoreListening
    <3>3. report.pc # "gate" => judged' = [judged EXCEPT !.posted = judged.posted]
      BY <3>1, <3>2, Zenon
    <3> QED BY <3>3 DEF ListenTyped, WindowTyped
  <2> QED BY <2>1, <2>2, <2>3, <2>4
<1>4. ASSUME NEW p \in Tab, StoreStartTick(p) PROVE WindowInv'
  <2>1. /\ report' = report /\ now' = now /\ judged' = judged
        /\ g_identifyListening' = g_identifyListening
        /\ g_identifyStartTick' = now % Wrap /\ opened'.at = now
    BY <1>4 DEF StoreStartTick
  <2>2. /\ ~ opened'.overtaken => g_identifyListening
        /\ report.pc \in {"gate", "close"} /\ report.since >= Window => opened'.overtaken
    BY <1>4 DEF StoreStartTick
  <2> QED BY <2>1, <2>2
<1>5. ASSUME NEW down \in SUBSET Key, NEW basic \in BOOLEAN, ReportArrives(down, basic) PROVE WindowInv'
  <2>1. report'.pc \in {"store", "clock", "dispatch"} /\ report.pc = "idle"
    BY ONLY <1>5, ReportStarts
  <2>2. UNCHANGED <<now, opened, g_identifyListening, g_identifyStartTick, judged, tab>>
    BY <1>5, ReportKeeps
  <2> QED BY <2>1, <2>2 DEF Unjudged
<1>6. CASE StoreKey  BY <1>6 DEF StoreKey, tabs
<1>7. CASE Disarm  BY <1>7 DEF Disarm, tabs, AfterCapture
<1>8. CASE ReadClock
  <2>1. (now - g_identifyStartTick) % Wrap = IF opened.at = Never THEN now ELSE now - opened.at
    BY SmallModulo
  <2> QED BY <1>8, <2>1 DEF ReadClock, tabs
<1>9. CASE Gate  BY <1>9 DEF Gate, tabs
<1>10. CASE CloseWindow  BY <1>10 DEF CloseWindow, tabs
<1>11. CASE EndReport  BY <1>11 DEF EndReport, tabs, NoReport, Reading
<1>12. CASE UNCHANGED listenVars  BY <1>12 DEF listenVars, tabs
<1> QED BY <1>1, <1>2, <1>3, <1>4, <1>5, <1>6, <1>7, <1>8, <1>9, <1>10, <1>11, <1>12 DEF ListenNext

(* A new report: the keys that go down are heard by every page that       *)
(* captures.                                                              *)
LEMMA ReportCaptured ==
  ASSUME ListenTyped, CaptureInv,
         NEW down \in SUBSET Key, NEW basic \in BOOLEAN, ReportArrives(down, basic)
  PROVE  CaptureInv'
<1>1. /\ report.pc = "idle"
      /\ report'.pc = "store" => report'.key \in down \ g_prevReport
      /\ report'.pc \in {"store", "clock", "dispatch"}
  BY ReportStarts
<1>2. /\ g_captureArmed' = g_captureArmed /\ g_capturedUsage' = g_capturedUsage
      /\ tab' = tab /\ sole' = sole
  BY ReportKeeps DEF capture
<1>3. \A p \in Tab : /\ heard'[p].late = heard[p].late /\ heard'[p].shown = heard[p].shown
                     /\ \A u \in heard[p].pressed : u \in heard'[p].pressed
                     /\ Capturing(p) => \A u \in down \ g_prevReport : u \in heard'[p].pressed
  <2>1. heard \in [Tab -> [pressed : SUBSET Key, late : SUBSET Key, shown : Key \cup {NoKey}]]
    BY DEF ListenTyped, CaptureTyped
  <2>2. ReportArrives(down, basic)  OBVIOUS
  <2> QED BY <2>1, <2>2, ReportHeard, ZenonT(30)
<1>4. KeysHeard'
  <2> SUFFICES ASSUME NEW p \in Tab
               PROVE  /\ heard'[p].shown \in heard'[p].pressed \cup heard'[p].late \cup {NoKey}
                      /\ tab'[p] # "show" => heard'[p].shown = NoKey
                      /\ Capturing(p)' =>
                           /\ g_capturedUsage' \in heard'[p].pressed \cup heard'[p].late \cup {NoKey}
                           /\ report'.pc = "store" => report'.key \in heard'[p].pressed \cup heard'[p].late
    BY DEF KeysHeard
  <2>1. /\ heard[p].shown \in heard[p].pressed \cup heard[p].late \cup {NoKey}
        /\ tab[p] # "show" => heard[p].shown = NoKey
        /\ Capturing(p) => g_capturedUsage \in heard[p].pressed \cup heard[p].late \cup {NoKey}
    BY DEF CaptureInv, KeysHeard
  <2>2. Capturing(p)' <=> Capturing(p)  BY <1>2 DEF Capturing
  <2>3. report'.pc = "store" /\ Capturing(p) => report'.key \in heard'[p].pressed
    <3>1. Capturing(p) => \A u \in down \ g_prevReport : u \in heard'[p].pressed  BY <1>3
    <3> QED BY <1>1, <3>1, Zenon
  <2>4. /\ heard'[p].shown = heard[p].shown
        /\ \A u \in heard[p].pressed \cup heard[p].late \cup {NoKey} :
             u \in heard'[p].pressed \cup heard'[p].late \cup {NoKey}
    <3>1. /\ heard'[p].late = heard[p].late /\ heard'[p].shown = heard[p].shown
          /\ \A u \in heard[p].pressed : u \in heard'[p].pressed
      BY <1>3
    <3> QED BY <3>1
  <2>5. /\ heard'[p].shown \in heard'[p].pressed \cup heard'[p].late \cup {NoKey}
        /\ tab'[p] # "show" => heard'[p].shown = NoKey
    BY <1>2, <2>1, <2>4, Zenon
  <2>6. Capturing(p) => g_capturedUsage' \in heard'[p].pressed \cup heard'[p].late \cup {NoKey}
    BY <1>2, <2>1, <2>4, Zenon
  <2> QED BY <2>2, <2>3, <2>5, <2>6, Zenon
<1>5. OneIsSole'  BY <1>2 DEF CaptureInv, OneIsSole, Capturing
<1>6. SoleIsServed'  BY <1>1, <1>2, <1>3 DEF CaptureInv, SoleIsServed, Capturing
<1> QED BY <1>4, <1>5, <1>6 DEF CaptureInv

(* Every step keeps the capture. *)
LEMMA CaptureInvStep ==
  ASSUME ListenTyped, ListenTyped', CaptureInv, [ListenNext]_listenVars
  PROVE  CaptureInv'
<1> USE ListeningAssumption DEF ListenTyped, ReportTyped, CaptureTyped, CaptureInv, KeysHeard, OneIsSole, SoleIsServed, Capturing, capture, tabs, Goes
<1>1. CASE Time  BY <1>1 DEF Time, mainThread
<1>2. ASSUME NEW p \in Tab, StartCapture(p) PROVE CaptureInv'
  <2> USE <1>2 DEF StartCapture, mainThread
  <2>1. /\ tab'[p] = "start" /\ \A q \in Tab : q # p => tab'[q] = tab[q]
        /\ g_capturedUsage' = NoKey /\ report' = report /\ g_captureArmed' = g_captureArmed
        /\ tab[p] = "idle"
    OBVIOUS
  <2>2. /\ \A q \in Tab : heard'[q].pressed = heard[q].pressed /\ heard'[q].shown = heard[q].shown
        /\ \A q \in Tab : q # p => heard'[q] = heard[q]
        /\ heard'[p].late = IF report.pc \in {"store", "disarm"} THEN {report.key} ELSE {}
    OBVIOUS
  <2>3. sole' = IF \E q \in Tab : Capturing(q) THEN {} ELSE {p}  OBVIOUS
  <2>4. KeysHeard'  BY <2>1, <2>2
  <2>5. OneIsSole'  BY <2>1, <2>3
  <2>6. SoleIsServed'
    <3> SUFFICES ASSUME NEW q \in Tab, sole' = {q}, heard'[q].late = {}
                 PROVE  /\ report'.pc = "disarm" /\ Capturing(q)' => g_capturedUsage' # NoKey
                        /\ tab'[q] = "wait" => g_captureArmed' \/ g_capturedUsage' # NoKey
      OBVIOUS
    <3>1. q = p  BY <2>3
    <3>2. report'.pc # "disarm"  BY <3>1, <2>1, <2>2
    <3> QED BY <3>1, <3>2, <2>1
  <2> QED BY <2>4, <2>5, <2>6
<1>3. ASSUME NEW p \in Tab, Arm(p) PROVE CaptureInv'  BY <1>3 DEF Arm, mainThread
<1>4. ASSUME NEW p \in Tab, PollCapture(p) PROVE CaptureInv'
  <2> USE <1>4 DEF PollCapture, mainThread
  <2>1. /\ tab'[p] = "show" /\ \A q \in Tab : q # p => tab'[q] = tab[q]
        /\ tab[p] = "wait" /\ g_capturedUsage' = NoKey
        /\ g_captureArmed' = g_captureArmed /\ report' = report /\ sole' = sole
    OBVIOUS
  <2>2. /\ \A q \in Tab : heard'[q].pressed = heard[q].pressed /\ heard'[q].late = heard[q].late
        /\ \A q \in Tab : q # p => heard'[q] = heard[q]
        /\ heard'[p].shown = g_capturedUsage
    OBVIOUS
  <2> QED BY <2>1, <2>2
<1>5. ASSUME NEW p \in Tab, StopPolling(p) PROVE CaptureInv'
  <2> USE <1>5 DEF StopPolling, Unasked, mainThread
  <2>1. /\ tab'[p] = "idle" /\ \A q \in Tab : q # p => tab'[q] = tab[q]
        /\ g_captureArmed' = g_captureArmed /\ g_capturedUsage' = g_capturedUsage
        /\ report' = report /\ sole' = sole \ {p}
    OBVIOUS
  <2>2. /\ \A q \in Tab : q # p => heard'[q] = heard[q]
        /\ heard'[p].shown = NoKey
    OBVIOUS
  <2>3. KeysHeard'  BY <2>1, <2>2
  <2>4. OneIsSole'  BY <2>1
  <2>5. \A q \in Tab : sole' = {q} => sole = {q} /\ q # p
    <3> SUFFICES ASSUME NEW q \in Tab, sole \ {p} = {q} PROVE sole = {q} /\ q # p  BY <2>1
    <3>1. q \in sole /\ q # p  OBVIOUS
    <3>2. \A r \in sole : r = q  BY <3>1
    <3> QED BY <3>1, <3>2
  <2>6. SoleIsServed'  BY <2>1, <2>2, <2>5
  <2> QED BY <2>3, <2>4, <2>6
<1>6. ASSUME NEW p \in Tab, StoreListening(p) \/ StoreStartTick(p) PROVE CaptureInv'
  BY <1>6 DEF StoreListening, StoreStartTick, mainThread
<1>7. ASSUME NEW down \in SUBSET Key, NEW basic \in BOOLEAN, ReportArrives(down, basic) PROVE CaptureInv'
  <2> HIDE DEF ListenTyped, CaptureInv
  <2> QED BY <1>7, ReportCaptured
<1>8. CASE StoreKey  BY <1>8 DEF StoreKey
<1>9. CASE Disarm  BY <1>9 DEF Disarm, AfterCapture
<1>10. CASE ReadClock  BY <1>10 DEF ReadClock
<1>11. CASE Gate  BY <1>11 DEF Gate
<1>12. CASE CloseWindow  BY <1>12 DEF CloseWindow
<1>13. CASE EndReport  BY <1>13 DEF EndReport, NoReport, Reading
<1>14. CASE UNCHANGED listenVars  BY <1>14 DEF listenVars, mainThread
<1> HIDE DEF ListenTyped, CaptureInv, capture, tabs, Capturing, Goes
<1> QED BY <1>1, <1>2, <1>3, <1>4, <1>5, <1>6, <1>7, <1>8, <1>9, <1>10, <1>11, <1>12, <1>13, <1>14 DEF ListenNext

(* Nobody listens at the start. *)
LEMMA ListenInitHolds == ListenInit => ListenTyped /\ WindowInv /\ CaptureInv
<1> SUFFICES ASSUME ListenInit PROVE ListenTyped /\ WindowInv /\ CaptureInv  OBVIOUS
<1> USE ListeningAssumption DEF ListenInit, NoReport, Reading, Unjudged, Unasked, Never
<1>1. ListenTyped
  <2>1. ReportTyped  BY DEF ReportTyped
  <2>2. WindowTyped
    <3>1. 0 \in 0..Wrap-1 /\ now \in 0..MaxTick  OBVIOUS
    <3>2. opened \in [at : {Never} \cup 0..MaxTick, overtaken : BOOLEAN]  OBVIOUS
    <3> QED BY <3>1, <3>2 DEF WindowTyped
  <2>3. CaptureTyped  BY DEF CaptureTyped
  <2> QED BY <2>1, <2>2, <2>3 DEF ListenTyped
<1>2. WindowInv  BY DEF WindowInv, InWindow
<1>3. CaptureInv  BY DEF CaptureInv, KeysHeard, OneIsSole, SoleIsServed, Capturing
<1> QED BY <1>1, <1>2, <1>3

(* The invariants say what is promised. *)
LEMMA ListeningInvariant == ListenTyped /\ WindowInv /\ CaptureInv => ListeningServes
BY ListenTypeParts DEF WindowInv, CaptureInv, KeysHeard, SoleIsServed, CaptureServes, ListeningServes, WindowHolds

(* Listening (ProcessReport and the identify and capture routes): in the  *)
(* 15 s after a POST a basic profile types nothing and afterwards it      *)
(* types again, and a page that captures alone is shown a key that was    *)
(* pressed since; for any number of keys and pages, in the first 49.7     *)
(* days of the machine.                                                   *)
THEOREM ListeningAlwaysServes ==
  ASSUME MaxTick < Wrap
  PROVE  ListenSpec => []ListeningServes
<1> DEFINE Inv == ListenTyped /\ WindowInv /\ CaptureInv
<1>1. ListenInit => Inv  BY ListenInitHolds
<1>2. Inv /\ [ListenNext]_listenVars => Inv'
  <2> SUFFICES ASSUME Inv, [ListenNext]_listenVars PROVE Inv'  OBVIOUS
  <2>1. ListenTyped'  BY ReportTypedStep, WindowTypedStep, CaptureTypedStep DEF ListenTyped
  <2>2. WindowInv'  BY <2>1, WindowInvStep
  <2>3. CaptureInv'  BY <2>1, CaptureInvStep
  <2> QED BY <2>1, <2>2, <2>3
<1>3. Inv => ListeningServes  BY ListeningInvariant
<1> QED BY <1>1, <1>2, <1>3, PTL DEF ListenSpec
-----------------------------------------------------------------------------
(***************************************************************************)
(* A set of numbers has a least one.                                       *)
(***************************************************************************)
LEMMA Least == ASSUME NEW S, S \subseteq Nat, S # {} PROVE \E x \in S : \A y \in S : x <= y
<1> DEFINE R == OpToRel(<, Nat)
<1>1. IsWellFoundedOn(R, Nat)  BY NatLessThanWellFounded
<1>2. PICK x \in S : \A y \in S : ~ (<<y, x>> \in R)  BY <1>1, WFMin
<1>3. \A y \in S : y < x => <<y, x>> \in R  BY DEF OpToRel
<1>4. \A y \in S : ~ (y < x)  BY <1>2, <1>3
<1> QED BY <1>4

Increasing(s, n) == \A i, j \in 1..n : i < j => s[i] < s[j]
Enumerable(S) == \E s \in [1..Cardinality(S) -> S] : Increasing(s, Cardinality(S))
CannotBe(n) == \E S \in SUBSET Nat : IsFiniteSet(S) /\ Cardinality(S) = n /\ ~ Enumerable(S)

(***************************************************************************)
(* The least element in front of the others in their order is the whole in *)
(* its order.                                                              *)
(***************************************************************************)
LEMMA LeastInFront ==
  ASSUME NEW S, S \subseteq Nat, IsFiniteSet(S), NEW m \in S, \A y \in S : m <= y,
         Enumerable(S \ {m})
  PROVE  Enumerable(S)
<1> DEFINE n == Cardinality(S \ {m})
<1>1. n \in Nat /\ Cardinality(S) = n + 1
  BY FS_RemoveElement, FS_CardinalityType, FS_Subset
<1>2. PICK r \in [1..n -> S \ {m}] : Increasing(r, n)  BY DEF Enumerable
<1> DEFINE s == [i \in 1..(n + 1) |-> IF i = 1 THEN m ELSE r[i - 1]]
<1> HIDE DEF n
<1>3. \A i \in 1..(n + 1) : i # 1 => i - 1 \in 1..n  BY <1>1
<1>4. s \in [1..(n + 1) -> S]  BY <1>3
<1>5. ASSUME NEW i \in 1..(n + 1), NEW j \in 1..(n + 1), i < j PROVE s[i] < s[j]
  <2>1. j # 1 /\ j - 1 \in 1..n /\ s[j] = r[j - 1]  BY <1>1, <1>5
  <2>2. r[j - 1] \in S /\ r[j - 1] # m  BY <2>1
  <2>3. CASE i = 1
    <3>1. s[i] = m  BY <2>3
    <3>2. m <= r[j - 1] /\ m \in Nat /\ r[j - 1] \in Nat  BY <2>2
    <3> HIDE DEF s
    <3> QED BY <3>1, <3>2, <2>1, <2>2
  <2>4. CASE i # 1
    <3>1. i - 1 \in 1..n /\ i - 1 < j - 1 /\ s[i] = r[i - 1]  BY <1>1, <1>5, <2>4
    <3> QED BY <3>1, <2>1, <1>2 DEF Increasing
  <2> QED BY <2>3, <2>4
<1> QED BY <1>1, <1>4, <1>5 DEF Enumerable, Increasing

(***************************************************************************)
(* Every finite set of numbers can be put in order: of those that cannot,  *)
(* the smallest would have a smaller one.                                  *)
(***************************************************************************)
LEMMA FiniteIsEnumerable == \A S \in SUBSET Nat : IsFiniteSet(S) => Enumerable(S)
<1> DEFINE T == {n \in Nat : CannotBe(n)}
<1>1. SUFFICES T = {}
  BY FS_CardinalityType DEF CannotBe
<1>2. SUFFICES ASSUME T # {} PROVE FALSE  OBVIOUS
<1>3. PICK n \in T : \A k \in T : n <= k  BY <1>2, Least
<1>4. PICK S \in SUBSET Nat : IsFiniteSet(S) /\ Cardinality(S) = n /\ ~ Enumerable(S)
  BY DEF CannotBe
<1>5. S # {}
  <2>1. SUFFICES ASSUME S = {} PROVE FALSE  OBVIOUS
  <2>2. n = 0  BY <1>4, <2>1, FS_EmptySet
  <2>3. [i \in 1..0 |-> 0] \in [1..0 -> S] /\ Increasing([i \in 1..0 |-> 0], 0)
    BY DEF Increasing
  <2> QED BY <1>4, <2>2, <2>3 DEF Enumerable
<1>6. PICK m \in S : \A y \in S : m <= y  BY <1>5, Least
<1>7. IsFiniteSet(S \ {m}) /\ Cardinality(S \ {m}) = n - 1 /\ n \in Nat
  BY <1>4, <1>6, FS_RemoveElement, FS_CardinalityType
<1>8. n - 1 \in Nat  BY <1>7, FS_CardinalityType
<1>9. Enumerable(S \ {m})
  <2>1. SUFFICES ASSUME ~ Enumerable(S \ {m}) PROVE FALSE  OBVIOUS
  <2>2. CannotBe(n - 1)  BY <1>7, <2>1 DEF CannotBe
  <2>3. n - 1 \in T  BY <1>8, <2>2
  <2> QED BY <1>3, <1>7, <2>3
<1> QED BY <1>4, <1>6, <1>9, LeastInFront

LEMMA OrderIsSeq ==
  ASSUME NEW S, S \subseteq Nat, IsFiniteSet(S)
  PROVE  InOrder(S) \in [1..Cardinality(S) -> S] /\ Cardinality(S) \in Nat
<1>1. Enumerable(S)  BY FiniteIsEnumerable
<1>2. Cardinality(S) \in Nat  BY FS_CardinalityType
<1> QED BY <1>1, <1>2 DEF InOrder, Enumerable, Increasing

-----------------------------------------------------------------------------
(***************************************************************************)
(* A target finds exactly one of the windows it means, if there is one,    *)
(* and none else: every window that fits has as many points as any other,  *)
(* so that the least handle decides.                                       *)
(***************************************************************************)
LEMMA ScoredIsMeant ==
  ASSUME DesktopTypeOK, NEW t \in Target
  PROVE  /\ FindTargetWindowScored(windows, t) \subseteq Meant(t)
         /\ Meant(t) # {} => Cardinality(FindTargetWindowScored(windows, t)) = 1
         /\ Meant(t) # {} => t.class # Empty
<1> DEFINE Points(h) == ScoreTargetCandidate(windows[h], t)
           Fit == {h \in DOMAIN windows :
                     IsWindowCandidateAllowed(windows[h], {"hidden"}) /\ Points(h) >= 0}
           sum == 100 + Score(t.exe, 20) + Score(t.path, 40)
<1>1. sum \in Nat  BY DEF Score
<1>2. ASSUME NEW h \in DOMAIN windows
      PROVE  /\ h \in Meant(t) <=> h \in Fit
             /\ h \in Fit => Points(h) = sum
  <2>1. Points(h) = IF \/ t.class # windows[h].class
                       \/ t.exe \notin {Empty, ProcessName(windows[h])}
                       \/ t.path \notin {Empty, windows[h].path}
                      THEN NoMatch ELSE sum
    BY DEF ScoreTargetCandidate
  <2>2. IsWindowCandidateAllowed(windows[h], {"hidden"}) <=> "hidden" \notin windows[h].traits
    BY DEF IsWindowCandidateAllowed
  <2> HIDE DEF Points, sum
  <2>3. Points(h) >= 0 <=> ~ (\/ t.class # windows[h].class
                              \/ t.exe \notin {Empty, ProcessName(windows[h])}
                              \/ t.path \notin {Empty, windows[h].path})
    BY <1>1, <2>1 DEF NoMatch
  <2> QED BY <1>1, <2>1, <2>2, <2>3 DEF Meant, NoMatch
<1>3. FindTargetWindowScored(windows, t) =
        {h \in Fit : \A k \in Fit \ {h} :
           Points(h) > Points(k) \/ (Points(h) = Points(k) /\ CandidatePrecedes(h, k))}
  BY DEF FindTargetWindowScored, ResolveTarget
<1>4. Fit = Meant(t)
  <2> HIDE DEF Fit
  <2>1. Fit \subseteq DOMAIN windows  BY DEF Fit
  <2>2. Meant(t) \subseteq DOMAIN windows  BY DEF Meant
  <2> QED BY <1>2, <2>1, <2>2
<1> HIDE DEF Fit, Points, sum
<1>5. FindTargetWindowScored(windows, t) = {h \in Fit : \A k \in Fit \ {h} : h < k}
  <2>1. Fit \subseteq DOMAIN windows  BY DEF Fit
  <2>2. \A h, k \in Fit : Points(h) = Points(k) /\ ~ (Points(h) > Points(k))  BY <1>1, <1>2, <2>1
  <2> QED BY <1>3, <2>2 DEF CandidatePrecedes
<1>6. Fit \subseteq Nat
  BY TargetsAssumption, <1>4 DEF Meant, DesktopTypeOK
<1>7. ASSUME Meant(t) # {} PROVE Cardinality(FindTargetWindowScored(windows, t)) = 1
  <2>1. PICK m \in Fit : \A y \in Fit : m <= y  BY <1>4, <1>6, <1>7, Least
  <2>2. \A h \in Fit : (\A k \in Fit \ {h} : h < k) <=> h = m  BY <1>6, <2>1
  <2>3. FindTargetWindowScored(windows, t) = {m}  BY <1>5, <2>1, <2>2
  <2> QED BY <2>3, FS_Singleton
<1>8. Meant(t) # {} => t.class # Empty
  BY TargetsAssumption, DesktopAssumption DEF Meant, DesktopTypeOK, Windows
<1> QED BY <1>4, <1>5, <1>7, <1>8

LEMMA TargetIsReached == DesktopTypeOK => KeysReachTheTarget
<1> SUFFICES ASSUME DesktopTypeOK, NEW p \in DOMAIN g_profiles
             PROVE  LET t == g_profiles[p]
                        found == FindProfileTarget(windows, t)
                    IN  /\ Meant(t) # {} => Cardinality(found) = 1
                        /\ Meant(t) # {} \/ t.exe # Empty => found \subseteq Meant(t)
                        /\ Meant(t) # {} => FindNamedApp(windows, Empty, t) = found
  BY DEF KeysReachTheTarget
<1> DEFINE t == g_profiles[p]
           scored == FindTargetWindowScored(windows, t)
<1>1. t \in Target  BY DEF DesktopTypeOK
<1>2. /\ scored \subseteq Meant(t) /\ (Meant(t) # {} => t.class # Empty)
      /\ Meant(t) # {} => Cardinality(scored) = 1
  BY <1>1, ScoredIsMeant
<1>3. Meant(t) # {} => scored # {}
  BY <1>2, FS_EmptySet
<1>4. \A h \in DOMAIN windows : windows[h].class # Empty
  BY TargetsAssumption, DesktopAssumption DEF DesktopTypeOK, Windows
<1>5. FindWindowByClass(windows, Empty) = {}
  BY <1>4 DEF FindWindowByClass
<1>6. FindTargetWindowScored(windows, [class |-> Empty, exe |-> Empty, path |-> Empty]) = {}
  <2>1. \A h \in DOMAIN windows :
          ~ ScoreTargetCandidate(windows[h], [class |-> Empty, exe |-> Empty, path |-> Empty]) >= 0
    BY <1>4 DEF ScoreTargetCandidate, NoMatch
  <2> QED BY <2>1 DEF FindTargetWindowScored, ResolveTarget
<1> HIDE DEF t, scored
<1>7. FindProfileTarget(windows, t) = IF scored = {} /\ t.exe = Empty /\ t.class # Empty
                                       THEN FindWindowByClass(windows, t.class) ELSE scored
  BY DEF FindProfileTarget, scored
<1>8. Meant(t) # {} => FindNamedApp(windows, Empty, t) = scored
  BY <1>2, <1>3, <1>5, <1>6 DEF FindNamedApp, scored
<1>9. Meant(t) # {} \/ t.exe # Empty => FindProfileTarget(windows, t) = scored
  BY <1>3, <1>7
<1> QED BY <1>2, <1>8, <1>9 DEF t

-----------------------------------------------------------------------------
(***************************************************************************)
(* The profiles are finitely many, and the menu that is open shows them in *)
(* their order, unless it knows of a change.                               *)
(***************************************************************************)
MenuInv ==
  /\ IsFiniteSet(DOMAIN g_profiles)
  /\ menu.open /\ ~ menu.changed => menu.items = InOrder(Names)

DesktopInv == DesktopTypeOK /\ MenuInv

MenuType == [open : BOOLEAN, items : Seq(Name), changed : BOOLEAN, clicked : Name \cup {None}]

(* The profiles in their order are a sequence of names. *)
LEMMA NamesInOrder ==
  ASSUME DesktopInv
  PROVE  /\ InOrder(Names) \in Seq(Name)
         /\ Len(InOrder(Names)) \in Nat /\ DOMAIN InOrder(Names) = 1..Len(InOrder(Names))
         /\ \A i \in DOMAIN InOrder(Names) : InOrder(Names)[i] \in Names
<1>1. Names \subseteq Name /\ Names \subseteq Nat
  BY DesktopAssumption DEF DesktopInv, DesktopTypeOK, Names
<1>2. IsFiniteSet(Names)
  BY FS_AddElement DEF DesktopInv, MenuInv, Names
<1>3. InOrder(Names) \in [1..Cardinality(Names) -> Names] /\ Cardinality(Names) \in Nat
  BY <1>1, <1>2, OrderIsSeq
<1> HIDE DEF InOrder
<1> DEFINE s == InOrder(Names)  n == Cardinality(Names)
<1> HIDE DEF s, n
<1>4. s \in [1..n -> Names] /\ n \in Nat /\ s = InOrder(Names)  BY <1>3 DEF s, n
<1>5. s \in [1..n -> Name]  BY <1>1, <1>4
<1>6. s \in Seq(Name) /\ Len(s) = n /\ DOMAIN s = 1..n  BY <1>4, <1>5
<1>7. \A i \in 1..n : s[i] \in Names  BY <1>4
<1> QED BY <1>4, <1>6, <1>7

(* The program in front, if it can be read, has a name. *)
LEMMA ForegroundIsNamed ==
  DesktopTypeOK => /\ ForegroundExe \in Exe \cup {Empty, OwnExe}
                   /\ foreground \notin DOMAIN windows => ForegroundExe \notin Exe
<1> SUFFICES ASSUME DesktopTypeOK
             PROVE  /\ ForegroundExe \in Exe \cup {Empty, OwnExe}
                    /\ foreground \notin DOMAIN windows => ForegroundExe \notin Exe
  OBVIOUS
<1>1. foreground \in DOMAIN windows \cup {None, Own}  BY DEF DesktopTypeOK
<1>2. \A h \in DOMAIN windows : ProcessName(windows[h]) \in Exe \cup {Empty} /\ h # None /\ h # Own
  BY TargetsAssumption, DesktopAssumption DEF DesktopTypeOK, Windows, ProcessName, None, Own
<1> QED BY <1>1, <1>2, TargetsAssumption, DesktopAssumption DEF ForegroundExe, None, Own

(* What the timer takes names the program in front. *)
LEMMA FirstIsNamed ==
  ASSUME DesktopTypeOK, NEW S, S \subseteq Named(ForegroundExe), S # {}
  PROVE  /\ First(S) \in DOMAIN g_profiles
         /\ g_profiles[First(S)].exe \in PartsOf[ForegroundExe] /\ ForegroundExe \in Exe
<1>1. S \subseteq DOMAIN g_profiles /\ ForegroundExe \in Exe
      /\ \A p \in S : g_profiles[p].exe \in PartsOf[ForegroundExe]
  BY DEF Named
<1>2. S \subseteq Nat  BY <1>1, DesktopAssumption DEF DesktopTypeOK
<1>3. First(S) \in S  BY <1>2, Least DEF First
<1> QED BY <1>1, <1>3

(* An operation of the dashboard, whatever it makes of the profiles. *)
LEMMA ProjectionKeeps ==
  ASSUME DesktopInv, NEW profiles, ProjectDomainToRuntime(profiles), IsFiniteSet(DOMAIN profiles),
         DOMAIN profiles \subseteq Name \ {Basic}, \A q \in DOMAIN profiles : profiles[q] \in Target
  PROVE  DesktopInv'
<1> USE DEF DesktopInv, ProjectDomainToRuntime
<1> DEFINE moved == menu.changed \/ (menu.open /\ DOMAIN profiles # DOMAIN g_profiles)
<1>1. menu \in MenuType  BY DEF DesktopTypeOK, MenuType
<1>2. menu' = [menu EXCEPT !.changed = moved]  OBVIOUS
<1>3. /\ menu' \in MenuType /\ menu'.open = menu.open /\ menu'.items = menu.items
      /\ menu'.changed <=> moved
  <2> HIDE DEF moved, ProjectDomainToRuntime, DesktopInv
  <2>1. moved \in BOOLEAN  BY <1>1 DEF moved, MenuType
  <2> QED BY <1>1, <1>2, <2>1 DEF MenuType
<1>4. DesktopTypeOK'
  <2> HIDE DEF moved
  <2> QED BY <1>3, DesktopAssumption DEF DesktopTypeOK, MenuType, Names
<1>5. ASSUME menu'.open, ~ menu'.changed PROVE menu'.items = InOrder(Names)'
  <2>1. menu.open /\ ~ menu.changed /\ DOMAIN profiles = DOMAIN g_profiles
    <3> HIDE DEF moved, ProjectDomainToRuntime, DesktopInv
    <3> QED BY <1>3, <1>5 DEF moved
  <2>2. Names' = Names  BY <2>1 DEF Names
  <2>3. menu.items = InOrder(Names)  BY <2>1 DEF MenuInv
  <2>4. InOrder(Names)' = InOrder(Names)  BY <2>2 DEF InOrder
  <2> QED BY <1>3, <2>3, <2>4
<1> QED BY <1>4, <1>5 DEF MenuInv

LEMMA DesktopStep == DesktopInv /\ [DesktopNext]_desktopVars => DesktopInv'
<1> SUFFICES ASSUME DesktopInv, [DesktopNext]_desktopVars PROVE DesktopInv'  OBVIOUS
<1>0. /\ DesktopTypeOK /\ MenuInv /\ IsFiniteSet(DOMAIN g_profiles)
  BY DEF DesktopInv, MenuInv
<1>1. ASSUME NEW h \in Handle, WindowOpens(h) PROVE DesktopInv'
  <2>1. PICK k \in Kind : windows' = [i \in DOMAIN windows \cup {h} |-> IF i = h THEN k ELSE windows[i]]
    BY <1>1 DEF WindowOpens
  <2>2. DesktopTypeOK'  BY <1>0, <1>1, <2>1 DEF WindowOpens, DesktopTypeOK, Names
  <2> QED BY <1>0, <1>1, <2>2 DEF WindowOpens, DesktopInv, MenuInv, Names, InOrder
<1>2. ASSUME NEW h \in Handle, WindowCloses(h) PROVE DesktopInv'
  <2>1. DesktopTypeOK'  BY <1>0, <1>2 DEF WindowCloses, DesktopTypeOK, Names
  <2> QED BY <1>0, <1>2, <2>1 DEF WindowCloses, DesktopInv, MenuInv, Names, InOrder
<1>3. ASSUME NEW h \in Handle, Focus(h) PROVE DesktopInv'
  BY <1>0, <1>3 DEF Focus, DesktopInv, DesktopTypeOK, MenuInv, Names, InOrder
<1>4. ASSUME NEW p \in Name \ {Basic}, SetProfile(p) PROVE DesktopInv'
  <2>1. PICK t \in Target : ProjectDomainToRuntime([q \in DOMAIN g_profiles \cup {p} |->
                              IF q = p THEN t ELSE g_profiles[q]])
    BY <1>4 DEF SetProfile
  <2>2. IsFiniteSet(DOMAIN g_profiles \cup {p})  BY <1>0, FS_AddElement
  <2>3. DOMAIN g_profiles \subseteq Name \ {Basic} /\ \A q \in DOMAIN g_profiles : g_profiles[q] \in Target
    BY <1>0 DEF DesktopTypeOK
  <2> QED BY <2>1, <2>2, <2>3, ProjectionKeeps
<1>5. ASSUME NEW p \in Name \ {Basic}, DeleteProfile(p) PROVE DesktopInv'
  <2>1. IsFiniteSet(DOMAIN g_profiles \ {p})  BY <1>0, FS_Subset
  <2>2. DOMAIN g_profiles \subseteq Name \ {Basic} /\ \A q \in DOMAIN g_profiles : g_profiles[q] \in Target
    BY <1>0 DEF DesktopTypeOK
  <2> QED BY <1>5, <2>1, <2>2, ProjectionKeeps DEF DeleteProfile
<1>6. ASSUME NEW p \in Name, SwitchProfileByName(p) PROVE DesktopInv'
  BY <1>0, <1>6 DEF SwitchProfileByName, DesktopInv, DesktopTypeOK, MenuInv, Names, InOrder
<1>7. CASE AutoSwitchOnForegroundChange
  <2>1. /\ foreground \notin {None, g_lastAutoSwitchHwnd} /\ g_lastAutoSwitchHwnd' = foreground
        /\ UNCHANGED <<windows, foreground, g_profiles, menu>>
    BY <1>7 DEF AutoSwitchOnForegroundChange
  <2>2. g_lastAutoSwitchCheck' \in Exe \cup {Empty, OwnExe} /\ g_activeProfile' \in Names
    <3>0. DesktopTypeOK  BY <1>0
    <3>1. ForegroundExe \in Exe \cup {Empty, OwnExe}  BY <3>0, ForegroundIsNamed
    <3>2. g_activeProfile \in Names /\ g_lastAutoSwitchCheck \in Exe \cup {Empty, OwnExe}
      BY <1>0 DEF DesktopTypeOK
    <3> DEFINE others == Named(ForegroundExe) \ {g_activeProfile}
    <3>3. others # {} => First(others) \in Names  BY <1>0, FirstIsNamed DEF Names
    <3>4. \/ UNCHANGED <<g_lastAutoSwitchCheck, g_activeProfile>>
          \/ /\ g_lastAutoSwitchCheck' = ForegroundExe
             /\ g_activeProfile' = IF others = {} THEN g_activeProfile ELSE First(others)
      BY <1>7 DEF AutoSwitchOnForegroundChange
    <3> HIDE DEF others
    <3> QED BY <3>1, <3>2, <3>3, <3>4
  <2>3. DesktopTypeOK'  BY <1>0, <2>1, <2>2, DesktopAssumption DEF DesktopTypeOK, Names
  <2> QED BY <1>0, <2>1, <2>3 DEF DesktopInv, MenuInv, Names, InOrder
<1>8. CASE BuildTrayMenu
  <2>1. InOrder(Names) \in Seq(Name)  BY NamesInOrder
  <2>2. /\ menu' = [open |-> TRUE, items |-> InOrder(Names), changed |-> FALSE, clicked |-> None]
        /\ foreground' = Own
        /\ UNCHANGED <<windows, g_lastAutoSwitchHwnd, g_lastAutoSwitchCheck, g_profiles, g_activeProfile>>
    BY <1>8 DEF BuildTrayMenu
  <2>3. Names' = Names /\ InOrder(Names)' = InOrder(Names)  BY <2>2 DEF Names, InOrder
  <2> HIDE DEF InOrder
  <2>4. DesktopTypeOK'  BY <1>0, <2>1, <2>2, <2>3 DEF DesktopTypeOK
  <2> QED BY <1>0, <2>2, <2>3, <2>4 DEF DesktopInv, MenuInv
<1>9. ASSUME NEW label \in Name \cup {None}, MenuCloses(label), g_activeProfile' \in Names PROVE DesktopInv'
  <2>1. menu' = [open |-> FALSE, items |-> <<>>, changed |-> FALSE, clicked |-> label]
    BY <1>9 DEF MenuCloses, Closed
  <2>2. foreground' \in DOMAIN windows \cup {None, Own}
        /\ UNCHANGED <<windows, g_lastAutoSwitchHwnd, g_lastAutoSwitchCheck, g_profiles>>
    BY <1>9 DEF MenuCloses
  <2>3. <<>> \in Seq(Name)  OBVIOUS
  <2>4. DesktopTypeOK'  BY <1>0, <1>9, <2>1, <2>2, <2>3 DEF DesktopTypeOK, Names
  <2> QED BY <1>0, <2>1, <2>2, <2>4 DEF DesktopInv, MenuInv
<1>10. CASE DismissMenu
  <2>1. g_activeProfile' \in Names  BY <1>0, <1>10 DEF DismissMenu, DesktopTypeOK
  <2> QED BY <1>9, <1>10, <2>1 DEF DismissMenu
<1>11. ASSUME NEW i \in 1..Cardinality(Name), PickProfile(i) PROVE DesktopInv'
  <2>1. i \in DOMAIN menu.items /\ MenuCloses(menu.items[i])  BY <1>11 DEF PickProfile
  <2>2. menu.items[i] \in Name  BY <1>0, <2>1 DEF DesktopTypeOK
  <2>3. g_activeProfile' \in Names
    <3>1. \/ i <= Len(InOrder(Names)) /\ g_activeProfile' = InOrder(Names)[i]
          \/ g_activeProfile' \in Names
      BY <1>11 DEF PickProfile
    <3> HIDE DEF InOrder
    <3>2. i \in Nat /\ i >= 1  BY <1>0, <2>1 DEF DesktopTypeOK
    <3> QED BY <3>1, <3>2, NamesInOrder
  <2> QED BY <1>9, <2>1, <2>2, <2>3
<1>12. CASE UNCHANGED desktopVars
  BY <1>0, <1>12 DEF desktopVars, DesktopInv, DesktopTypeOK, MenuInv, Names, InOrder
<1> QED BY <1>1, <1>2, <1>3, <1>4, <1>5, <1>6, <1>7, <1>8, <1>10, <1>11, <1>12 DEF DesktopNext

LEMMA DesktopInvariant == DesktopSpec => []DesktopInv
<1>1. DesktopInit => DesktopInv
  <2> SUFFICES ASSUME DesktopInit PROVE DesktopInv  OBVIOUS
  <2>1. DOMAIN g_profiles = {} /\ DOMAIN windows = {}  BY DEF DesktopInit
  <2>2. menu = [open |-> FALSE, items |-> <<>>, changed |-> FALSE, clicked |-> None]
    BY DEF DesktopInit, Closed
  <2>3. DesktopTypeOK  BY <2>1, <2>2 DEF DesktopInit, DesktopTypeOK, Names
  <2> QED BY <2>1, <2>2, <2>3, FS_EmptySet DEF DesktopInv, MenuInv
<1> QED BY <1>1, DesktopStep, PTL DEF DesktopSpec

(***************************************************************************)
(* The keys of a profile reach the window it means, whatever windows open  *)
(* and close, and no other program.                                        *)
(***************************************************************************)
THEOREM KeysAlwaysReachTheTarget == DesktopSpec => []KeysReachTheTarget
<1>1. DesktopInv => KeysReachTheTarget  BY TargetIsReached DEF DesktopInv
<1> QED BY <1>1, DesktopInvariant, PTL

(***************************************************************************)
(* No profile becomes active that nobody meant, for any number of profiles *)
(* and windows, and whatever happens under the menu.                       *)
(***************************************************************************)
THEOREM SwitchesStayMeant == DesktopSpec => SwitchesAreMeant
<1> DEFINE ByTimer ==
             (g_lastAutoSwitchHwnd' # g_lastAutoSwitchHwnd /\ g_activeProfile' # g_activeProfile)
               => \E h \in DOMAIN windows :
                    /\ foreground = h
                    /\ g_activeProfile' \in DOMAIN g_profiles
                    /\ g_profiles[g_activeProfile'].exe \in PartsOf[ProcessName(windows[h])]
           ByMenu ==
             (menu.open /\ ~ menu'.open /\ menu'.clicked # None /\ ~ menu.changed)
               => g_activeProfile' = menu'.clicked
<1>1. ASSUME DesktopInv, [DesktopNext]_desktopVars PROVE [ByTimer /\ ByMenu]_desktopVars
  <2>0. DesktopTypeOK /\ MenuInv /\ menu \in MenuType  BY <1>1 DEF DesktopInv, DesktopTypeOK, MenuType
  <2>1. CASE AutoSwitchOnForegroundChange
    <3>1. UNCHANGED <<windows, foreground, g_profiles, menu>>
      BY <2>1 DEF AutoSwitchOnForegroundChange
    <3>2. ASSUME g_activeProfile' # g_activeProfile
          PROVE  /\ foreground \in DOMAIN windows
                 /\ g_activeProfile' \in DOMAIN g_profiles
                 /\ g_profiles[g_activeProfile'].exe \in PartsOf[ProcessName(windows[foreground])]
      <4> DEFINE others == Named(ForegroundExe) \ {g_activeProfile}
      <4>1. others # {} /\ g_activeProfile' = First(others)
        BY <2>1, <3>2 DEF AutoSwitchOnForegroundChange
      <4>2. /\ First(others) \in DOMAIN g_profiles /\ ForegroundExe \in Exe
            /\ g_profiles[First(others)].exe \in PartsOf[ForegroundExe]
        BY <2>0, <4>1, FirstIsNamed
      <4>3. foreground \in DOMAIN windows  BY <2>0, <4>2, ForegroundIsNamed
      <4>4. foreground # None /\ foreground # Own
        BY <2>0, <4>3, TargetsAssumption DEF DesktopTypeOK, None, Own
      <4>5. ForegroundExe = ProcessName(windows[foreground])  BY <4>4 DEF ForegroundExe
      <4> QED BY <4>1, <4>2, <4>3, <4>5
    <3>3. ByMenu  BY <3>1
    <3> QED BY <3>2, <3>3
  <2>2. ASSUME NEW i \in 1..Cardinality(Name), PickProfile(i) PROVE ByTimer /\ ByMenu
    <3>1. /\ i \in DOMAIN menu.items /\ MenuCloses(menu.items[i])  BY <2>2 DEF PickProfile
    <3>2. UNCHANGED g_lastAutoSwitchHwnd /\ menu'.clicked = menu.items[i]
      BY <3>1 DEF MenuCloses, Closed
    <3>3. ASSUME menu.open, ~ menu.changed PROVE g_activeProfile' = menu.items[i]
      <4>1. menu.items = InOrder(Names)  BY <2>0, <3>3 DEF MenuInv
      <4>2. i <= Len(InOrder(Names))
        <5> HIDE DEF InOrder
        <5> QED BY <1>1, <3>1, <4>1, NamesInOrder
      <4>3. Len(InOrder(Names)) \in Nat /\ i \in Nat
        <5> HIDE DEF InOrder
        <5> QED BY <1>1, <3>1, <4>1, NamesInOrder
      <4>4. \/ i <= Len(InOrder(Names)) /\ g_activeProfile' = InOrder(Names)[i]
            \/ i > Len(InOrder(Names))
        BY <2>2 DEF PickProfile
      <4> HIDE DEF InOrder
      <4> QED BY <4>1, <4>2, <4>3, <4>4
    <3> QED BY <3>2, <3>3
  <2>3. CASE DismissMenu
    BY <2>3 DEF DismissMenu, MenuCloses, Closed
  <2>4. CASE BuildTrayMenu
    BY <2>4 DEF BuildTrayMenu
  <2>5. ASSUME NEW h \in Handle, WindowOpens(h) \/ WindowCloses(h) \/ Focus(h) PROVE ByTimer /\ ByMenu
    BY <2>5 DEF WindowOpens, WindowCloses, Focus
  <2>6. ASSUME NEW p \in Name, SwitchProfileByName(p) PROVE ByTimer /\ ByMenu
    BY <2>6 DEF SwitchProfileByName
  <2>7. ASSUME NEW profiles, ProjectDomainToRuntime(profiles) PROVE ByTimer /\ ByMenu
    <3>1. menu'.open = menu.open /\ UNCHANGED g_lastAutoSwitchHwnd
      BY <2>0, <2>7 DEF ProjectDomainToRuntime, MenuType
    <3> QED BY <3>1
  <2>8. ASSUME NEW p \in Name \ {Basic}, SetProfile(p) \/ DeleteProfile(p) PROVE ByTimer /\ ByMenu
    BY <2>7, <2>8 DEF SetProfile, DeleteProfile
  <2> HIDE DEF ByTimer, ByMenu
  <2> QED BY <1>1, <2>1, <2>2, <2>3, <2>4, <2>5, <2>6, <2>8 DEF DesktopNext
<1> QED BY <1>1, DesktopInvariant, PTL DEF DesktopSpec, SwitchesAreMeant
-----------------------------------------------------------------------------
Mapping == [usageId : Usage, modMask : Mask, action : Action]
Full(mapping) == mapping.modMask = Wide(Groups(mapping.modMask))
Unique(list) == \A i, j \in DOMAIN list : Trigger(list[i]) = Trigger(list[j]) => i = j

(***************************************************************************)
(* A list of mappings with both sides of their groups, and of one for each *)
(* key and layer.                                                          *)
(***************************************************************************)
Listed(list) ==
  /\ list \in Seq(Mapping)
  /\ \A i \in DOMAIN list : Full(list[i])
  /\ Unique(list)

KeyMapInv == Listed(keys) /\ Listed(file) /\ mappings = keys

(* The modifiers of a layer have both sides. *)
LEMMA LayerIsFull ==
  \A layer \in Layer : Wide(layer) \in Mask /\ Wide(Groups(Wide(layer))) = Wide(layer)
<1> SUFFICES ASSUME NEW layer \in Layer
             PROVE  Wide(layer) \in Mask /\ Groups(Wide(layer)) = layer
  OBVIOUS
<1>1. layer \subseteq Group  BY KeyMapAssumption
<1>2. Wide(layer) \subseteq Group \X Side  BY <1>1 DEF Wide
<1>3. \A g \in layer : <<g, "left">> \in Wide(layer) /\ <<g, "left">>[1] = g  BY DEF Wide, Side
<1>4. \A m \in Wide(layer) : m[1] \in layer  BY DEF Wide
<1> QED BY <1>2, <1>3, <1>4 DEF Mask, Groups

(* Widening what is wide changes nothing. *)
LEMMA WideStays == ASSUME NEW list, Listed(list) PROVE Widened(list) = list
<1>1. list \in Seq(Mapping) /\ \A i \in DOMAIN list : list[i] \in Mapping /\ Full(list[i])
  BY DEF Listed
<1>2. ASSUME NEW m \in Mapping, Full(m) PROVE [m EXCEPT !.modMask = Wide(Groups(@))] = m
  BY <1>2 DEF Mapping, Full
<1>3. Widened(list) = [i \in DOMAIN list |-> list[i]]
  BY <1>1, <1>2 DEF Widened
<1> QED BY <1>1, <1>3

(* A list whose places are exchanged. *)
LEMMA ExchangedIsListed ==
  ASSUME NEW list, Listed(list), NEW n \in Nat, NEW p \in [1..n -> DOMAIN list],
         \A i, j \in 1..n : p[i] = p[j] => i = j
  PROVE  Listed([i \in 1..n |-> list[p[i]]])
<1> DEFINE s == [i \in 1..n |-> list[p[i]]]
<1>1. \A i \in 1..n : s[i] = list[p[i]] /\ p[i] \in DOMAIN list  OBVIOUS
<1>2. \A i \in DOMAIN list : list[i] \in Mapping /\ Full(list[i])  BY DEF Listed
<1>3. s \in Seq(Mapping) /\ DOMAIN s = 1..n  BY <1>1, <1>2
<1> HIDE DEF s
<1>4. \A i \in DOMAIN s : Full(s[i])  BY <1>1, <1>2, <1>3
<1>5. Unique(s)
  <2> SUFFICES ASSUME NEW i \in 1..n, NEW j \in 1..n, Trigger(s[i]) = Trigger(s[j]) PROVE i = j
    BY <1>3 DEF Unique
  <2>1. Trigger(list[p[i]]) = Trigger(list[p[j]])  BY <1>1
  <2>2. p[i] = p[j]  BY <1>1, <2>1 DEF Listed, Unique
  <2> QED BY <2>2
<1> QED BY <1>3, <1>4, <1>5 DEF Listed, s

LEMMA SortedIsListed == ASSUME NEW list, Listed(list), NEW s \in Sorted(list) PROVE Listed(s)
<1>1. PICK n \in Nat : DOMAIN list = 1..n  BY DEF Listed
<1>2. PICK p \in Bijection(DOMAIN list, DOMAIN list) : s = [i \in DOMAIN list |-> list[p[i]]]
  BY DEF Sorted
<1>3. p \in [DOMAIN list -> DOMAIN list] /\ \A i, j \in DOMAIN list : p[i] = p[j] => i = j
  BY DEF Bijection, Injection, IsInjective
<1>4. p \in [1..n -> DOMAIN list] /\ \A i, j \in 1..n : p[i] = p[j] => i = j
  BY <1>1, <1>3
<1>5. Listed([i \in 1..n |-> list[p[i]]])  BY <1>4, ExchangedIsListed
<1> QED BY <1>1, <1>2, <1>5

LEMMA WithoutIsListed ==
  ASSUME NEW list, Listed(list), NEW trigger
  PROVE  /\ Listed(Without(list, trigger))
         /\ \A i \in DOMAIN Without(list, trigger) : Trigger(Without(list, trigger)[i]) # trigger
<1> DEFINE others == {i \in DOMAIN list : Trigger(list[i]) # trigger}
           n == Cardinality(others)
           IsOrder(s) == \A i, j \in 1..n : i < j => s[i] < s[j]
           at == CHOOSE s \in [1..n -> others] : IsOrder(s)
<1>1. DOMAIN list = 1..Len(list) /\ Len(list) \in Nat  BY DEF Listed
<1>2. IsFiniteSet(others) /\ others \subseteq Nat
  <2>1. others \in SUBSET (1..Len(list))  BY <1>1
  <2>2. IsFiniteSet(1..Len(list))  BY <1>1, FS_Interval
  <2> HIDE DEF others
  <2>3. IsFiniteSet(others)  BY <2>1, <2>2, FS_Subset
  <2>4. others \subseteq Nat  BY <2>1
  <2> QED BY <2>3, <2>4
<1>3. n \in Nat  BY <1>2, FS_CardinalityType
<1>4. at \in [1..n -> others] /\ IsOrder(at)
  <2>1. Enumerable(others)  BY <1>2, FiniteIsEnumerable
  <2> HIDE DEF others
  <2> QED BY <2>1 DEF Enumerable, Increasing
<1>5. Without(list, trigger) = [i \in 1..n |-> list[at[i]]]
  BY DEF Without
<1> HIDE DEF others, n, at
<1>6. others \subseteq DOMAIN list /\ \A i \in others : Trigger(list[i]) # trigger  BY DEF others
<1>7. ASSUME NEW i \in 1..n, NEW j \in 1..n, at[i] = at[j] PROVE i = j
  <2>1. at[i] \in Nat /\ at[j] \in Nat  BY <1>2, <1>4
  <2> QED BY <1>3, <1>4, <1>7, <2>1
<1>8. at \in [1..n -> DOMAIN list]  BY <1>4, <1>6
<1>9. Listed([i \in 1..n |-> list[at[i]]])  BY <1>3, <1>7, <1>8, ExchangedIsListed
<1> QED BY <1>4, <1>5, <1>6, <1>9

LEMMA AppendIsListed ==
  ASSUME NEW list, Listed(list), NEW m \in Mapping, Full(m),
         \A i \in DOMAIN list : Trigger(list[i]) # Trigger(m)
  PROVE  Listed(Append(list, m))
<1> DEFINE s == Append(list, m)  n == Len(list)
<1>1. list \in Seq(Mapping) /\ n \in Nat /\ DOMAIN list = 1..n  BY DEF Listed
<1>2. s \in Seq(Mapping) /\ DOMAIN s = 1..(n + 1)  BY <1>1
<1>3. s[n + 1] = m /\ \A i \in 1..n : s[i] = list[i]  BY <1>1
<1> HIDE DEF s, n
<1>4. \A i \in 1..(n + 1) : i \in 1..n \/ i = n + 1  BY <1>1
<1>5. \A i \in DOMAIN s : Full(s[i])  BY <1>1, <1>2, <1>3, <1>4 DEF Listed
<1>6. \A i, j \in 1..n : Trigger(list[i]) = Trigger(list[j]) => i = j  BY <1>1 DEF Listed, Unique
<1>7. ASSUME NEW i \in 1..(n + 1), NEW j \in 1..(n + 1), Trigger(s[i]) = Trigger(s[j]) PROVE i = j
  BY <1>1, <1>3, <1>4, <1>6, <1>7
<1> QED BY <1>2, <1>5, <1>7 DEF Listed, Unique, s

(* A list of which one mapping gets another action. *)
LEMMA UpdatedIsListed ==
  ASSUME NEW list, Listed(list), NEW k \in DOMAIN list, NEW action \in Action
  PROVE  Listed([list EXCEPT ![k].action = action])
<1> DEFINE m == [list[k] EXCEPT !.action = action]
           s == [list EXCEPT ![k] = m]
<1>1. list \in Seq(Mapping) /\ list[k] \in Mapping /\ Full(list[k])  BY DEF Listed
<1>2. m \in Mapping /\ m.modMask = list[k].modMask /\ m.usageId = list[k].usageId
  BY <1>1 DEF Mapping
<1> HIDE DEF m
<1>3. Full(m) /\ Trigger(m) = Trigger(list[k])  BY <1>1, <1>2 DEF Full, Trigger
<1>4. s \in Seq(Mapping) /\ DOMAIN s = DOMAIN list
      /\ \A i \in DOMAIN list : s[i] = IF i = k THEN m ELSE list[i]
  BY <1>1, <1>2
<1> HIDE DEF s
<1>5. \A i \in DOMAIN list : Trigger(s[i]) = Trigger(list[i]) /\ Full(s[i])
  BY <1>3, <1>4 DEF Listed
<1>6. Listed(s)  BY <1>4, <1>5 DEF Listed, Unique
<1> QED BY <1>6 DEF s, m

(* A list of which two mappings change places. *)
LEMMA SwappedIsListed ==
  ASSUME NEW list, Listed(list), NEW k \in DOMAIN list, NEW l \in DOMAIN list
  PROVE  Listed([list EXCEPT ![k] = list[l], ![l] = list[k]])
<1> DEFINE p == [i \in DOMAIN list |-> IF i = l THEN k ELSE IF i = k THEN l ELSE i]
<1>1. list \in Seq(Mapping)  BY DEF Listed
<1>2. p \in [DOMAIN list -> DOMAIN list] /\ \A i, j \in DOMAIN list : p[i] = p[j] => i = j
  OBVIOUS
<1>3. Listed([i \in DOMAIN list |-> list[p[i]]])
  <2> HIDE DEF p
  <2>1. PICK n \in Nat : DOMAIN list = 1..n  BY <1>1
  <2>2. p \in [1..n -> DOMAIN list] /\ \A i, j \in 1..n : p[i] = p[j] => i = j
    BY <1>2, <2>1
  <2>3. Listed([i \in 1..n |-> list[p[i]]])  BY <2>2, ExchangedIsListed
  <2> QED BY <2>1, <2>3
<1>4. [list EXCEPT ![k] = list[l], ![l] = list[k]] = [i \in DOMAIN list |-> list[p[i]]]
  <2>1. DOMAIN [list EXCEPT ![k] = list[l], ![l] = list[k]] = DOMAIN list  OBVIOUS
  <2>2. \A i \in DOMAIN list :
          [list EXCEPT ![k] = list[l], ![l] = list[k]][i] = list[p[i]]
    OBVIOUS
  <2> QED BY <1>1, <2>1, <2>2
<1> QED BY <1>3, <1>4

(* The operation saves what it made of the list. *)
LEMMA PersistKeeps == ASSUME KeyMapInv, Listed(keys'), Persist PROVE KeyMapInv'
<1>1. Widened(keys') = keys'  BY WideStays
<1>2. mappings' = keys' /\ (file' \in Sorted(mappings') \/ file' = file)
  BY <1>1 DEF Persist
<1>3. Listed(file')
  <2>1. CASE file' \in Sorted(mappings')
    BY <1>2, <2>1, SortedIsListed
  <2>2. CASE file' = file
    BY <2>2 DEF KeyMapInv
  <2> QED BY <1>2, <2>1, <2>2
<1> QED BY <1>2, <1>3 DEF KeyMapInv

(* What the dashboard sends, as a mapping of the list. *)
LEMMA EntryIsMapping ==
  ASSUME NEW usage \in Usage, NEW layer \in Layer, NEW action \in Action
  PROVE  /\ Entry(usage, Wide(layer), action) \in Mapping
         /\ Full(Entry(usage, Wide(layer), action))
         /\ Trigger(Entry(usage, Wide(layer), action)) = <<usage, Wide(layer)>>
<1>1. Wide(layer) \in Mask /\ Wide(Groups(Wide(layer))) = Wide(layer)  BY LayerIsFull
<1> QED BY <1>1 DEF Entry, Mapping, Full, Trigger

(* A search that finds a mapping names a place of the list. *)
LEMMA FoundIsAPlace ==
  ASSUME NEW n \in Nat, NEW S \in SUBSET (1..n), S # {}
  PROVE  Min(S) \in S /\ \A j \in S : Min(S) <= j
<1>1. S \subseteq Nat  OBVIOUS
<1>2. \E x \in S : \A y \in S : x <= y  BY <1>1, Least
<1> QED BY <1>2 DEF Min

LEMMA KeyMapStep == KeyMapInv /\ [KeyMapNext]_keyVars => KeyMapInv'
<1> SUFFICES ASSUME KeyMapInv, [KeyMapNext]_keyVars PROVE KeyMapInv'  OBVIOUS
<1>0. Listed(keys) /\ Listed(file) /\ mappings = keys  BY DEF KeyMapInv
<1>1. PICK n \in Nat : DOMAIN keys = 1..n /\ Len(keys) = n  BY <1>0 DEF Listed
<1>2. ASSUME NEW usage \in Usage, NEW layer \in Layer, NEW action \in Action,
             AddKey(usage, Wide(layer), action)
      PROVE  KeyMapInv'
  <2> DEFINE rest == Without(keys, <<usage, Wide(layer)>>)
             m == Entry(usage, Wide(layer), action)
  <2>1. Listed(rest) /\ \A i \in DOMAIN rest : Trigger(rest[i]) # <<usage, Wide(layer)>>
    BY <1>0, WithoutIsListed
  <2>2. m \in Mapping /\ Full(m) /\ Trigger(m) = <<usage, Wide(layer)>>  BY EntryIsMapping
  <2>3. keys' = Append(rest, m) /\ Persist  BY <1>2 DEF AddKey
  <2> HIDE DEF rest, m
  <2>4. Listed(Append(rest, m))  BY <2>1, <2>2, AppendIsListed
  <2> QED BY <2>3, <2>4, PersistKeeps
<1>3. ASSUME NEW usage \in Usage, NEW layer \in Layer, RemoveKey(usage, Wide(layer))
      PROVE  KeyMapInv'
  BY <1>0, <1>3, WithoutIsListed, PersistKeeps DEF RemoveKey
<1>4. ASSUME NEW usage \in Usage, NEW layer \in Layer, NEW action \in Action,
             UpdateKey(usage, Wide(layer), action)
      PROVE  KeyMapInv'
  <2> DEFINE S == {i \in 1..n : Trigger(keys[i]) = <<usage, Wide(layer)>>}
  <2>1. /\ S # {} /\ keys' = [keys EXCEPT ![Min(S)].action = action] /\ Persist
    BY <1>1, <1>4 DEF UpdateKey, SelectInSeq
  <2>2. Min(S) \in DOMAIN keys  BY <1>1, <2>1, FoundIsAPlace
  <2> HIDE DEF S
  <2> QED BY <1>0, <2>1, <2>2, UpdatedIsListed, PersistKeeps
<1>5. ASSUME NEW usage \in Usage, NEW layer \in Layer, NEW step \in {-1, 1},
             MoveKey(usage, Wide(layer), step)
      PROVE  KeyMapInv'
  <2> DEFINE S == {i \in 1..n : Trigger(keys[i]) = <<usage, Wide(layer)>>}
             k == Min(S)
             l == k + step
  <2>1. /\ S # {} /\ l \in DOMAIN keys /\ Persist
        /\ keys' = [keys EXCEPT ![k] = keys[l], ![l] = keys[k]]
    BY <1>1, <1>5 DEF MoveKey, SelectInSeq
  <2>2. k \in DOMAIN keys  BY <1>1, <2>1, FoundIsAPlace
  <2> HIDE DEF k, l
  <2>3. Listed([keys EXCEPT ![k] = keys[l], ![l] = keys[k]])
    BY <1>0, <2>1, <2>2, SwappedIsListed
  <2> QED BY <2>1, <2>3, PersistKeeps
<1>6. ASSUME NEW usage \in Usage, NEW newUsage \in Usage, DuplicateKey(usage, newUsage)
      PROVE  KeyMapInv'
  <2> DEFINE S == {i \in 1..n : keys[i].usageId = usage}
             copy == [keys[Min(S)] EXCEPT !.usageId = newUsage]
  <2>1. /\ S # {} /\ \A j \in DOMAIN keys : Trigger(keys[j]) # Trigger(copy)
        /\ keys' = Append(keys, copy) /\ Persist
    BY <1>1, <1>6 DEF DuplicateKey, SelectInSeq
  <2>2. Min(S) \in DOMAIN keys  BY <1>1, <2>1, FoundIsAPlace
  <2>3. keys[Min(S)] \in Mapping /\ Full(keys[Min(S)])  BY <1>0, <2>2 DEF Listed
  <2>4. copy \in Mapping /\ Full(copy)  BY <2>3 DEF Mapping, Full
  <2> HIDE DEF copy
  <2>5. Listed(Append(keys, copy))  BY <1>0, <2>1, <2>4, AppendIsListed
  <2> QED BY <2>1, <2>5, PersistKeeps
<1>7. CASE Project
  <2>1. keys' = Widened(keys) /\ mappings' = keys /\ file' = file  BY <1>0, <1>7 DEF Project
  <2> QED BY <1>0, <2>1, WideStays DEF KeyMapInv
<1>8. CASE Load
  <2>1. keys' = Widened(file) /\ mappings' = Widened(file) /\ file' = file  BY <1>8 DEF Load
  <2> QED BY <1>0, <2>1, WideStays DEF KeyMapInv
<1>9. CASE UNCHANGED keyVars
  BY <1>0, <1>9 DEF keyVars, KeyMapInv
<1> QED BY <1>2, <1>3, <1>4, <1>5, <1>6, <1>7, <1>8, <1>9 DEF KeyMapNext

THEOREM KeyMapInvariant == KeyMapSpec => []KeyMapInv
<1>1. KeyMapInit => KeyMapInv
  <2> SUFFICES ASSUME KeyMapInit PROVE KeyMapInv  OBVIOUS
  <2>1. Listed(<<>>)  BY DEF Listed, Unique
  <2> QED BY <2>1 DEF KeyMapInit, KeyMapInv
<1> QED BY <1>1, KeyMapStep, PTL DEF KeyMapSpec

-----------------------------------------------------------------------------
Demand(list, i) == Cardinality(Groups(list[i].modMask))

(* How much a mapping asks for is a number. *)
LEMMA ScoreIsCounted ==
  ASSUME NEW list, Listed(list), NEW i \in DOMAIN list
  PROVE  /\ IsFiniteSet(Groups(list[i].modMask))
         /\ Demand(list, i) \in 0..Cardinality(Group) /\ Cardinality(Group) \in Nat
<1>1. list[i] \in Mapping  BY DEF Listed
<1>2. \A modifier \in list[i].modMask : modifier[1] \in Group  BY <1>1 DEF Mapping, Mask
<1>3. Groups(list[i].modMask) \in SUBSET Group  BY <1>2 DEF Groups
<1>4. IsFiniteSet(Group)  BY KeyMapAssumption
<1>5. /\ IsFiniteSet(Groups(list[i].modMask))
      /\ Cardinality(Groups(list[i].modMask)) <= Cardinality(Group)
  BY <1>3, <1>4, FS_Subset
<1>6. Cardinality(Groups(list[i].modMask)) \in Nat /\ Cardinality(Group) \in Nat
  BY <1>4, <1>5, FS_CardinalityType
<1> QED BY <1>5, <1>6 DEF Demand

(* If a mapping matches, the one that serves matches, and none that matches asks for more. *)
LEMMA BestIsFound ==
  ASSUME NEW list, Listed(list), NEW usage, NEW held, Matching(list, usage, held) # {}
  PROVE  /\ FindMappingForUsage(list, usage, held) \in Matching(list, usage, held)
         /\ FindMappingForUsage(list, usage, held) # 0
         /\ \A j \in Matching(list, usage, held) :
              Demand(list, j) <= Demand(list, FindMappingForUsage(list, usage, held))
<1> DEFINE found == Matching(list, usage, held)
           best == {i \in found : \A j \in found : Demand(list, j) <= Demand(list, i)}
           N == Cardinality(Group)
           T == {N - Demand(list, i) : i \in found}
<1>1. found \subseteq DOMAIN list /\ found # {}  BY DEF Matching
<1>2. PICK n \in Nat : DOMAIN list = 1..n  BY DEF Listed
<1>3. N \in Nat /\ \A i \in found : Demand(list, i) \in 0..N  BY <1>1, ScoreIsCounted
<1>4. FindMappingForUsage(list, usage, held) = Min(best)
  BY DEF FindMappingForUsage, Demand
<1> HIDE DEF found, N
<1>5. T \subseteq Nat /\ T # {}  BY <1>1, <1>3
<1>6. PICK t \in T : \A u \in T : t <= u  BY <1>5, Least
<1>7. PICK i \in found : t = N - Demand(list, i)  BY <1>6
<1>8. \A j \in found : Demand(list, j) <= Demand(list, i)
  <2> SUFFICES ASSUME NEW j \in found PROVE Demand(list, j) <= Demand(list, i)  OBVIOUS
  <2>1. N - Demand(list, j) \in T  OBVIOUS
  <2>2. N - Demand(list, i) <= N - Demand(list, j)  BY <1>6, <1>7, <2>1
  <2>3. Demand(list, i) \in 0..N /\ Demand(list, j) \in 0..N  BY <1>3
  <2> QED BY <1>3, <2>2, <2>3
<1>9. best # {} /\ best \in SUBSET (1..n)  BY <1>1, <1>2, <1>8
<1>10. Min(best) \in best  BY <1>9, FoundIsAPlace
<1>11. Min(best) # 0  BY <1>9, <1>10
<1> QED BY <1>4, <1>10, <1>11 DEF found

(* Two lists of the same mappings serve a press alike, if its layers do not tie. *)
LEMMA SameMappingsServe ==
  ASSUME NEW a, Listed(a), NEW b, Listed(b), NEW usage, NEW held, ~ Tie(a, usage, held),
         {a[i] : i \in DOMAIN a} = {b[i] : i \in DOMAIN b}
  PROVE  ActionOf(b, usage, held) = ActionOf(a, usage, held)
<1> DEFINE A == Matching(a, usage, held)  B == Matching(b, usage, held)
           i == FindMappingForUsage(a, usage, held)  j == FindMappingForUsage(b, usage, held)
<1>1. \A k \in A : \E l \in B : b[l] = a[k]
  <2> SUFFICES ASSUME NEW k \in A PROVE \E l \in B : b[l] = a[k]  OBVIOUS
  <2>1. k \in DOMAIN a  BY DEF Matching
  <2>2. PICK l \in DOMAIN b : b[l] = a[k]  BY <2>1
  <2> QED BY <2>2 DEF Matching
<1>2. \A l \in B : \E k \in A : a[k] = b[l]
  <2> SUFFICES ASSUME NEW l \in B PROVE \E k \in A : a[k] = b[l]  OBVIOUS
  <2>1. l \in DOMAIN b  BY DEF Matching
  <2>2. PICK k \in DOMAIN a : a[k] = b[l]  BY <2>1
  <2> QED BY <2>2 DEF Matching
<1>3. CASE A = {}
  <2>1. B = {}  BY <1>2, <1>3
  <2>2. i = 0 /\ j = 0  BY <1>3, <2>1 DEF FindMappingForUsage
  <2> QED BY <2>2 DEF ActionOf
<1>4. CASE A # {}
  <2>1. B # {}  BY <1>1, <1>4
  <2>2. i \in A /\ i # 0 /\ \A k \in A : Demand(a, k) <= Demand(a, i)  BY <1>4, BestIsFound
  <2>3. j \in B /\ j # 0 /\ \A l \in B : Demand(b, l) <= Demand(b, j)  BY <2>1, BestIsFound
  <2>4. PICK k \in A : a[k] = b[j]  BY <1>2, <2>3
  <2>5. PICK l \in B : b[l] = a[i]  BY <1>1, <2>2
  <2>6. Demand(a, k) = Demand(b, j) /\ Demand(a, i) = Demand(b, l)  BY <2>4, <2>5 DEF Demand
  <2>7. i \in DOMAIN a /\ k \in DOMAIN a  BY <2>2, <2>4 DEF Matching
  <2>8. Demand(a, i) = Demand(a, k)
    <3>1. Demand(a, k) <= Demand(a, i) /\ Demand(a, i) <= Demand(a, k)  BY <2>2, <2>3, <2>4, <2>5, <2>6
    <3>2. Demand(a, k) \in Nat /\ Demand(a, i) \in Nat  BY <2>7, ScoreIsCounted
    <3> QED BY <3>1, <3>2
  <2>9. a[i].modMask = a[k].modMask  BY <2>2, <2>4, <2>8 DEF Tie, Demand
  <2>10. a[i].usageId = usage /\ a[k].usageId = usage  BY <2>2, <2>4 DEF Matching
  <2>11. i = k  BY <2>7, <2>9, <2>10 DEF Listed, Unique, Trigger
  <2> QED BY <2>2, <2>3, <2>4, <2>11 DEF ActionOf
<1> QED BY <1>3, <1>4

(* Who holds just what a mapping asks for gets that mapping. *)
LEMMA ItsOwnPressServes ==
  ASSUME NEW list, Listed(list), NEW i \in DOMAIN list
  PROVE  Exactly(list, Trigger(list[i])) = {list[i].action}
<1> DEFINE usage == list[i].usageId  held == list[i].modMask
           k == FindMappingForUsage(list, usage, held)
<1>1. i \in Matching(list, usage, held)  BY DEF Matching, ModsMatch
<1>2. /\ k \in Matching(list, usage, held) /\ k # 0
      /\ Demand(list, i) <= Demand(list, k)
  BY <1>1, BestIsFound
<1>3. /\ k \in DOMAIN list /\ list[k].usageId = usage
      /\ Groups(list[k].modMask) \in SUBSET Groups(held)
  BY <1>2 DEF Matching, ModsMatch
<1>4. Groups(list[k].modMask) = Groups(held)
  <2>1. IsFiniteSet(Groups(held))  BY ScoreIsCounted
  <2>2. Demand(list, i) \in Nat /\ Demand(list, k) \in Nat  BY <1>3, ScoreIsCounted
  <2>3. Demand(list, k) <= Demand(list, i)
        /\ (Demand(list, k) = Demand(list, i) => Groups(list[k].modMask) = Groups(held))
    BY <1>3, <2>1, FS_Subset DEF Demand
  <2> QED BY <1>2, <2>2, <2>3
<1>5. list[k].modMask = held  BY <1>3, <1>4 DEF Listed, Full
<1>6. k = i  BY <1>3, <1>5 DEF Listed, Unique, Trigger
<1>7. Exactly(list, Trigger(list[i])) = ActionOf(list, usage, held)  BY DEF Exactly, Trigger
<1> QED BY <1>2, <1>6, <1>7 DEF ActionOf

(***************************************************************************)
(* What a press does is kept by every edit, sort, save, widening and load: *)
(* keys that hold one mapping for each key and layer, each with both sides *)
(* of its groups, give it the same action in the list in use, in the       *)
(* domain and in a file that was saved.                                    *)
(***************************************************************************)
THEOREM LayersStayKept == KeyMapSpec => []LayersAreKept
<1>1. KeyMapInv => LayersAreKept
  <2> SUFFICES ASSUME KeyMapInv PROVE LayersAreKept  OBVIOUS
  <2>0. Listed(keys) /\ Listed(file) /\ mappings = keys  BY DEF KeyMapInv
  <2>1. KeyMapTypeOK
    <3>1. ASSUME NEW list, Listed(list), NEW i \in DOMAIN list
          PROVE  list[i].usageId \in Usage /\ list[i].modMask \in Mask /\ list[i].action \in Action
      <4>1. list[i] \in Mapping  BY <3>1 DEF Listed
      <4> QED BY <4>1 DEF Mapping
    <3> QED BY <2>0, <3>1 DEF KeyMapTypeOK
  <2>2. Serves(keys, mappings)  BY <2>0 DEF Serves
  <2>3. ASSUME {mappings[i] : i \in DOMAIN mappings} = {file[i] : i \in DOMAIN file}
        PROVE  Serves(keys, file)
    BY <2>0, <2>3, SameMappingsServe DEF Serves
  <2>4. \A i \in DOMAIN keys : Exactly(keys, Trigger(keys[i])) = {keys[i].action}
    BY <2>0, ItsOwnPressServes
  <2> QED BY <2>1, <2>2, <2>3, <2>4 DEF LayersAreKept
<1> QED BY <1>1, KeyMapInvariant, PTL
=============================================================================
