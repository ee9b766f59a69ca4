----------------------- MODULE TargetedRoutingProofs -----------------------
(***************************************************************************)
(* Theorems about TargetedRouting, for every set of usages, windows and    *)
(* workers.  The inductive invariant is TargetedInv; what the ledger says  *)
(* of the keyboard and of the windows needs PhaseInv, DownInv, WindowInv.  *)
(***************************************************************************)
EXTENDS TargetedRouting, TLAPS

(***************************************************************************)
(* NextActive and NextBefore stay within the profiles of g_profiles.       *)
(***************************************************************************)
LEMMA NextProfileType ==
  ASSUME NEW a \in Action, NEW cur \in Profile, NEW before \in Profile \cup {NoProfile}
  PROVE  /\ NextActive(a, cur, before) \in Profile
         /\ NextBefore(a, cur, before) \in Profile \cup {NoProfile}
  BY RoutingAssumption DEF NextActive, NextBefore, Action

(***************************************************************************)
(* What a window sees of an entry posted to it is an entry again; it is    *)
(* that entry itself when the window's identity is the captured one.       *)
(***************************************************************************)
LEMMA AtWindowType ==
  ASSUME NEW x \in Entry, TypeOK
  PROVE  AtWindow(x) \subseteq Entry /\ (Valid(x) => AtWindow(x) = {x})
  BY TargetedAssumption DEF AtWindow, Valid, Entry, TypeOK

(***************************************************************************)
(* Every step of the targeted routing keeps every variable within its type.*)
(***************************************************************************)
LEMMA TypeStep == TypeOK /\ HandoverInv /\ [Next]_vars => TypeOK'
<1> SUFFICES ASSUME TypeOK, HandoverInv, [Next]_vars PROVE TypeOK'
  OBVIOUS
<1> USE RoutingAssumption, TargetedAssumption
    DEF TypeOK, Goto, Thread, profile, local, ledger, work, desktop
<1>1. CASE UNCHANGED vars
  BY <1>1 DEF vars
<1>2. ASSUME NEW e \in EdgeSet, BeginReport(e) PROVE TypeOK'
  BY <1>2 DEF BeginReport
<1>3. ASSUME NEW e \in EdgeSet, SwallowReport(e) PROVE TypeOK'
  BY <1>3 DEF SwallowReport
<1>4. ASSUME NEW u \in Usage, Vanish(u) PROVE TypeOK'
  BY <1>4 DEF Vanish, RecordUp
<1>5. CASE EndVanish
  BY <1>5 DEF EndVanish
<1>6. ASSUME NEW u \in todo, NEW a \in KeyMap[prof][u], DispatchEdge(u, a)
      PROVE  TypeOK'
  <2>1. CASE Switch(a, "press")
    <3>1. a \in Action
      OBVIOUS
    <3>2. /\ NextActive(a, active, beforeToggle) \in Profile
          /\ NextBefore(a, active, beforeToggle) \in Profile \cup {NoProfile}
      BY <3>1, NextProfileType
    <3>3. QED
      BY <1>6, <2>1, <3>2 DEF DispatchEdge, Switch, SetActive
  <2>2. CASE Press(prof, u, a, "press")
    BY <1>6, <2>2 DEF DispatchEdge, Press, Entry
  <2>3. CASE HoldsNothing(a)
    BY <1>6, <2>3 DEF DispatchEdge, HoldsNothing
  <2>4. QED
    BY <1>6, <2>1, <2>2, <2>3 DEF DispatchEdge
<1>7. CASE PressPost
  <2>1. cand \in Entry /\ AtWindow(cand) \subseteq Entry
    BY <1>7, AtWindowType DEF PressPost, HandoverInv
  <2>2. winDown' \subseteq Entry /\ opened' \subseteq Entry /\ stray' \subseteq Entry
    BY <1>7, <2>1 DEF PressPost, PressArrives, PressRefused
  <2>3. back \in {"idle", "vanish", "press"}
    BY <1>7 DEF PressPost, HandoverInv
  <2>4. QED
    BY <1>7, <2>1, <2>2, <2>3 DEF PressPost
<1>8. CASE Enter
  <2>1. cand \in Entry /\ AtWindow(cand) \subseteq Entry
    BY <1>8, AtWindowType DEF Enter, HandoverInv
  <2>2. CASE Owns(cand.usage)
    <3>1. PostKeyUp(cand) /\ pc' = [pc EXCEPT ![Main] = back]
            /\ cand' = NoEntry /\ back' = "idle"
      BY <1>8, <2>2 DEF Enter
    <3>2. winDown' \subseteq Entry /\ opened' \subseteq Entry /\ stray' \subseteq Entry
      BY <2>1, <3>1 DEF PostKeyUp
    <3>3. UNCHANGED <<profile, local, held, fired, edited, timer, arm, due, toPost, posting, ident>>
      BY <1>8, <2>2 DEF Enter
    <3>4. back \in {"idle", "vanish", "press"}
      BY <1>8 DEF Enter, HandoverInv
    <3>5. QED
      BY <3>1, <3>2, <3>3, <3>4
  <2>3. CASE ~Owns(cand.usage)
    <3>1. cand.usage \in Usage
      BY <2>1 DEF Entry
    <3>2. QED
      BY <1>8, <2>1, <2>3, <3>1 DEF Enter
  <2>4. QED
    BY <2>2, <2>3
<1>9. CASE EndReport
  BY <1>9 DEF EndReport
<1>10. ASSUME NEW x \in Entry, RepeatCheck(x) PROVE TypeOK'
  BY <1>10 DEF RepeatCheck, RecordUp
<1>11. CASE RepeatPost
  <2>1. posting[Main] \in Entry /\ AtWindow(posting[Main]) \subseteq Entry
    BY <1>11, AtWindowType DEF RepeatPost, HandoverInv
  <2>2. /\ winDown' \subseteq Entry /\ opened' \subseteq Entry /\ stray' \subseteq Entry
        /\ held' \subseteq Entry /\ fired' \subseteq Usage
    BY <1>11, <2>1 DEF RepeatPost, RepeatArrives, RepeatRefused, RecordUp
  <2>3. /\ due' = due \ {posting[Main]} /\ posting' = [posting EXCEPT ![Main] = NoEntry]
        /\ Goto(Main, "repeat")
        /\ UNCHANGED <<profile, local, edited, timer, arm, cand, toPost, back, ident>>
    BY <1>11 DEF RepeatPost
  <2>4. QED
    BY <2>2, <2>3
<1>12. CASE EndRepeat
  BY <1>12 DEF EndRepeat
<1>13. CASE ScheduleRead
  BY <1>13 DEF ScheduleRead, HandoverInv
<1>14. CASE ScheduleSet
  BY <1>14 DEF ScheduleSet, HandoverInv
<1>15. ASSUME NEW d \in SUBSET held, TimerFires(d) PROVE TypeOK'
  BY <1>15 DEF TimerFires
<1>16. ASSUME NEW p \in Profile, SwitchProfile(p) PROVE TypeOK'
  BY <1>16 DEF SwitchProfile, SetActive
<1>17. ASSUME NEW p \in Editable, NEW m \in ProfileMode, DashSetProfile(p, m) PROVE TypeOK'
  BY <1>17 DEF DashSetProfile
<1>18. ASSUME NEW b \in {"idle", "closed", "stopped"}, ReleaseEverything(b) PROVE TypeOK'
  BY <1>18 DEF ReleaseEverything
<1>19. ASSUME NEW t \in Thread, ReleaseStep(t) PROVE TypeOK'
  <2>1. CASE RelKill(t)
    BY <2>1 DEF RelKill
  <2>2. CASE RelTake(t)
    BY <2>2 DEF RelTake
  <2>3. CASE RelCheck(t)
    <3>1. UNCHANGED <<profile, local, ledger, arm, cand, due, back, desktop>>
      BY <2>3 DEF RelCheck
    <3>2. CASE \E x \in toPost[t] : /\ posting' = [posting EXCEPT ![t] = x]
                                    /\ Goto(t, "relPost")
                                    /\ UNCHANGED toPost
      <4>1. PICK x \in Entry : posting' = [posting EXCEPT ![t] = x]
        BY <3>2
      <4>2. /\ posting' \in [Thread -> Entry \cup {NoEntry}]
            /\ toPost' = toPost
        BY <3>2, <4>1
      <4>3. pc' = [pc EXCEPT ![t] = "relPost"]
        BY <3>2
      <4>4. QED
        BY <3>1, <4>2, <4>3
    <3>3. CASE \E x \in toPost[t] : /\ toPost' = [toPost EXCEPT ![t] = @ \ {x}]
                                    /\ UNCHANGED <<posting, pc>>
      BY <3>1, <3>3
    <3>4. QED
      BY <2>3, <3>2, <3>3 DEF RelCheck
  <2>4. CASE RelPost(t)
    <3>1. posting[t] \in Entry /\ AtWindow(posting[t]) \subseteq Entry
      BY <1>19, <2>4, AtWindowType DEF RelPost, HandoverInv
    <3>2. winDown' \subseteq Entry /\ opened' \subseteq Entry /\ stray' \subseteq Entry
      BY <2>4, <3>1 DEF RelPost, PostKeyUp
    <3>3. QED
      BY <2>4, <3>2 DEF RelPost
  <2>5. QED
    BY <1>19, <2>1, <2>2, <2>3, <2>4 DEF ReleaseStep
<1>20. CASE RelReturn
  BY <1>20 DEF RelReturn
<1>21. ASSUME NEW t \in Worker, WorkerNext(t) PROVE TypeOK'
  BY <1>19, <1>21 DEF WorkerNext, WorkerCall, WorkerReturn
<1>22. ASSUME NEW w \in Handle, NEW i \in Identity \cup {Gone}, WindowChanges(w, i) PROVE TypeOK'
  BY <1>22 DEF WindowChanges
<1>23. CASE Stopped
  BY <1>1, <1>23 DEF Stopped
<1>24. ASSUME NEW p \in Profile, NEW u \in FiredUsage, NEW a \in Fired, FireAction(p, u, a)
       PROVE  TypeOK'
  <2>1. CASE Switch(a, "idle")
    <3>1. a \in Action
      BY RoutingAssumption
    <3>2. /\ NextActive(a, active, beforeToggle) \in Profile
          /\ NextBefore(a, active, beforeToggle) \in Profile \cup {NoProfile}
      BY <3>1, NextProfileType DEF TypeOK
    <3>3. QED
      BY <1>24, <2>1, <3>2 DEF FireAction, Switch, SetActive
  <2>2. CASE Press(p, u, a, "idle")
    BY <1>24, <2>2 DEF FireAction, Press, Entry
  <2>3. QED
    BY <1>24, <2>1, <2>2 DEF FireAction
<1> QED
  BY <1>1, <1>2, <1>3, <1>4, <1>5, <1>6, <1>7, <1>8, <1>9, <1>10, <1>11, <1>12, <1>13,
     <1>14, <1>15, <1>16, <1>17, <1>18, <1>19, <1>20, <1>21, <1>22, <1>23, <1>24
  DEF Next, MainNext, ReportStep, RepeatStep, ScheduleStep, Dispatch
-----------------------------------------------------------------------------
(***************************************************************************)
(* The hand-over of entries from the ledger to the threads that post their *)
(* key-ups loses none.                                                     *)
(***************************************************************************)
LEMMA HandoverStep ==
  TypeOK /\ OpenedIsAccounted /\ HandoverInv /\ [Next]_vars
    => OpenedIsAccounted' /\ HandoverInv'
<1> SUFFICES ASSUME TypeOK, OpenedIsAccounted, HandoverInv, [Next]_vars
             PROVE  OpenedIsAccounted' /\ HandoverInv'
  OBVIOUS
<1> USE TargetedAssumption
    DEF TypeOK, OpenedIsAccounted, Tracked, HandoverInv, Valid, Goto, Thread, profile, local,
        ledger, work, desktop
<1>1. CASE UNCHANGED vars
  BY <1>1 DEF vars
<1>2. ASSUME NEW e \in EdgeSet, BeginReport(e) PROVE OpenedIsAccounted' /\ HandoverInv'
  BY <1>2 DEF BeginReport
<1>3. ASSUME NEW e \in EdgeSet, SwallowReport(e) PROVE OpenedIsAccounted' /\ HandoverInv'
  BY <1>3 DEF SwallowReport
<1>4. ASSUME NEW u \in Usage, Vanish(u) PROVE OpenedIsAccounted' /\ HandoverInv'
  BY <1>4 DEF Vanish, RecordUp, Owns
<1>5. CASE EndVanish
  BY <1>5 DEF EndVanish
<1>6. ASSUME NEW u \in todo, NEW a \in KeyMap[prof][u], DispatchEdge(u, a)
      PROVE  OpenedIsAccounted' /\ HandoverInv'
  <2>1. CASE Switch(a, "press")
    BY <1>6, <2>1 DEF DispatchEdge, Switch, SetActive
  <2>2. CASE Press(prof, u, a, "press")
    BY <1>6, <2>2 DEF DispatchEdge, Press, Entry
  <2>3. CASE HoldsNothing(a)
    BY <1>6, <2>3 DEF DispatchEdge, HoldsNothing
  <2>4. QED
    BY <1>6, <2>1, <2>2, <2>3 DEF DispatchEdge
<1>7. CASE PressPost
  <2>1. cand \in Entry /\ (ident[cand.win] = cand.id => AtWindow(cand) = {cand})
    BY <1>7, AtWindowType DEF PressPost
  <2>2. QED
    BY <1>7, <2>1 DEF PressPost, PressArrives, PressRefused, Entry
<1>8. CASE Enter
  <2>1. cand \in Entry /\ (ident[cand.win] = cand.id => AtWindow(cand) = {cand})
    BY <1>8, AtWindowType DEF Enter
  <2>2. QED
    BY <1>8, <2>1 DEF Enter, PostKeyUp, Owns
<1>9. CASE EndReport
  BY <1>9 DEF EndReport
<1>10. ASSUME NEW x \in Entry, RepeatCheck(x) PROVE OpenedIsAccounted' /\ HandoverInv'
  BY <1>10 DEF RepeatCheck, RecordUp
<1>11. CASE RepeatPost
  <2>1. /\ posting[Main] \in Entry
        /\ ident[posting[Main].win] = posting[Main].id => AtWindow(posting[Main]) = {posting[Main]}
    BY <1>11, AtWindowType DEF RepeatPost
  <2>2. QED
    BY <1>11, <2>1 DEF RepeatPost, RepeatArrives, RepeatRefused, RecordUp, Entry
<1>12. CASE EndRepeat
  BY <1>12 DEF EndRepeat
<1>13. CASE ScheduleRead
  BY <1>13 DEF ScheduleRead
<1>14. CASE ScheduleSet
  BY <1>14 DEF ScheduleSet
<1>15. ASSUME NEW d \in SUBSET held, TimerFires(d) PROVE OpenedIsAccounted' /\ HandoverInv'
  BY <1>15 DEF TimerFires
<1>16. ASSUME NEW p \in Profile, SwitchProfile(p) PROVE OpenedIsAccounted' /\ HandoverInv'
  BY <1>16 DEF SwitchProfile, SetActive
<1>17. ASSUME NEW p \in Editable, NEW m \in ProfileMode, DashSetProfile(p, m) PROVE OpenedIsAccounted' /\ HandoverInv'
  BY <1>17 DEF DashSetProfile
<1>18. ASSUME NEW b \in {"idle", "closed", "stopped"}, ReleaseEverything(b) PROVE OpenedIsAccounted' /\ HandoverInv'
  BY <1>18 DEF ReleaseEverything
<1>19. ASSUME NEW t \in Thread, ReleaseStep(t) PROVE OpenedIsAccounted' /\ HandoverInv'
  <2>1. CASE RelKill(t)
    BY <2>1 DEF RelKill
  <2>2. CASE RelTake(t)
    BY <2>2 DEF RelTake
  <2>3. CASE RelCheck(t)
    BY <2>3 DEF RelCheck
  <2>4. CASE RelPost(t)
    <3>1. posting[t] \in Entry /\ (ident[posting[t].win] = posting[t].id => AtWindow(posting[t]) = {posting[t]})
      BY <2>4, AtWindowType DEF RelPost
    <3>2. QED
      BY <2>4, <3>1 DEF RelPost, PostKeyUp
  <2>5. QED
    BY <1>19, <2>1, <2>2, <2>3, <2>4 DEF ReleaseStep
<1>20. CASE RelReturn
  BY <1>20 DEF RelReturn
<1>21. ASSUME NEW t \in Worker, WorkerNext(t) PROVE OpenedIsAccounted' /\ HandoverInv'
  BY <1>19, <1>21 DEF WorkerNext, WorkerCall, WorkerReturn
<1>22. ASSUME NEW w \in Handle, NEW i \in Identity \cup {Gone}, WindowChanges(w, i) PROVE OpenedIsAccounted' /\ HandoverInv'
  BY <1>22 DEF WindowChanges
<1>23. CASE Stopped
  BY <1>1, <1>23 DEF Stopped
<1>24. ASSUME NEW p \in Profile, NEW u \in FiredUsage, NEW a \in Fired, FireAction(p, u, a)
       PROVE  OpenedIsAccounted' /\ HandoverInv'
  <2>1. CASE Switch(a, "idle")
    <3>1. a \in Action
      BY RoutingAssumption
    <3>2. /\ NextActive(a, active, beforeToggle) \in Profile
          /\ NextBefore(a, active, beforeToggle) \in Profile \cup {NoProfile}
      BY <3>1, NextProfileType DEF TypeOK
    <3>3. QED
      BY <1>24, <2>1, <3>2 DEF FireAction, Switch, SetActive
  <2>2. CASE Press(p, u, a, "idle")
    BY <1>24, <2>2 DEF FireAction, Press, Entry
  <2>3. QED
    BY <1>24, <2>1, <2>2 DEF FireAction
<1> QED
  BY <1>1, <1>2, <1>3, <1>4, <1>5, <1>6, <1>7, <1>8, <1>9, <1>10, <1>11, <1>12, <1>13,
     <1>14, <1>15, <1>16, <1>17, <1>18, <1>19, <1>20, <1>21, <1>22, <1>23, <1>24
  DEF Next, MainNext, ReportStep, RepeatStep, ScheduleStep, Dispatch
-----------------------------------------------------------------------------
(***************************************************************************)
(* The repeat timer is never left off with a key in the ledger.            *)
(***************************************************************************)
LEMMA TimerStep == TypeOK /\ HandoverInv /\ TimerInv /\ [Next]_vars => TimerInv'
<1> SUFFICES ASSUME TypeOK, HandoverInv, TimerInv, [Next]_vars PROVE TimerInv'
  OBVIOUS
<1> USE TargetedAssumption
    DEF TypeOK, TimerInv, Goto, Thread, profile, local, ledger, work, desktop
<1>1. CASE UNCHANGED vars
  BY <1>1 DEF vars
<1>2. ASSUME NEW e \in EdgeSet, BeginReport(e) PROVE TimerInv'
  BY <1>2 DEF BeginReport
<1>3. ASSUME NEW e \in EdgeSet, SwallowReport(e) PROVE TimerInv'
  BY <1>3 DEF SwallowReport
<1>4. ASSUME NEW u \in Usage, Vanish(u) PROVE TimerInv'
  BY <1>4 DEF Vanish, RecordUp
<1>5. CASE EndVanish
  BY <1>5 DEF EndVanish
<1>6. ASSUME NEW u \in todo, NEW a \in KeyMap[prof][u], DispatchEdge(u, a)
      PROVE  TimerInv'
  <2>1. CASE Switch(a, "press")
    BY <1>6, <2>1 DEF DispatchEdge, Switch, SetActive
  <2>2. CASE Press(prof, u, a, "press")
    BY <1>6, <2>2 DEF DispatchEdge, Press
  <2>3. CASE HoldsNothing(a)
    BY <1>6, <2>3 DEF DispatchEdge, HoldsNothing
  <2>4. QED
    BY <1>6, <2>1, <2>2, <2>3 DEF DispatchEdge
<1>7. CASE PressPost
  BY <1>7 DEF PressPost
<1>8. CASE Enter
  BY <1>8 DEF Enter
<1>9. CASE EndReport
  BY <1>9 DEF EndReport
<1>10. ASSUME NEW x \in Entry, RepeatCheck(x) PROVE TimerInv'
  BY <1>10 DEF RepeatCheck, RecordUp
<1>11. CASE RepeatPost
  BY <1>11 DEF RepeatPost, RecordUp
<1>12. CASE EndRepeat
  BY <1>12 DEF EndRepeat
<1>13. CASE ScheduleRead
  BY <1>13 DEF ScheduleRead
<1>14. CASE ScheduleSet
  BY <1>14 DEF ScheduleSet
<1>15. ASSUME NEW d \in SUBSET held, TimerFires(d) PROVE TimerInv'
  BY <1>15 DEF TimerFires
<1>16. ASSUME NEW p \in Profile, SwitchProfile(p) PROVE TimerInv'
  BY <1>16 DEF SwitchProfile, SetActive
<1>17. ASSUME NEW p \in Editable, NEW m \in ProfileMode, DashSetProfile(p, m) PROVE TimerInv'
  BY <1>17 DEF DashSetProfile
<1>18. ASSUME NEW b \in {"idle", "closed", "stopped"}, ReleaseEverything(b) PROVE TimerInv'
  BY <1>18 DEF ReleaseEverything
<1>19. ASSUME NEW t \in Thread, ReleaseStep(t) PROVE TimerInv'
  <2>1. CASE RelKill(t)
    BY <2>1 DEF RelKill
  <2>2. CASE RelTake(t)
    BY <2>2 DEF RelTake
  <2>3. CASE RelCheck(t)
    BY <2>3 DEF RelCheck
  <2>4. CASE RelPost(t)
    BY <2>4 DEF RelPost
  <2>5. QED
    BY <1>19, <2>1, <2>2, <2>3, <2>4 DEF ReleaseStep
<1>20. CASE RelReturn
  BY <1>20 DEF RelReturn
<1>21. ASSUME NEW t \in Worker, WorkerNext(t) PROVE TimerInv'
  BY <1>19, <1>21 DEF WorkerNext, WorkerCall, WorkerReturn
<1>22. ASSUME NEW w \in Handle, NEW i \in Identity \cup {Gone}, WindowChanges(w, i) PROVE TimerInv'
  BY <1>22 DEF WindowChanges
<1>23. CASE Stopped
  BY <1>1, <1>23 DEF Stopped
<1>24. ASSUME NEW p \in Profile, NEW u \in FiredUsage, NEW a \in Fired, FireAction(p, u, a)
       PROVE  TimerInv'
  <2>1. CASE Switch(a, "idle")
    <3>1. a \in Action
      BY RoutingAssumption
    <3>2. /\ NextActive(a, active, beforeToggle) \in Profile
          /\ NextBefore(a, active, beforeToggle) \in Profile \cup {NoProfile}
      BY <3>1, NextProfileType DEF TypeOK
    <3>3. QED
      BY <1>24, <2>1, <3>2 DEF FireAction, Switch, SetActive
  <2>2. CASE Press(p, u, a, "idle")
    BY <1>24, <2>2 DEF FireAction, Press, Entry
  <2>3. QED
    BY <1>24, <2>1, <2>2 DEF FireAction
<1> QED
  BY <1>1, <1>2, <1>3, <1>4, <1>5, <1>6, <1>7, <1>8, <1>9, <1>10, <1>11, <1>12, <1>13,
     <1>14, <1>15, <1>16, <1>17, <1>18, <1>19, <1>20, <1>21, <1>22, <1>23, <1>24
  DEF Next, MainNext, ReportStep, RepeatStep, ScheduleStep, Dispatch
-----------------------------------------------------------------------------
(***************************************************************************)
(* The inductive invariant holds in every behaviour.                       *)
(***************************************************************************)
LEMMA TargetedInvariant == Spec => []TargetedInv
<1>1. Init => TargetedInv
  BY RoutingAssumption
  DEF Init, TargetedInv, TypeOK, OpenedIsAccounted, HandoverInv, TimerInv, Thread
<1>2. TargetedInv /\ [Next]_vars => TargetedInv'
  BY TypeStep, HandoverStep, TimerStep DEF TargetedInv
<1>3. QED
  BY <1>1, <1>2, PTL DEF Spec

(***************************************************************************)
(* The variables of the targeted routing keep their types.                 *)
(***************************************************************************)
THEOREM TypeCorrect == Spec => []TypeOK
<1>1. TargetedInv => TypeOK
  BY DEF TargetedInv
<1>2. QED
  BY <1>1, TargetedInvariant, PTL

(***************************************************************************)
(* An initial key-down always has someone who will post its key-up.        *)
(***************************************************************************)
THEOREM EveryPressIsAccounted == Spec => []OpenedIsAccounted
<1>1. TargetedInv => OpenedIsAccounted
  BY DEF TargetedInv
<1>2. QED
  BY <1>1, TargetedInvariant, PTL

(***************************************************************************)
(* A key that stays held keeps repeating, whatever the workers release.    *)
(***************************************************************************)
THEOREM HeldKeysKeepTheTimer == Spec => []HeldKeysRepeat
<1>1. TargetedInv => HeldKeysRepeat
  BY TargetedAssumption DEF TargetedInv, TimerInv, HeldKeysRepeat, Quiet, Thread
<1>2. QED
  BY <1>1, TargetedInvariant, PTL
-----------------------------------------------------------------------------
(***************************************************************************)
(* The stages the main thread resumes from at back, and the part of a      *)
(* report it is in: the usages that vanished, or those that are new.       *)
(***************************************************************************)
Away == {"pressPost", "enter", "schedule", "arm", "relKill", "relTake", "relCheck", "relPost"}

InVanish == pc[Main] = "vanish" \/ (pc[Main] \in Away /\ back = "vanish")
InPress == pc[Main] = "press" \/ (pc[Main] \in Away /\ back = "press")

(***************************************************************************)
(* A switch key is alone among the new usages us.                          *)
(***************************************************************************)
Alone(us) == \A u \in us \cap SwitchUsage : us = {u}

(***************************************************************************)
(* The control of the main thread between its parts: a release of          *)
(* everything leaves the ledger empty until the thread resumes, a key that *)
(* the Live screen does not fire is pressed in the active profile, which   *)
(* is a targeted one, and of several new usages none switches the profile. *)
(***************************************************************************)
PhaseInv ==
  /\ pc[Main] \notin Away => back = "idle"
  /\ pc[Main] \in {"relCheck", "relPost"} /\ back # "vanish" => held = {}
  /\ pc[Main] \in {"pressPost", "enter"} =>
       back = "idle" \/ (back = "press" /\ mode[active] = "targeted" /\ cand.usage \in report)
  /\ InVanish => Alone((report \ prev) \cap Usage) /\ active = prof
  /\ InPress => todo \subseteq report /\ Alone(todo) /\ (todo # {} => active = prof)

(***************************************************************************)
(* The strengthening of HeldKeysAreDown: what the ledger holds in every    *)
(* part of a report, unless a mode was edited while keys were held.        *)
(***************************************************************************)
DownInv ==
  ~ edited =>
    \A x \in held :
      \/ x.usage \in fired
      \/ /\ pc[Main] \notin {"relKill", "relTake"} => mode[active] = "targeted"
         /\ ~ InVanish /\ ~ InPress => x.usage \in prev
         /\ InVanish => x.usage \in prev /\ x.usage \in report \cup todo
         /\ InPress => x.usage \in report

(***************************************************************************)
(* The strengthening of WindowKeysAreHeld, at every moment: what a window  *)
(* sees down is in the ledger, is being entered, is about to be released,  *)
(* or is a key the ledger has lost track of.                               *)
(***************************************************************************)
WindowInv == \A x \in winDown : Valid(x) /\ (Tracked(x) \/ x \in stray)

-----------------------------------------------------------------------------
(***************************************************************************)
(* What is posted to an entry's handle reaches the window behind it, which *)
(* sees the entry itself if its identity is the one that was captured.     *)
(***************************************************************************)
LEMMA AtWindowFacts ==
  ASSUME NEW x \in Entry, TypeOK
  PROVE  /\ AtWindow(x) \subseteq Entry /\ \A y \in AtWindow(x) : Valid(y)
         /\ Valid(x) => AtWindow(x) = {x}
         /\ ident[x.win] = Gone => AtWindow(x) = {} /\ ~ Valid(x)
  BY TargetedAssumption DEF AtWindow, Valid, Entry, TypeOK

(***************************************************************************)
(* Every step keeps what the windows see accounted for.                    *)
(***************************************************************************)
LEMMA WindowStep ==
  ASSUME TypeOK, HandoverInv, WindowInv, [Next]_vars
  PROVE  WindowInv'
<1> USE TargetedAssumption
    DEF TypeOK, HandoverInv, WindowInv, Tracked, Valid, Goto, Thread, profile, local, ledger, work, desktop
<1>1. CASE UNCHANGED vars
  BY <1>1 DEF vars
<1>2. ASSUME NEW e \in EdgeSet, BeginReport(e) PROVE WindowInv'
  BY <1>2 DEF BeginReport
<1>3. ASSUME NEW e \in EdgeSet, SwallowReport(e) PROVE WindowInv'
  BY <1>3 DEF SwallowReport
<1>4. ASSUME NEW u \in Usage, Vanish(u) PROVE WindowInv'
  BY <1>4 DEF Vanish, RecordUp, Owns
<1>5. CASE EndVanish
  BY <1>5 DEF EndVanish
<1>6. ASSUME NEW u \in todo, NEW a \in KeyMap[prof][u], DispatchEdge(u, a) PROVE WindowInv'
  <2>1. CASE Switch(a, "press")
    BY <1>6, <2>1 DEF DispatchEdge, Switch, SetActive
  <2>2. CASE Press(prof, u, a, "press")
    BY <1>6, <2>2 DEF DispatchEdge, Press, Entry
  <2>3. CASE HoldsNothing(a)
    BY <1>6, <2>3 DEF DispatchEdge, HoldsNothing
  <2> QED BY <1>6, <2>1, <2>2, <2>3 DEF DispatchEdge
<1>7. CASE PressPost
  <2>1. cand \in Entry /\ pc[Main] = "pressPost" /\ UNCHANGED <<held, toPost, ident>>
    BY <1>7 DEF PressPost
  <2>2. CASE PressArrives(cand) /\ Goto(Main, "enter") /\ UNCHANGED cand
    <3>1. cand' = cand /\ pc'[Main] = "enter"
      BY <2>2
    <3>2. /\ winDown' = winDown \cup AtWindow(cand)
          /\ stray' = IF Valid(cand) THEN stray \ {cand} ELSE stray \cup AtWindow(cand)
      BY <2>2 DEF PressArrives
    <3>3. AtWindow(cand) \subseteq {cand'} \cup stray'
      BY <2>1, <3>1, <3>2, AtWindowFacts
    <3>4. stray \subseteq stray' \cup {cand'}
      BY <3>1, <3>2
    <3>5. \A x \in winDown' : ident'[x.win] = x.id
      BY <2>1, <3>2, AtWindowFacts
    <3> QED BY <2>1, <3>1, <3>2, <3>3, <3>4, <3>5
  <2>3. CASE PressRefused(cand)
    <3>1. UNCHANGED <<winDown, stray>>
      BY <2>3 DEF PressRefused
    <3> QED BY <1>7, <2>1, <3>1 DEF PressPost
  <2> QED BY <1>7, <2>2, <2>3 DEF PressPost
<1>8. CASE Enter
  <2>1. cand \in Entry /\ pc[Main] = "enter" /\ UNCHANGED <<toPost, ident>>
    BY <1>8 DEF Enter
  <2>2. CASE Owns(cand.usage)
    <3>1. PostKeyUp(cand) /\ UNCHANGED held
      BY <1>8, <2>2 DEF Enter
    <3>2. winDown' \subseteq winDown /\ cand \notin winDown' \ stray' /\ winDown' \cap stray \subseteq stray'
      BY <2>1, <3>1, AtWindowFacts DEF PostKeyUp
    <3> QED BY <2>1, <3>1, <3>2
  <2>3. CASE ~ Owns(cand.usage)
    BY <1>8, <2>1, <2>3 DEF Enter
  <2> QED BY <2>2, <2>3
<1>9. CASE EndReport
  BY <1>9 DEF EndReport
<1>10. ASSUME NEW x \in Entry, RepeatCheck(x) PROVE WindowInv'
  BY <1>10 DEF RepeatCheck, RecordUp
<1>11. CASE RepeatPost
  <2> DEFINE x == posting[Main]
  <2>1. x \in Entry /\ x \in due
    BY <1>11 DEF RepeatPost
  <2>2. /\ UNCHANGED <<toPost, ident>>
        /\ pc'[Main] = "repeat" /\ pc[Main] = "repeatPost"
    BY <1>11 DEF RepeatPost
  <2>3. \A y \in held : x.usage = y.usage => x = y
    BY <2>1, <2>2
  <2>4. \/ RepeatArrives(x) /\ UNCHANGED held
        \/ RepeatRefused(x) /\ held' = {y \in held : y.usage # x.usage}
    BY <1>11 DEF RepeatPost, RecordUp
  <2> HIDE DEF x
  <2>5. CASE RepeatArrives(x) /\ UNCHANGED held
    <3>1. /\ winDown' = winDown \cup AtWindow(x)
          /\ stray' = IF Valid(x) /\ x \in held THEN stray ELSE stray \cup AtWindow(x)
      BY <2>5 DEF RepeatArrives
    <3>2. AtWindow(x) \subseteq held' \cup stray'
      BY <2>1, <2>5, <3>1, AtWindowFacts
    <3>3. \A y \in winDown' : ident'[y.win] = y.id
      BY <2>1, <2>2, <3>1, AtWindowFacts
    <3> QED BY <2>2, <2>5, <3>1, <3>2, <3>3
  <2>6. CASE RepeatRefused(x) /\ held' = {y \in held : y.usage # x.usage}
    <3>1. winDown' = winDown /\ stray' = stray \cup AtWindow(x)
      BY <2>6 DEF RepeatRefused
    <3>2. x \in winDown => x \in stray'
      BY <2>1, <3>1, AtWindowFacts
    <3> QED BY <2>2, <2>3, <2>6, <3>1, <3>2
  <2> QED BY <2>4, <2>5, <2>6
<1>12. CASE EndRepeat
  BY <1>12 DEF EndRepeat
<1>13. CASE ScheduleRead
  BY <1>13 DEF ScheduleRead
<1>14. CASE ScheduleSet
  BY <1>14 DEF ScheduleSet
<1>15. ASSUME NEW d \in SUBSET held, TimerFires(d) PROVE WindowInv'
  BY <1>15 DEF TimerFires
<1>16. ASSUME NEW p \in Profile, SwitchProfile(p) PROVE WindowInv'
  BY <1>16 DEF SwitchProfile, SetActive
<1>17. ASSUME NEW p \in Editable, NEW m \in ProfileMode, DashSetProfile(p, m) PROVE WindowInv'
  BY <1>17 DEF DashSetProfile
<1>18. ASSUME NEW b \in {"idle", "closed", "stopped"}, ReleaseEverything(b) PROVE WindowInv'
  BY <1>18 DEF ReleaseEverything
<1>19. ASSUME NEW t \in Thread, ReleaseStep(t) PROVE WindowInv'
  <2>1. CASE RelKill(t)
    BY <2>1 DEF RelKill
  <2>2. CASE RelTake(t)
    BY <2>2 DEF RelTake
  <2>3. CASE RelCheck(t)
    BY <2>3 DEF RelCheck
  <2>4. CASE RelPost(t)
    <3> DEFINE x == posting[t]
    <3>1. x \in Entry /\ x \in toPost[t] /\ pc[t] = "relPost"
      BY <1>19, <2>4 DEF RelPost
    <3>2. /\ PostKeyUp(x)
          /\ toPost' = [toPost EXCEPT ![t] = @ \ {x}]
          /\ pc' = [pc EXCEPT ![t] = "relCheck"]
          /\ UNCHANGED <<held, ident, cand>>
      BY <2>4 DEF RelPost
    <3> HIDE DEF x
    <3>3. \A y \in winDown' : ident'[y.win] = y.id
      BY <3>2 DEF PostKeyUp
    <3>4. (pc[Main] = "enter" => pc'[Main] = "enter") /\ x \notin winDown' \ stray'
      BY <1>19, <3>1, <3>2, AtWindowFacts DEF PostKeyUp
    <3>5. winDown' \subseteq winDown /\ (winDown' \cap stray) \subseteq stray'
      BY <3>2 DEF PostKeyUp
    <3>6. \A e \in Thread : toPost[e] \subseteq toPost'[e] \cup {x}
      BY <1>19, <3>1, <3>2
    <3> QED BY <3>2, <3>3, <3>4, <3>5, <3>6
  <2> QED BY <1>19, <2>1, <2>2, <2>3, <2>4 DEF ReleaseStep
<1>20. CASE RelReturn
  BY <1>20 DEF RelReturn
<1>21. ASSUME NEW t \in Worker, WorkerNext(t) PROVE WindowInv'
  BY <1>19, <1>21 DEF WorkerNext, WorkerCall, WorkerReturn
<1>22. ASSUME NEW w \in Handle, NEW i \in Identity \cup {Gone}, WindowChanges(w, i) PROVE WindowInv'
  BY <1>22 DEF WindowChanges
<1>23. CASE Stopped
  BY <1>1, <1>23 DEF Stopped
<1>24. ASSUME NEW p \in Profile, NEW u \in FiredUsage, NEW a \in Fired, FireAction(p, u, a) PROVE WindowInv'
  <2>1. CASE Switch(a, "idle")
    BY <1>24, <2>1 DEF FireAction, Switch, SetActive
  <2>2. CASE Press(p, u, a, "idle")
    BY <1>24, <2>2 DEF FireAction, Press, Entry
  <2> QED BY <1>24, <2>1, <2>2 DEF FireAction
<1> QED
  BY <1>1, <1>2, <1>3, <1>4, <1>5, <1>6, <1>7, <1>8, <1>9, <1>10, <1>11, <1>12, <1>13, <1>14, <1>15, <1>16, <1>17, <1>18, <1>19, <1>20, <1>21, <1>22, <1>23, <1>24
  DEF Next, MainNext, ReportStep, RepeatStep, ScheduleStep, Dispatch

(***************************************************************************)
(* Every step keeps the control of the main thread.                        *)
(***************************************************************************)
LEMMA PhaseStep ==
  ASSUME SwitchAlone, TypeOK, PhaseInv, [Next]_vars
  PROVE  PhaseInv'
<1> USE RoutingAssumption, TargetedAssumption
    DEF TypeOK, PhaseInv, InVanish, InPress, Away, Alone, Goto, Thread, profile, local, ledger, work, desktop
<1>1. CASE UNCHANGED vars
  BY <1>1 DEF vars
<1>2. ASSUME NEW e \in EdgeSet, BeginReport(e) PROVE PhaseInv'
  <2>1. Alone((e \ prev) \cap Usage)
    BY SwitchAlone DEF SwitchAlone
  <2> QED BY <1>2, <2>1 DEF BeginReport
<1>3. ASSUME NEW e \in EdgeSet, SwallowReport(e) PROVE PhaseInv'
  BY <1>3 DEF SwallowReport
<1>4. ASSUME NEW u \in Usage, Vanish(u) PROVE PhaseInv'
  BY <1>4 DEF Vanish, RecordUp, Owns
<1>5. CASE EndVanish
  BY <1>5 DEF EndVanish
<1>6. ASSUME NEW u \in todo, NEW a \in KeyMap[prof][u], DispatchEdge(u, a) PROVE PhaseInv'
  <2>0. u \in Usage /\ prof \in Profile
    OBVIOUS
  <2>1. CASE Switch(a, "press")
    <3>1. u \in SwitchUsage
      BY <2>0, <2>1 DEF Switch, SwitchUsage
    <3>2. todo' = {}
      BY <1>6, <3>1 DEF DispatchEdge
    <3> QED BY <1>6, <2>1, <3>2 DEF DispatchEdge, Switch, SetActive
  <2>2. CASE Press(prof, u, a, "press")
    BY <1>6, <2>2 DEF DispatchEdge, Press, Entry
  <2>3. CASE HoldsNothing(a)
    BY <1>6, <2>3 DEF DispatchEdge, HoldsNothing
  <2> QED BY <1>6, <2>1, <2>2, <2>3 DEF DispatchEdge
<1>7. CASE PressPost
  BY <1>7 DEF PressPost
<1>8. CASE Enter
  BY <1>8 DEF Enter
<1>9. CASE EndReport
  BY <1>9 DEF EndReport
<1>10. ASSUME NEW x \in Entry, RepeatCheck(x) PROVE PhaseInv'
  BY <1>10 DEF RepeatCheck, RecordUp
<1>11. CASE RepeatPost
  BY <1>11 DEF RepeatPost, RecordUp
<1>12. CASE EndRepeat
  BY <1>12 DEF EndRepeat
<1>13. CASE ScheduleRead
  BY <1>13 DEF ScheduleRead
<1>14. CASE ScheduleSet
  BY <1>14 DEF ScheduleSet
<1>15. ASSUME NEW d \in SUBSET held, TimerFires(d) PROVE PhaseInv'
  BY <1>15 DEF TimerFires
<1>16. ASSUME NEW p \in Profile, SwitchProfile(p) PROVE PhaseInv'
  BY <1>16 DEF SwitchProfile, SetActive
<1>17. ASSUME NEW p \in Editable, NEW m \in ProfileMode, DashSetProfile(p, m) PROVE PhaseInv'
  BY <1>17 DEF DashSetProfile
<1>18. ASSUME NEW b \in {"idle", "closed", "stopped"}, ReleaseEverything(b) PROVE PhaseInv'
  BY <1>18 DEF ReleaseEverything
<1>19. ASSUME NEW t \in Thread, ReleaseStep(t) PROVE PhaseInv'
  <2>1. CASE RelKill(t)
    BY <2>1 DEF RelKill
  <2>2. CASE RelTake(t)
    BY <2>2 DEF RelTake
  <2>3. CASE RelCheck(t)
    BY <2>3 DEF RelCheck
  <2>4. CASE RelPost(t)
    BY <2>4 DEF RelPost
  <2> QED BY <1>19, <2>1, <2>2, <2>3, <2>4 DEF ReleaseStep
<1>20. CASE RelReturn
  BY <1>20 DEF RelReturn
<1>21. ASSUME NEW t \in Worker, WorkerNext(t) PROVE PhaseInv'
  BY <1>19, <1>21 DEF WorkerNext, WorkerCall, WorkerReturn
<1>22. ASSUME NEW w \in Handle, NEW i \in Identity \cup {Gone}, WindowChanges(w, i) PROVE PhaseInv'
  BY <1>22 DEF WindowChanges
<1>23. CASE Stopped
  BY <1>1, <1>23 DEF Stopped
<1>24. ASSUME NEW p \in Profile, NEW u \in FiredUsage, NEW a \in Fired, FireAction(p, u, a) PROVE PhaseInv'
  <2>1. CASE Switch(a, "idle")
    BY <1>24, <2>1 DEF FireAction, Switch, SetActive
  <2>2. CASE Press(p, u, a, "idle")
    BY <1>24, <2>2 DEF FireAction, Press, Entry
  <2> QED BY <1>24, <2>1, <2>2 DEF FireAction
<1> QED
  BY <1>1, <1>2, <1>3, <1>4, <1>5, <1>6, <1>7, <1>8, <1>9, <1>10, <1>11, <1>12, <1>13, <1>14, <1>15, <1>16, <1>17, <1>18, <1>19, <1>20, <1>21, <1>22, <1>23, <1>24
  DEF Next, MainNext, ReportStep, RepeatStep, ScheduleStep, Dispatch

(***************************************************************************)
(* Every step keeps what the ledger holds within the keys that are down.   *)
(***************************************************************************)
LEMMA DownStep ==
  ASSUME SwitchAlone, TypeOK, PhaseInv, DownInv, [Next]_vars
  PROVE  DownInv'
<1> USE RoutingAssumption, TargetedAssumption
    DEF TypeOK, PhaseInv, DownInv, InVanish, InPress, Away, Alone, Goto, Thread, profile, local, ledger, work, desktop
<1>1. CASE UNCHANGED vars
  BY <1>1 DEF vars
<1>2. ASSUME NEW e \in EdgeSet, BeginReport(e) PROVE DownInv'
  <2>1. CASE mode[active] = "targeted"
    <3>1. \A x \in held : x.usage \in Usage
      BY DEF Entry
    <3> QED BY <1>2, <2>1, <3>1 DEF BeginReport
  <2>2. CASE mode[active] # "targeted"
    <3>1. ~ edited => \A x \in held : x.usage \in fired
      BY <1>2, <2>2 DEF BeginReport
    <3> QED BY <1>2, <2>2, <3>1 DEF BeginReport
  <2> QED BY <2>1, <2>2
<1>3. ASSUME NEW e \in EdgeSet, SwallowReport(e) PROVE DownInv'
  BY <1>3 DEF SwallowReport
<1>4. ASSUME NEW u \in Usage, Vanish(u) PROVE DownInv'
  BY <1>4 DEF Vanish, RecordUp, Owns
<1>5. CASE EndVanish
  BY <1>5 DEF EndVanish
<1>6. ASSUME NEW u \in todo, NEW a \in KeyMap[prof][u], DispatchEdge(u, a) PROVE DownInv'
  <2>1. CASE Switch(a, "press")
    BY <1>6, <2>1 DEF DispatchEdge, Switch, SetActive
  <2>2. CASE Press(prof, u, a, "press")
    BY <1>6, <2>2 DEF DispatchEdge, Press, Entry
  <2>3. CASE HoldsNothing(a)
    BY <1>6, <2>3 DEF DispatchEdge, HoldsNothing
  <2> QED BY <1>6, <2>1, <2>2, <2>3 DEF DispatchEdge
<1>7. CASE PressPost
  BY <1>7 DEF PressPost
<1>8. CASE Enter
  BY <1>8 DEF Enter
<1>9. CASE EndReport
  BY <1>9 DEF EndReport
<1>10. ASSUME NEW x \in Entry, RepeatCheck(x) PROVE DownInv'
  BY <1>10 DEF RepeatCheck, RecordUp
<1>11. CASE RepeatPost
  BY <1>11 DEF RepeatPost, RecordUp
<1>12. CASE EndRepeat
  BY <1>12 DEF EndRepeat
<1>13. CASE ScheduleRead
  BY <1>13 DEF ScheduleRead
<1>14. CASE ScheduleSet
  BY <1>14 DEF ScheduleSet
<1>15. ASSUME NEW d \in SUBSET held, TimerFires(d) PROVE DownInv'
  BY <1>15 DEF TimerFires
<1>16. ASSUME NEW p \in Profile, SwitchProfile(p) PROVE DownInv'
  BY <1>16 DEF SwitchProfile, SetActive
<1>17. ASSUME NEW p \in Editable, NEW m \in ProfileMode, DashSetProfile(p, m) PROVE DownInv'
  BY <1>17 DEF DashSetProfile
<1>18. ASSUME NEW b \in {"idle", "closed", "stopped"}, ReleaseEverything(b) PROVE DownInv'
  BY <1>18 DEF ReleaseEverything
<1>19. ASSUME NEW t \in Thread, ReleaseStep(t) PROVE DownInv'
  <2>1. CASE RelKill(t)
    BY <2>1 DEF RelKill
  <2>2. CASE RelTake(t)
    BY <2>2 DEF RelTake
  <2>3. CASE RelCheck(t)
    BY <2>3 DEF RelCheck
  <2>4. CASE RelPost(t)
    BY <2>4 DEF RelPost
  <2> QED BY <1>19, <2>1, <2>2, <2>3, <2>4 DEF ReleaseStep
<1>20. CASE RelReturn
  BY <1>20 DEF RelReturn
<1>21. ASSUME NEW t \in Worker, WorkerNext(t) PROVE DownInv'
  BY <1>19, <1>21 DEF WorkerNext, WorkerCall, WorkerReturn
<1>22. ASSUME NEW w \in Handle, NEW i \in Identity \cup {Gone}, WindowChanges(w, i) PROVE DownInv'
  BY <1>22 DEF WindowChanges
<1>23. CASE Stopped
  BY <1>1, <1>23 DEF Stopped
<1>24. ASSUME NEW p \in Profile, NEW u \in FiredUsage, NEW a \in Fired, FireAction(p, u, a) PROVE DownInv'
  <2>1. CASE Switch(a, "idle")
    BY <1>24, <2>1 DEF FireAction, Switch, SetActive
  <2>2. CASE Press(p, u, a, "idle")
    BY <1>24, <2>2 DEF FireAction, Press, Entry
  <2> QED BY <1>24, <2>1, <2>2 DEF FireAction
<1> QED
  BY <1>1, <1>2, <1>3, <1>4, <1>5, <1>6, <1>7, <1>8, <1>9, <1>10, <1>11, <1>12, <1>13, <1>14, <1>15, <1>16, <1>17, <1>18, <1>19, <1>20, <1>21, <1>22, <1>23, <1>24
  DEF Next, MainNext, ReportStep, RepeatStep, ScheduleStep, Dispatch

(***************************************************************************)
(* A window sees a key down only while the ledger will release it,         *)
(* whatever the workers, the windows and the timer do.                     *)
(***************************************************************************)
THEOREM WindowKeysStayHeld == Spec => []WindowKeysAreHeld
<1>1. Init => WindowInv  BY DEF Init, WindowInv
<1>2. TargetedInv /\ TargetedInv' /\ WindowInv /\ [Next]_vars => WindowInv'
  BY WindowStep DEF TargetedInv
<1>3. TargetedInv /\ WindowInv => WindowKeysAreHeld
  BY TargetedAssumption DEF TargetedInv, HandoverInv, WindowInv, Tracked, WindowKeysAreHeld, Quiet, Thread
<1> QED BY <1>1, <1>2, <1>3, TargetedInvariant, PTL DEF Spec

(***************************************************************************)
(* The ledger holds only keys that are down or were fired by the Live      *)
(* screen, if a switch key comes alone in its report.                      *)
(***************************************************************************)
THEOREM HeldKeysStayDown ==
  ASSUME SwitchAlone
  PROVE  Spec => []HeldKeysAreDown
<1>1. Init => PhaseInv /\ DownInv
  BY DEF Init, PhaseInv, DownInv, InVanish, InPress, Away, Thread
<1>2. TypeOK /\ PhaseInv /\ DownInv /\ [Next]_vars => PhaseInv' /\ DownInv'
  BY PhaseStep, DownStep
<1>3. TypeOK /\ PhaseInv /\ DownInv => HeldKeysAreDown
  BY DEF PhaseInv, DownInv, InVanish, InPress, Away, HeldKeysAreDown, Quiet, Thread
<1>4. TargetedInv => TypeOK
  BY DEF TargetedInv
<1> QED BY <1>1, <1>2, <1>3, <1>4, TargetedInvariant, PTL DEF Spec

(***************************************************************************)
(* Both sides of the ledger, under the same condition.                     *)
(***************************************************************************)
THEOREM LedgerStaysTrue ==
  ASSUME SwitchAlone
  PROVE  Spec => []LedgerIsTrue
<1>1. Spec => []WindowKeysAreHeld /\ []HeldKeysAreDown
  BY WindowKeysStayHeld, HeldKeysStayDown
<1>2. WindowKeysAreHeld /\ HeldKeysAreDown => LedgerIsTrue
  BY DEF LedgerIsTrue
<1> QED BY <1>1, <1>2, PTL
==============================================================================
