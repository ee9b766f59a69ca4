------------------------- MODULE BasicRoutingProofs -------------------------
(***************************************************************************)
(* Theorems about BasicRouting, for every set of usages, profiles, workers *)
(* and report edges.  The inductive invariants are LedgerInv and HeldInv.  *)
(***************************************************************************)
EXTENDS BasicRouting, TLAPS

(***************************************************************************)
(* NextActive and NextBefore stay within the profiles of g_profiles.       *)
(***************************************************************************)
LEMMA NextProfileType ==
  ASSUME NEW a \in Action, NEW cur \in Profile, NEW before \in Profile \cup {NoProfile}
  PROVE  /\ NextActive(a, cur, before) \in Profile
         /\ NextBefore(a, cur, before) \in Profile \cup {NoProfile}
  BY RoutingAssumption DEF NextActive, NextBefore, Action

(***************************************************************************)
(* Every step of the routing code keeps every variable within its type.    *)
(***************************************************************************)
LEMMA TypeStep == TypeOK /\ [Next]_vars => TypeOK'
<1> SUFFICES ASSUME TypeOK, [Next]_vars PROVE TypeOK'
  OBVIOUS
<1> USE RoutingAssumption, ThreadAssumption DEF TypeOK, Goto, Thread,
        profile, local, control, system, window
<1>1. CASE UNCHANGED vars
  BY <1>1 DEF vars
<1>2. ASSUME NEW e \in EdgeSet, BeginReport(e) PROVE TypeOK'
  BY <1>2 DEF BeginReport, Key
<1>3. CASE Gate
  BY <1>3 DEF Gate
<1>4. ASSUME NEW u \in todo \cap Usage, NEW a \in KeyMap[prof][u], DispatchEdge(u, a)
      PROVE  TypeOK'
  <2>1. a \in Action
    OBVIOUS
  <2>2. /\ NextActive(a, active, beforeToggle) \in Profile
        /\ NextBefore(a, active, beforeToggle) \in Profile \cup {NoProfile}
    BY <2>1, NextProfileType
  <2>3. QED
    BY <1>4, <2>2 DEF DispatchEdge, SetActive
<1>5. CASE EndDispatch
  BY <1>5 DEF EndDispatch, Edges
<1>6. CASE CheckUp
  BY <1>6 DEF CheckUp, NextKeys
<1>7. CASE SendUp
  BY <1>7 DEF SendUp
<1>8. CASE SendDown
  BY <1>8 DEF SendDown, NextKeys
<1>9. CASE Record
  BY <1>9 DEF Record
<1>10. CASE EndReport
  BY <1>10 DEF EndReport
<1>11. ASSUME NEW p \in Profile, SwitchProfile(p) PROVE TypeOK'
  BY <1>11 DEF SwitchProfile, SetActive
<1>12. ASSUME NEW p \in Editable, NEW m \in ProfileMode, DashSetProfile(p, m) PROVE TypeOK'
  BY <1>12 DEF DashSetProfile
<1>13. ASSUME NEW b \in {"idle", "closed", "stopped"}, ReleaseEverything(b) PROVE TypeOK'
  BY <1>13 DEF ReleaseEverything
<1>14. ASSUME NEW t \in Thread, ReleaseStep(t) PROVE TypeOK'
  <2>1. CASE RelSnapshot(t)
    BY <2>1 DEF RelSnapshot
  <2>2. CASE RelSend(t)
    BY <2>2 DEF RelSend
  <2>3. CASE RelRecord(t)
    BY <2>3 DEF RelRecord
  <2>4. QED
    BY <1>14, <2>1, <2>2, <2>3 DEF ReleaseStep
<1>15. CASE RelReturn
  BY <1>15 DEF RelReturn
<1>16. ASSUME NEW t \in Worker, WorkerNext(t) PROVE TypeOK'
  <2>1. CASE WorkerCall(t)
    BY <2>1 DEF WorkerCall
  <2>2. CASE WorkerReturn(t)
    BY <2>2 DEF WorkerReturn
  <2>3. CASE StoreListening(t)
    BY <2>3 DEF StoreListening
  <2>4. CASE StoreTick(t)
    BY <2>4 DEF StoreTick
  <2>5. QED
    BY <1>14, <1>16, <2>1, <2>2, <2>3, <2>4 DEF WorkerNext
<1>17. CASE FifteenSecondsPass
  BY <1>17 DEF FifteenSecondsPass
<1>18. CASE Stopped
  BY <1>1, <1>18 DEF Stopped
<1>19. ASSUME NEW a \in Fired, FireAction(a) PROVE TypeOK'
  <2>1. a \in Action
    BY RoutingAssumption
  <2>2. /\ NextActive(a, active, beforeToggle) \in Profile
        /\ NextBefore(a, active, beforeToggle) \in Profile \cup {NoProfile}
    BY <2>1, NextProfileType DEF LedgerInv, TypeOK
  <2>3. QED
    BY <1>19, <2>2 DEF FireAction, SetActive
<1> QED
  BY <1>1, <1>2, <1>3, <1>4, <1>5, <1>6, <1>7, <1>8, <1>9, <1>10, <1>11, <1>12,
     <1>13, <1>14, <1>15, <1>16, <1>17, <1>18, <1>19
  DEF Next, MainNext, ReportStep, Dispatch

THEOREM TypeCorrect == Spec => []TypeOK
<1>1. Init => TypeOK
  BY RoutingAssumption DEF Init, TypeOK, Thread
<1>2. QED
  BY <1>1, TypeStep, PTL DEF Spec
-----------------------------------------------------------------------------
(***************************************************************************)
(* LedgerInv is inductive.  A step of the main thread that is not part of  *)
(* a release changes the ledger of one key; a step of a release in any     *)
(* thread only takes keys out.                                             *)
(***************************************************************************)
LEMMA LedgerStep == LedgerInv /\ [Next]_vars => LedgerInv'
<1> SUFFICES ASSUME LedgerInv, [Next]_vars
             PROVE  NoLostKey' /\ UpsAreUp' /\ MainReleaseCovers'
  BY TypeStep DEF LedgerInv
<1> USE ThreadAssumption DEF LedgerInv, TypeOK, NoLostKey, UpsAreUp, MainReleaseCovers,
        Entering, Goto, Thread, profile, local, control, system, window
<1>1. CASE UNCHANGED vars
  BY <1>1 DEF vars
<1>2. ASSUME NEW e \in EdgeSet, BeginReport(e)
      PROVE  NoLostKey' /\ UpsAreUp' /\ MainReleaseCovers'
  BY <1>2 DEF BeginReport
<1>3. CASE Gate
  BY <1>3 DEF Gate
<1>4. ASSUME NEW u \in todo \cap Usage, NEW a \in KeyMap[prof][u], DispatchEdge(u, a)
      PROVE  NoLostKey' /\ UpsAreUp' /\ MainReleaseCovers'
  BY <1>4 DEF DispatchEdge, SetActive
<1>5. CASE EndDispatch
  BY <1>5 DEF EndDispatch, Edges
<1>6. CASE CheckUp
  BY <1>6 DEF CheckUp
<1>7. CASE SendUp
  BY <1>7 DEF SendUp
<1>8. CASE SendDown
  BY <1>8 DEF SendDown
<1>9. CASE Record
  BY <1>9 DEF Record
<1>10. CASE EndReport
  BY <1>10 DEF EndReport
<1>11. ASSUME NEW p \in Profile, SwitchProfile(p)
       PROVE  NoLostKey' /\ UpsAreUp' /\ MainReleaseCovers'
  BY <1>11 DEF SwitchProfile, SetActive
<1>12. ASSUME NEW p \in Editable, NEW m \in ProfileMode, DashSetProfile(p, m)
       PROVE  NoLostKey' /\ UpsAreUp' /\ MainReleaseCovers'
  BY <1>12 DEF DashSetProfile
<1>13. ASSUME NEW b \in {"idle", "closed", "stopped"}, ReleaseEverything(b)
       PROVE  NoLostKey' /\ UpsAreUp' /\ MainReleaseCovers'
  BY <1>13 DEF ReleaseEverything
<1>14. ASSUME NEW t \in Thread, ReleaseStep(t)
       PROVE  NoLostKey' /\ UpsAreUp' /\ MainReleaseCovers'
  <2>1. CASE RelSnapshot(t)
    BY <2>1 DEF RelSnapshot
  <2>2. CASE RelSend(t)
    BY <2>2 DEF RelSend
  <2>3. CASE RelRecord(t)
    BY <2>3 DEF RelRecord
  <2>4. QED
    BY <1>14, <2>1, <2>2, <2>3 DEF ReleaseStep
<1>15. CASE RelReturn
  BY <1>15 DEF RelReturn
<1>16. ASSUME NEW t \in Worker, WorkerNext(t)
       PROVE  NoLostKey' /\ UpsAreUp' /\ MainReleaseCovers'
  BY <1>14, <1>16 DEF WorkerNext, WorkerCall, WorkerReturn, StoreListening, StoreTick
<1>17. CASE FifteenSecondsPass
  BY <1>17 DEF FifteenSecondsPass
<1>18. CASE Stopped
  BY <1>1, <1>18 DEF Stopped
<1>19. ASSUME NEW a \in Fired, FireAction(a)
       PROVE  NoLostKey' /\ UpsAreUp' /\ MainReleaseCovers'
  <2>1. a \in Action
    BY RoutingAssumption
  <2>2. /\ NextActive(a, active, beforeToggle) \in Profile
        /\ NextBefore(a, active, beforeToggle) \in Profile \cup {NoProfile}
    BY <2>1, NextProfileType DEF LedgerInv, TypeOK
  <2>3. QED
    BY <1>19, <2>2 DEF FireAction, SetActive
<1> QED
  BY <1>1, <1>2, <1>3, <1>4, <1>5, <1>6, <1>7, <1>8, <1>9, <1>10, <1>11, <1>12,
     <1>13, <1>14, <1>15, <1>16, <1>17, <1>18, <1>19
  DEF Next, MainNext, ReportStep, Dispatch

LEMMA LedgerInvariant == Spec => []LedgerInv
<1>1. Init => LedgerInv
  BY RoutingAssumption
  DEF Init, LedgerInv, TypeOK, NoLostKey, UpsAreUp, MainReleaseCovers, Entering, Thread
<1>2. QED
  BY <1>1, LedgerStep, PTL DEF Spec

(***************************************************************************)
(* A key that SendInput pressed is never forgotten by the ledger, however  *)
(* many workers release keys meanwhile, except a raced one.                *)
(***************************************************************************)
THEOREM NoKeyIsLost == Spec => []NoLostKey
<1>1. LedgerInv => NoLostKey
  BY DEF LedgerInv
<1>2. QED
  BY <1>1, LedgerInvariant, PTL

(***************************************************************************)
(* At a clean exit every injected key is up, except a raced one.           *)
(***************************************************************************)
THEOREM ExitReleasesEverything == Spec => []NothingLeftAtExit
<1>1. LedgerInv => NothingLeftAtExit
  BY DEF LedgerInv, NoLostKey, MainReleaseCovers, NothingLeftAtExit, Entering
<1>2. QED
  BY <1>1, LedgerInvariant, PTL
-----------------------------------------------------------------------------
(***************************************************************************)
(* A worker leaves the main thread where it is, and takes keys away.       *)
(***************************************************************************)
LEMMA WorkerTakesAway ==
  ASSUME LedgerInv, NEW t \in Worker, WorkerNext(t)
  PROVE  /\ UNCHANGED <<profile, prev, local, back, raced, missed>>
         /\ pc'[Main] = pc[Main] /\ op'[Main] = op[Main]
         /\ osDown' \subseteq osDown /\ owned' \subseteq owned
<1> USE ThreadAssumption DEF LedgerInv, TypeOK, Goto, Thread, profile, local, control, system, window
<1>1. CASE RelSnapshot(t)  BY <1>1 DEF RelSnapshot
<1>2. CASE RelSend(t)  BY <1>2 DEF RelSend
<1>3. CASE RelRecord(t)  BY <1>3 DEF RelRecord
<1>4. CASE WorkerCall(t)  BY <1>4 DEF WorkerCall
<1>5. CASE WorkerReturn(t)  BY <1>5 DEF WorkerReturn
<1>6. CASE StoreListening(t)  BY <1>6 DEF StoreListening
<1>7. CASE StoreTick(t)  BY <1>7 DEF StoreTick
<1> QED BY <1>1, <1>2, <1>3, <1>4, <1>5, <1>6, <1>7 DEF WorkerNext, ReleaseStep

(***************************************************************************)
(* A report that switches the profile has no other edge; when it is        *)
(* dispatched, none is left.                                               *)
(***************************************************************************)
LEMMA SwitchConsumes ==
  ASSUME SwitchAlone, LedgerInv, DispatchInv,
         NEW u \in todo \cap Usage, NEW a \in KeyMap[prof][u], DispatchEdge(u, a),
         a.kind \in SwitchKind
  PROVE  Edges = {u} /\ Edges \subseteq consumed' /\ active' \in Profile
<1>1. u \in SwitchUsage
  BY RoutingAssumption DEF SwitchUsage, LedgerInv, TypeOK
<1>2. u \in Edges /\ Edges \in EdgeSet
  BY DEF DispatchEdge, DispatchInv, Dispatching, Edges
<1>3. Edges = {u}
  BY ONLY <1>1, <1>2, SwitchAlone, u \in Usage DEF SwitchAlone
<1>4. a \in Action
  BY RoutingAssumption DEF LedgerInv, TypeOK
<1>5. active' \in Profile
  BY <1>4, NextProfileType DEF DispatchEdge, SetActive, LedgerInv, TypeOK
<1> QED
  BY <1>3, <1>5 DEF DispatchEdge, SwitchKind, Edges

(***************************************************************************)
(* Through the dispatch of a report, and between reports: what is down.    *)
(***************************************************************************)
LEMMA DownStep ==
  ASSUME SwitchAlone, LedgerInv, DispatchInv, DownInv, [Next]_vars
  PROVE  DispatchInv' /\ DownInv'
<1> USE ThreadAssumption, RoutingAssumption
    DEF LedgerInv, TypeOK, NoLostKey, UpsAreUp, MainReleaseCovers, DispatchInv, DownInv,
        Dispatching, Injecting, InRelease, Entering, Edges, Tracked, Excepted, Goto, Thread,
        profile, local, control, system, window
<1>1. CASE UNCHANGED vars
  BY <1>1 DEF vars
<1>2. ASSUME NEW e \in EdgeSet, BeginReport(e) PROVE DispatchInv' /\ DownInv'
  <2>1. (prev' \ report') \cup (report' \ prev') = e
    BY <1>2 DEF BeginReport
  <2>2. DispatchInv'
    BY <1>2, <2>1 DEF BeginReport, ProfileMode
  <2>3. DownInv'
    BY <1>2, <2>1 DEF BeginReport, ProfileMode
  <2>4. QED
    BY <2>2, <2>3
<1>3. CASE Gate
  BY <1>3 DEF Gate
<1>4. ASSUME NEW u \in todo \cap Usage, NEW a \in KeyMap[prof][u], DispatchEdge(u, a)
      PROVE  DispatchInv' /\ DownInv'
  <2>1. CASE a.kind \in SwitchKind
    <3>1. Edges = {u} /\ Edges \subseteq consumed' /\ active' \in Profile
      BY <1>4, <2>1, SwitchConsumes
    <3>2. QED
      BY <1>4, <2>1, <3>1 DEF DispatchEdge, SetActive, LeavesBasic, ProfileMode
  <2>2. CASE a.kind \notin SwitchKind
    BY <1>4, <2>2 DEF DispatchEdge
  <2>3. QED
    BY <2>1, <2>2
<1>5. CASE EndDispatch
  BY <1>5 DEF EndDispatch, ProfileMode
<1>6. CASE CheckUp
  <2>1. PICK x \in NextKeys \ report :
          /\ todo' = todo \ {x}
          /\ IF x \in owned
               THEN op' = [op EXCEPT ![Main] = x] /\ Goto(Main, "send")
               ELSE UNCHANGED <<op, pc>>
    BY <1>6 DEF CheckUp
  <2>2. pc[Main] = "inject" /\ UNCHANGED <<profile, prev, report, prof, consumed, back, system>>
    BY <1>6 DEF CheckUp
  <2>3. CASE x \in owned
    <3>1. x \in todo /\ x \in Key
      BY DEF NextKeys
    <3>2. pc'[Main] = "send" /\ op'[Main] = x
      BY <2>1, <2>3
    <3>3. mode[active] # "targeted"
      BY <2>2, <3>1
    <3>4. QED
      BY <2>1, <2>2, <3>1, <3>2, <3>3
  <2>4. CASE x \notin owned
    <3>1. x \notin Tracked
      BY <2>2, <2>4
    <3>2. QED
      BY <2>1, <2>2, <2>4, <3>1
  <2>5. QED
    BY <2>3, <2>4
<1>7. CASE SendUp
  BY <1>7 DEF SendUp
<1>8. CASE SendDown
  <2>1. NextKeys \subseteq todo
    BY DEF NextKeys
  <2>2. PICK x \in NextKeys \cap report :
          /\ todo' = todo \ {x}
          /\ op' = [op EXCEPT ![Main] = x]
          /\ osDown' = osDown \cup {x}
          /\ raced \subseteq raced'
    BY <1>8 DEF SendDown
  <2>3. mode[active] # "targeted"
    BY <1>8, <2>1, <2>2 DEF SendDown
  <2>4. QED
    BY <1>8, <2>1, <2>2, <2>3 DEF SendDown
<1>9. CASE Record
  BY <1>9 DEF Record
<1>10. CASE EndReport
  BY <1>10 DEF EndReport
<1>11. ASSUME NEW p \in Profile, SwitchProfile(p) PROVE DispatchInv' /\ DownInv'
  BY <1>11 DEF SwitchProfile, SetActive, LeavesBasic, ProfileMode
<1>12. ASSUME NEW p \in Editable, NEW m \in ProfileMode, DashSetProfile(p, m)
       PROVE  DispatchInv' /\ DownInv'
  BY <1>12 DEF DashSetProfile
<1>13. ASSUME NEW b \in {"idle", "closed", "stopped"}, ReleaseEverything(b)
       PROVE  DispatchInv' /\ DownInv'
  BY <1>13 DEF ReleaseEverything
<1>14. CASE ReleaseStep(Main)
  <2>1. CASE RelSnapshot(Main)
    BY <2>1 DEF RelSnapshot
  <2>2. CASE RelSend(Main)
    BY <2>2 DEF RelSend
  <2>3. CASE RelRecord(Main)
    BY <2>3 DEF RelRecord
  <2>4. QED
    BY <1>14, <2>1, <2>2, <2>3 DEF ReleaseStep
<1>15. CASE RelReturn
  BY <1>15 DEF RelReturn
<1>16. ASSUME NEW t \in Worker, WorkerNext(t) PROVE DispatchInv' /\ DownInv'
  BY <1>16, WorkerTakesAway
<1>17. CASE FifteenSecondsPass
  BY <1>17 DEF FifteenSecondsPass
<1>18. CASE Stopped
  BY <1>1, <1>18 DEF Stopped
<1>19. ASSUME NEW a \in Fired, FireAction(a) PROVE DispatchInv' /\ DownInv'
  <2>1. a \in Action
    BY RoutingAssumption
  <2>2. /\ NextActive(a, active, beforeToggle) \in Profile
        /\ NextBefore(a, active, beforeToggle) \in Profile \cup {NoProfile}
    BY <2>1, NextProfileType DEF LedgerInv, TypeOK
  <2>3. QED
    BY <1>19, <2>2 DEF FireAction, SetActive, LeavesBasic, ProfileMode
<1> QED
  BY <1>1, <1>2, <1>3, <1>4, <1>5, <1>6, <1>7, <1>8, <1>9, <1>10, <1>11, <1>12,
     <1>13, <1>14, <1>15, <1>16, <1>17, <1>18, <1>19
  DEF Next, MainNext, ReportStep, Dispatch

(***************************************************************************)
(* The ledger against the system, through the same steps.                  *)
(***************************************************************************)
LEMMA ExactStep ==
  ASSUME LedgerInv, DispatchInv, DownInv, ExactInv, [Next]_vars
  PROVE  ExactInv'
<1> USE ThreadAssumption, RoutingAssumption
    DEF LedgerInv, TypeOK, NoLostKey, UpsAreUp, ExactInv, GoingUp,
        Injecting, Entering, Excepted, Goto, Thread,
        profile, local, control, system, window
<1>1. CASE UNCHANGED vars
  BY <1>1 DEF vars
<1>2. ASSUME NEW e \in EdgeSet, BeginReport(e) PROVE ExactInv'
  BY <1>2 DEF BeginReport
<1>3. CASE Gate
  BY <1>3 DEF Gate
<1>4. ASSUME NEW u \in todo \cap Usage, NEW a \in KeyMap[prof][u], DispatchEdge(u, a)
      PROVE  ExactInv'
  BY <1>4 DEF DispatchEdge, SetActive
<1>5. CASE EndDispatch
  BY <1>5 DEF EndDispatch, ProfileMode, Edges, DownInv, Tracked
<1>6. CASE CheckUp
  <2>1. PICK x \in NextKeys \ report :
          /\ todo' = todo \ {x}
          /\ IF x \in owned
               THEN op' = [op EXCEPT ![Main] = x] /\ Goto(Main, "send")
               ELSE UNCHANGED <<op, pc>>
    BY <1>6 DEF CheckUp
  <2>2. pc[Main] = "inject" /\ UNCHANGED <<report, toRelease, system>>
    BY <1>6 DEF CheckUp
  <2>3. CASE x \in owned
    <3>1. pc'[Main] = "send" /\ op'[Main] = x
      BY <2>1, <2>3
    <3>2. GoingUp' = GoingUp
      BY <2>1, <2>2, <2>3
    <3>3. QED
      BY <2>1, <2>2, <3>1, <3>2
  <2>4. CASE x \notin owned
    BY <2>1, <2>2, <2>4
  <2>5. QED
    BY <2>3, <2>4
<1>7. CASE SendUp
  BY <1>7 DEF SendUp
<1>8. CASE SendDown
  <2>1. NextKeys \subseteq todo
    BY DEF NextKeys
  <2>2. PICK x \in NextKeys \cap report :
          /\ todo' = todo \ {x}
          /\ op' = [op EXCEPT ![Main] = x]
          /\ osDown' = osDown \cup {x}
          /\ raced' = IF \E t \in Worker : x \in toRelease[t] THEN raced \cup {x} ELSE raced
    BY <1>8 DEF SendDown
  <2>3. x \in owned => x \in Excepted'
    BY <1>8, <2>1, <2>2 DEF SendDown
  <2>4. QED
    BY <1>8, <2>1, <2>2, <2>3 DEF SendDown
<1>9. CASE Record
  BY <1>9 DEF Record
<1>10. CASE EndReport
  BY <1>10 DEF EndReport
<1>11. ASSUME NEW p \in Profile, SwitchProfile(p) PROVE ExactInv'
  BY <1>11 DEF SwitchProfile, SetActive
<1>12. ASSUME NEW p \in Editable, NEW m \in ProfileMode, DashSetProfile(p, m) PROVE ExactInv'
  BY <1>12 DEF DashSetProfile
<1>13. ASSUME NEW b \in {"idle", "closed", "stopped"}, ReleaseEverything(b) PROVE ExactInv'
  BY <1>13 DEF ReleaseEverything
<1>14. ASSUME NEW t \in Thread, ReleaseStep(t) PROVE ExactInv'
  <2>1. CASE RelSnapshot(t)
    BY <2>1 DEF RelSnapshot
  <2>2. CASE RelSend(t)
    BY <2>2 DEF RelSend
  <2>3. CASE RelRecord(t)
    BY <2>3 DEF RelRecord
  <2>4. QED
    BY <1>14, <2>1, <2>2, <2>3 DEF ReleaseStep
<1>15. CASE RelReturn
  BY <1>15 DEF RelReturn
<1>16. ASSUME NEW t \in Worker, WorkerCall(t) \/ WorkerReturn(t) \/ StoreListening(t) \/ StoreTick(t)
       PROVE  ExactInv'
  <2>1. /\ UNCHANGED <<local, op, toRelease, system>> /\ pc[t] # "relRecord"
        /\ \E label \in {"idle", "release", "listen", "tick"} : Goto(t, label)
    BY <1>16 DEF WorkerCall, WorkerReturn, StoreListening, StoreTick
  <2>2. PICK label \in {"idle", "release", "listen", "tick"} : Goto(t, label)
    BY <2>1
  <2>3. pc'[Main] = pc[Main] /\ \A u \in Thread : pc'[u] = "relRecord" <=> pc[u] = "relRecord"
    BY <2>1, <2>2
  <2>4. GoingUp' = GoingUp
    BY <2>1, <2>3
  <2>5. QED
    BY <2>1, <2>3, <2>4
<1>17. CASE FifteenSecondsPass
  BY <1>17 DEF FifteenSecondsPass
<1>18. CASE Stopped
  BY <1>1, <1>18 DEF Stopped
<1>19. ASSUME NEW a \in Fired, FireAction(a) PROVE ExactInv'
  BY <1>19 DEF FireAction, SetActive
<1> QED
  BY <1>1, <1>2, <1>3, <1>4, <1>5, <1>6, <1>7, <1>8, <1>9, <1>10, <1>11, <1>12,
     <1>13, <1>14, <1>15, <1>16, <1>17, <1>18, <1>19
  DEF Next, MainNext, WorkerNext, ReportStep, Dispatch

LEMMA HeldInvariant ==
  ASSUME SwitchAlone
  PROVE  Spec => []HeldInv
<1>1. Init => HeldInv
  BY RoutingAssumption
  DEF Init, HeldInv, DispatchInv, DownInv, ExactInv, Dispatching, Injecting, InRelease, Entering,
      GoingUp, Tracked, Excepted, Thread
<1>2. LedgerInv /\ HeldInv /\ [Next]_vars => HeldInv'
  BY DownStep, ExactStep DEF HeldInv
<1>3. QED
  BY <1>1, <1>2, LedgerInvariant, PTL DEF Spec

(***************************************************************************)
(* Whatever workers release and the dashboard edits meanwhile, no injected *)
(* key outlives the press that caused it or the basic profile that         *)
(* injected it, and the ledger has the keys that are down; except for keys *)
(* that were raced or missed.                                              *)
(***************************************************************************)
THEOREM NoKeySticks ==
  ASSUME SwitchAlone
  PROVE  Spec => [](DownKeysAreHeld /\ LedgerIsExact)
<1>1. LedgerInv /\ HeldInv => DownKeysAreHeld /\ LedgerIsExact
  <2> SUFFICES ASSUME LedgerInv, HeldInv, Quiet PROVE DownKeysAreHeld /\ LedgerIsExact
    BY DEF DownKeysAreHeld, LedgerIsExact
  <2>1. pc[Main] \in {"idle", "stopped"} /\ \A t \in Thread : pc[t] # "relRecord"
    BY DEF Quiet, Thread
  <2>2. DownKeysAreHeld
    BY <2>1 DEF DownKeysAreHeld, HeldInv, DownInv, Injecting, InRelease
  <2>3. LedgerIsExact
    BY <2>1 DEF LedgerIsExact, LedgerInv, NoLostKey, Entering, HeldInv, ExactInv, GoingUp, Excepted
  <2> QED BY <2>2, <2>3
<1>2. QED
  BY <1>1, LedgerInvariant, HeldInvariant, PTL

(***************************************************************************)
(* Keys are raced and missed only through workers and edits of a mode:     *)
(* without those nothing is excepted.                                      *)
(***************************************************************************)
THEOREM NothingIsExcepted ==
  ASSUME Worker = {}, NoEdits
  PROVE  Spec => [](Excepted = {})
<1> DEFINE Inv == Excepted = {} /\ ~ listening
<1>1. Init => Inv
  BY DEF Init, Excepted
<1>2. Inv /\ [Next]_vars => Inv'
  <2> SUFFICES ASSUME Inv, [Next]_vars PROVE Inv'  OBVIOUS
  <2> USE DEF Excepted, profile, local, control, system, window
  <2>1. CASE UNCHANGED vars  BY <2>1 DEF vars
  <2>2. CASE ReportStep
    <3>1. CASE Gate  BY <3>1 DEF Gate
    <3>2. CASE Dispatch  BY <3>2 DEF Dispatch, DispatchEdge
    <3>3. CASE SendDown  BY <3>3 DEF SendDown
    <3>4. CASE EndDispatch \/ CheckUp \/ SendUp \/ Record \/ EndReport
      BY <3>4 DEF EndDispatch, CheckUp, SendUp, Record, EndReport
    <3> QED BY <2>2, <3>1, <3>2, <3>3, <3>4 DEF ReportStep
  <2>3. CASE ReleaseStep(Main) \/ RelReturn
    BY <2>3 DEF ReleaseStep, RelSnapshot, RelSend, RelRecord, RelReturn
  <2>4. ASSUME NEW e \in EdgeSet, BeginReport(e) PROVE Inv'  BY <2>4 DEF BeginReport
  <2>5. ASSUME NEW p \in Profile, SwitchProfile(p) PROVE Inv'  BY <2>5 DEF SwitchProfile
  <2>6. ASSUME NEW a \in Fired, FireAction(a) PROVE Inv'  BY <2>6 DEF FireAction
  <2>7. ASSUME NEW b \in {"idle", "closed", "stopped"}, ReleaseEverything(b) PROVE Inv'
    BY <2>7 DEF ReleaseEverything
  <2>8. CASE FifteenSecondsPass  BY <2>8 DEF FifteenSecondsPass
  <2>9. CASE Stopped  BY <2>1, <2>9 DEF Stopped
  <2> QED BY <2>1, <2>2, <2>3, <2>4, <2>5, <2>6, <2>7, <2>8, <2>9 DEF Next, MainNext, NoEdits
<1> QED BY <1>1, <1>2, PTL DEF Spec
==============================================================================
