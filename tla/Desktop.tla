------------------------------ MODULE Desktop ------------------------------
(***************************************************************************)
(* What the main thread does with the desktop between two reports: the     *)
(* timer that follows the window in the foreground, and the menu of the    *)
(* tray icon.  The menu is modal: TrackPopupMenu dispatches the messages   *)
(* of the window, so that the timer ticks and the operations of the        *)
(* dashboard run while the user reads the menu.                            *)
(***************************************************************************)
EXTENDS WindowTargets, Sequences

CONSTANTS
  Name,       \* profiles, 0 is "basic"; the order of g_profiles is that of the numbers
  Target,     \* the targets the dashboard gives to profiles
  Kind,       \* the windows that other programs open
  PartsOf     \* per executable, the names that are a part of its own

Basic == 0
None == -1
Own == -2             \* the message window of KeySidekick
OwnExe == "sidekick"  \* named by no profile

ASSUME DesktopAssumption ==
  /\ Name \subseteq Nat /\ Basic \in Name
  /\ Target \subseteq Targets /\ Kind \subseteq Windows
  /\ PartsOf \in [Exe -> SUBSET Exe] /\ \A e \in Exe : e \in PartsOf[e]
  /\ OwnExe \notin Exe

VARIABLES
  windows,                \* the windows of other programs
  foreground,             \* GetForegroundWindow()
  g_lastAutoSwitchHwnd, g_lastAutoSwitchCheck,
  g_profiles,             \* the target of every profile in targeted mode; basic has none
  g_activeProfile,
  menu                    \* the menu of the tray: its profiles, open or not, whether the
                          \* profiles changed meanwhile, and the label that was clicked

desktopVars == <<windows, foreground, g_lastAutoSwitchHwnd, g_lastAutoSwitchCheck, g_profiles,
          g_activeProfile, menu>>

Closed(label) == [open |-> FALSE, items |-> <<>>, changed |-> FALSE, clicked |-> label]

Names == DOMAIN g_profiles \cup {Basic}

(* A map is walked through in the order of its names. *)
InOrder(names) ==
  LET n == Cardinality(names) IN
  CHOOSE s \in [1..n -> names] : \A i, j \in 1..n : i < j => s[i] < s[j]

DesktopInit ==
  /\ windows = [h \in {} |-> None]
  /\ foreground = None
  /\ g_lastAutoSwitchHwnd = None /\ g_lastAutoSwitchCheck = Empty
  /\ g_profiles = [p \in {} |-> None]
  /\ g_activeProfile = Basic
  /\ menu = Closed(None)
-----------------------------------------------------------------------------
(* The other programs, and the user.  A handle carries a count that keeps  *)
(* it from coming back at once.                                            *)
WindowOpens(h) ==
  /\ h \notin DOMAIN windows /\ h # g_lastAutoSwitchHwnd
  /\ \E k \in Kind : windows' = [i \in DOMAIN windows \cup {h} |-> IF i = h THEN k ELSE windows[i]]
  /\ UNCHANGED <<foreground, g_lastAutoSwitchHwnd, g_lastAutoSwitchCheck, g_profiles,
                 g_activeProfile, menu>>

WindowCloses(h) ==
  /\ h \in DOMAIN windows
  /\ windows' = [i \in DOMAIN windows \ {h} |-> windows[i]]
  /\ foreground' = IF foreground = h THEN None ELSE foreground
  /\ UNCHANGED <<g_lastAutoSwitchHwnd, g_lastAutoSwitchCheck, g_profiles, g_activeProfile, menu>>

Focus(h) ==
  /\ h \in DOMAIN windows /\ "hidden" \notin windows[h].traits
  /\ ~ menu.open
  /\ foreground' = h
  /\ UNCHANGED <<windows, g_lastAutoSwitchHwnd, g_lastAutoSwitchCheck, g_profiles,
                 g_activeProfile, menu>>

(* Operations of the dashboard, as far as they matter here: the profiles   *)
(* and their targets change, and the profile that the domain holds to be   *)
(* active (ProfileStore tells which) becomes active.                       *)
ProjectDomainToRuntime(profiles) ==
  /\ g_profiles' = profiles
  /\ g_activeProfile' \in DOMAIN profiles \cup {Basic}
  /\ menu' = [menu EXCEPT !.changed = @ \/ (menu.open /\ DOMAIN profiles # DOMAIN g_profiles)]
  /\ UNCHANGED <<windows, foreground, g_lastAutoSwitchHwnd, g_lastAutoSwitchCheck>>

SetProfile(p) ==
  \E t \in Target :
    ProjectDomainToRuntime([q \in DOMAIN g_profiles \cup {p} |->
                              IF q = p THEN t ELSE g_profiles[q]])

DeleteProfile(p) ==
  /\ p \in DOMAIN g_profiles
  /\ ProjectDomainToRuntime([q \in DOMAIN g_profiles \ {p} |-> g_profiles[q]])

(* SwitchProfileByName, and the actions !switch and !toggle of a key. *)
SwitchProfileByName(p) ==
  /\ p \in Names
  /\ g_activeProfile' = p
  /\ UNCHANGED <<windows, foreground, g_lastAutoSwitchHwnd, g_lastAutoSwitchCheck, g_profiles,
                 menu>>
-----------------------------------------------------------------------------
(* The name of the process in the foreground; Empty is one no one may read. *)
ForegroundExe ==
  IF foreground = Own THEN OwnExe
  ELSE IF foreground = None THEN Empty
  ELSE ProcessName(windows[foreground])

(* The targeted profiles that name the executable, or a part of its name. *)
Named(exe) ==
  IF exe \notin Exe THEN {}
  ELSE {p \in DOMAIN g_profiles : g_profiles[p].exe \in PartsOf[exe]}

First(S) == CHOOSE p \in S : \A q \in S : p <= q

(* Mutant: only basic is left for another profile. *)
AutoSwitchFromBasic ==
  /\ foreground \notin {None, g_lastAutoSwitchHwnd}
  /\ g_lastAutoSwitchHwnd' = foreground
  /\ LET others == Named(ForegroundExe) IN
       \/ UNCHANGED <<g_lastAutoSwitchCheck, g_activeProfile>>
       \/ /\ ForegroundExe \notin {Empty, g_lastAutoSwitchCheck}
          /\ g_lastAutoSwitchCheck' = ForegroundExe
          /\ g_activeProfile' = IF others = {} \/ g_activeProfile # Basic
                                  THEN g_activeProfile ELSE First(others)
  /\ UNCHANGED <<windows, foreground, g_profiles, menu>>

(* Every second.  OpenProcess may fail for any process at any moment, and  *)
(* the window is remembered also then.  The active profile is passed over, *)
(* not kept, when another one names the executable too.                    *)
AutoSwitchOnForegroundChange ==
  /\ foreground \notin {None, g_lastAutoSwitchHwnd}
  /\ g_lastAutoSwitchHwnd' = foreground
  /\ LET others == Named(ForegroundExe) \ {g_activeProfile} IN
       \/ UNCHANGED <<g_lastAutoSwitchCheck, g_activeProfile>>
       \/ /\ ForegroundExe \notin {Empty, g_lastAutoSwitchCheck}
          /\ g_lastAutoSwitchCheck' = ForegroundExe
          /\ g_activeProfile' = IF others = {} THEN g_activeProfile ELSE First(others)
  /\ UNCHANGED <<windows, foreground, g_profiles, menu>>
-----------------------------------------------------------------------------
(* BuildTrayMenu and TrackPopupMenu: the profiles in their order, the n-th *)
(* with the command 1000 + n, and the message window in front.             *)
BuildTrayMenu ==
  /\ ~ menu.open
  /\ menu' = [open |-> TRUE, items |-> InOrder(Names), changed |-> FALSE,
              clicked |-> None]
  /\ foreground' = Own
  /\ UNCHANGED <<windows, g_lastAutoSwitchHwnd, g_lastAutoSwitchCheck, g_profiles,
                 g_activeProfile>>

(* The menu is gone, and the window behind it, or none, is in front again. *)
MenuCloses(label) ==
  /\ menu.open
  /\ menu' = Closed(label)
  /\ foreground' \in {None} \cup {h \in DOMAIN windows : "hidden" \notin windows[h].traits}
  /\ UNCHANGED <<windows, g_lastAutoSwitchHwnd, g_lastAutoSwitchCheck, g_profiles>>

(* Dismissed, or one of the commands that change no profile. *)
DismissMenu == MenuCloses(None) /\ UNCHANGED g_activeProfile

(* Mutant: the commands count from one. *)
PickNext(i) ==
  LET profiles == InOrder(Names) IN
    /\ i \in DOMAIN menu.items
    /\ MenuCloses(menu.items[i])
    /\ g_activeProfile' = IF i < Len(profiles) THEN profiles[i + 1] ELSE g_activeProfile

(* The command is looked up in the profiles of now.  std::advance past     *)
(* their end is undefined: any profile, or none.                           *)
PickProfile(i) ==
  LET profiles == InOrder(Names) IN
    /\ i \in DOMAIN menu.items
    /\ MenuCloses(menu.items[i])
    /\ \/ i <= Len(profiles) /\ g_activeProfile' = profiles[i]
       \/ i > Len(profiles) /\ g_activeProfile' \in Names

DesktopNext ==
  \/ \E h \in Handle : WindowOpens(h) \/ WindowCloses(h) \/ Focus(h)
  \/ \E p \in Name \ {Basic} : SetProfile(p) \/ DeleteProfile(p)
  \/ \E p \in Name : SwitchProfileByName(p)
  \/ AutoSwitchOnForegroundChange
  \/ BuildTrayMenu
  \/ DismissMenu
  \/ \E i \in 1..Cardinality(Name) : PickProfile(i)

DesktopSpec == DesktopInit /\ [][DesktopNext]_desktopVars

(* The timer ticks as long as the main thread dispatches messages.         *)
DesktopFairSpec == DesktopSpec /\ WF_desktopVars(AutoSwitchOnForegroundChange)
-----------------------------------------------------------------------------
DesktopTypeOK ==
  /\ DOMAIN windows \subseteq Handle /\ \A h \in DOMAIN windows : windows[h] \in Kind
  /\ foreground \in DOMAIN windows \cup {None, Own}
  /\ g_lastAutoSwitchHwnd \in Handle \cup {None, Own}
  /\ g_lastAutoSwitchCheck \in Exe \cup {Empty, OwnExe}
  /\ DOMAIN g_profiles \subseteq Name \ {Basic}
  /\ \A p \in DOMAIN g_profiles : g_profiles[p] \in Target
  /\ g_activeProfile \in Names
  /\ menu \in [open : BOOLEAN, items : Seq(Name), changed : BOOLEAN, clicked : Name \cup {None}]

(* The windows a target means, as a user would say it. *)
Meant(t) ==
  {h \in DOMAIN windows :
     /\ "hidden" \notin windows[h].traits
     /\ windows[h].class = t.class
     /\ t.exe \in {Empty, ProcessName(windows[h])}
     /\ t.path \in {Empty, windows[h].path}}

(***************************************************************************)
(* The keys of a profile reach the window it means whenever there is one,  *)
(* the same one for every key; and when there is none they reach no other  *)
(* program, if the target names an executable.  (A target that has only a  *)
(* class, or a class and a path, falls back to any window of the class.)   *)
(* An action that names the profile finds the same window, if its name is  *)
(* the class of no window.                                                 *)
(***************************************************************************)
KeysReachTheTarget ==
  /\ DesktopTypeOK
  /\ \A p \in DOMAIN g_profiles :
       LET t == g_profiles[p]
           found == FindProfileTarget(windows, t)
       IN  /\ Meant(t) # {} => Cardinality(found) = 1
           /\ Meant(t) # {} \/ t.exe # Empty => found \subseteq Meant(t)
           /\ Meant(t) # {} => FindNamedApp(windows, Empty, t) = found

(***************************************************************************)
(* No profile becomes active that nobody meant: the timer takes one that   *)
(* names the program in front, and leaves the active one alone if it is    *)
(* the only one that does; the menu takes the profile that was clicked,    *)
(* unless the dashboard added or removed profiles while it was open.       *)
(***************************************************************************)
SwitchesAreMeant ==
  [][/\ (g_lastAutoSwitchHwnd' # g_lastAutoSwitchHwnd /\ g_activeProfile' # g_activeProfile)
          => \E h \in DOMAIN windows :
               /\ foreground = h
               /\ g_activeProfile' \in DOMAIN g_profiles
               /\ g_profiles[g_activeProfile'].exe \in PartsOf[ProcessName(windows[h])]
     /\ (menu.open /\ ~ menu'.open /\ menu'.clicked # None /\ ~ menu.changed)
          => g_activeProfile' = menu'.clicked]_desktopVars

(***************************************************************************)
(* The keyboard follows the user to another program: when the timer has    *)
(* not seen the window in front, its program is not the last one it saw,   *)
(* and one profile names it, that profile becomes active, unless the user  *)
(* leaves the window, the profiles change, or the one look of the timer    *)
(* could not read the process.                                             *)
(***************************************************************************)
Unseen(h, p) ==
  /\ foreground = h /\ h # g_lastAutoSwitchHwnd
  /\ Named(ForegroundExe) = {p} /\ ForegroundExe # g_lastAutoSwitchCheck
Departed(h, p) == foreground # h \/ Named(ForegroundExe) # {p}
Unread(h) == g_lastAutoSwitchHwnd = h /\ g_lastAutoSwitchCheck # ForegroundExe

FocusIsFollowed ==
  \A p \in Name \ {Basic}, h \in Handle :
    Unseen(h, p) ~> (g_activeProfile = p \/ Departed(h, p) \/ Unread(h))

(***************************************************************************)
(* What the code does not give: that the timer tries a process again which *)
(* it could not read, and that the menu activates the profile clicked also *)
(* when the profiles changed under it.                                     *)
(***************************************************************************)
FocusIsAlwaysFollowed ==
  \A p \in Name \ {Basic}, h \in Handle :
    Unseen(h, p) ~> (g_activeProfile = p \/ Departed(h, p))

MenuTakesTheClicked ==
  [][menu.open /\ ~ menu'.open /\ menu'.clicked # None
       => g_activeProfile' = menu'.clicked]_desktopVars
=============================================================================
