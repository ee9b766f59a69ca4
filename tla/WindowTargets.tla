---------------------------- MODULE WindowTargets ----------------------------
(***************************************************************************)
(* keysidekick::windows_targets and its callers: which window the keys of  *)
(* a profile go to.  Upper and lower case are not told apart anywhere, so  *)
(* a class, an executable or a path is one value; the window with the      *)
(* lower handle is the smaller number.                                     *)
(***************************************************************************)
EXTENDS Integers, FiniteSets

CONSTANTS
  Class, Path,
  Exe,       \* the names of executables, the last part of a path
  ExeOf,     \* FileNameFromPath
  Handle     \* HWND, of top-level windows

Empty == "empty"  \* the empty string

ASSUME TargetsAssumption ==
  /\ Handle \subseteq Nat
  /\ ExeOf \in [Path -> Exe]
  /\ Empty \notin Class \cup Path \cup Exe

(* What speaks against a window, and what a WindowFilterPolicy excludes. *)
Trait == {"hidden", "untitled", "tool", "shell"}

(* A window as EnumerateWindowCallback sees it: without a path when its    *)
(* process cannot be opened.                                               *)
Windows == [class : Class, path : Path \cup {Empty}, traits : SUBSET Trait]

(* The target of a profile. *)
Targets == [class : Class \cup {Empty}, exe : Exe \cup {Empty}, path : Path \cup {Empty}]
-----------------------------------------------------------------------------
IsWindowCandidateAllowed(candidate, policy) == candidate.traits \cap policy = {}

NoMatch == -1

Score(part, points) == IF part = Empty THEN 0 ELSE points

ProcessName(candidate) == IF candidate.path = Empty THEN Empty ELSE ExeOf[candidate.path]

(* Mutant: a window of a process that cannot be read is taken on trust. *)
ScoreUnreadable(candidate, query) ==
  IF \/ query.class \notin {candidate.class}
     \/ candidate.path # Empty /\ query.exe \notin {Empty, ProcessName(candidate)}
     \/ candidate.path # Empty /\ query.path \notin {Empty, candidate.path}
    THEN NoMatch ELSE 100 + Score(query.exe, 20) + Score(query.path, 40)

(* Whatever the query names has to fit. *)
ScoreTargetCandidate(candidate, query) ==
  IF \/ query.class # candidate.class
     \/ query.exe \notin {Empty, ProcessName(candidate)}
     \/ query.path \notin {Empty, candidate.path}
    THEN NoMatch ELSE 100 + Score(query.exe, 20) + Score(query.path, 40)

(* CandidatePrecedes: two windows never have one handle. *)
CandidatePrecedes(h, k) == h < k

(* ResolveTarget over the windows of the desktop: the best one, as a set   *)
(* that is empty when there is none.                                       *)
ResolveTarget(desktop, query, policy) ==
  LET points(h) == ScoreTargetCandidate(desktop[h], query)
      candidates == {h \in DOMAIN desktop :
                       IsWindowCandidateAllowed(desktop[h], policy) /\ points(h) >= 0}
  IN  {h \in candidates : \A k \in candidates \ {h} :
         \/ points(h) > points(k)
         \/ points(h) = points(k) /\ CandidatePrecedes(h, k)}
-----------------------------------------------------------------------------
(* FindTargetWindowScored: only hidden windows are left out. *)
FindTargetWindowScored(desktop, query) == ResolveTarget(desktop, query, {"hidden"})

(* FindWindowByClass takes the first window of the class in the order of   *)
(* the desktop, hidden or not: any of them.                                *)
FindWindowByClass(desktop, class) == {h \in DOMAIN desktop : desktop[h].class = class}

(* FindProfileTarget: the windows it may return, and none for NULL. *)
FindProfileTarget(desktop, target) ==
  LET scored == FindTargetWindowScored(desktop, target) IN
    IF scored = {} /\ target.exe = Empty /\ target.class # Empty
      THEN FindWindowByClass(desktop, target.class)
      ELSE scored

(* SendToNamedApp: the name is tried as a class, then as the name of a     *)
(* profile, whose class is enough even if its executable does not fit.     *)
FindNamedApp(desktop, name, target) ==
  LET byClass == FindTargetWindowScored(desktop, [class |-> name, exe |-> Empty, path |-> Empty])
      scored == FindTargetWindowScored(desktop, target)
  IN  IF byClass # {} THEN byClass
      ELSE IF FindWindowByClass(desktop, name) # {} THEN FindWindowByClass(desktop, name)
      ELSE IF target.class = Empty THEN {}
      ELSE IF scored # {} THEN scored
      ELSE FindWindowByClass(desktop, target.class)
=============================================================================
