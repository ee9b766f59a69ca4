---------------------------- MODULE ReportRouting ----------------------------
(***************************************************************************)
(* What the two routing modes of the reader thread share: the keys of a    *)
(* boot-protocol keyboard report, the profiles, the action grammar as far  *)
(* as routing depends on it, and the profile an action activates.          *)
(*                                                                         *)
(* A key is a modifier (a bit of byte 0 of the report) or a usage (one of  *)
(* the six slots).  UsageToSet1 maps keys to scan codes one to one, so a   *)
(* key also stands for its ScanKey.                                        *)
(***************************************************************************)
EXTENDS FiniteSets

CONSTANTS
  Usage,           \* usage ids the keyboard can report in its six slots
  Modifier,        \* the modifier usages of byte 0
  Profile,         \* names of g_profiles
  DefaultProfile,  \* g_defaultProfile
  NoProfile,       \* the empty g_lastProfileBeforeToggle
  InitialMode,     \* mode of every profile as loaded from config.ini
  Editable,        \* profiles whose mode the dashboard may change
  KeyMap,          \* KeyMap[p][u]: the actions profile p may select for usage u
  Fired,           \* the actions the dashboard's Live screen may fire
  EdgeSet          \* the sets of keys that may change between two reports

Key == Usage \cup Modifier

ProfileMode == {"basic", "targeted"}

(***************************************************************************)
(* "none" is no mapping, "key" a single holdable key, "macro" every action *)
(* that presses and releases its keys by itself or launches a program.     *)
(***************************************************************************)
Action == [kind : {"none", "macro", "key", "switch", "toggle"}, to : Profile]

ASSUME RoutingAssumption ==
  /\ Usage \cap Modifier = {}
  /\ DefaultProfile \in Profile
  /\ NoProfile \notin Profile
  /\ InitialMode \in [Profile -> ProfileMode]
  /\ Editable \subseteq Profile
  /\ KeyMap \in [Profile -> [Usage -> (SUBSET Action) \ {{}}]]
  /\ Fired \subseteq Action
  /\ EdgeSet \subseteq SUBSET Key

(***************************************************************************)
(* The profile that is active after action a runs while cur is active and  *)
(* before is the profile !toggle remembers.                                *)
(***************************************************************************)
NextActive(a, cur, before) ==
  CASE a.kind = "switch" -> a.to
    [] a.kind = "toggle" /\ a.to # cur -> a.to
    [] a.kind = "toggle" /\ a.to = cur ->
         IF before = NoProfile THEN DefaultProfile ELSE before
    [] OTHER -> cur

NextBefore(a, cur, before) ==
  IF a.kind = "toggle" /\ a.to # cur THEN cur ELSE before

SwitchKind == {"switch", "toggle"}

(***************************************************************************)
(* The usages some profile maps to a profile switch, and the condition     *)
(* that a report which changes such a usage changes nothing else.          *)
(***************************************************************************)
SwitchUsage ==
  {u \in Usage : \E p \in Profile : \E a \in KeyMap[p][u] : a.kind \in SwitchKind}

SwitchAlone == \A e \in EdgeSet, u \in SwitchUsage : u \in e => e = {u}

NoEdits == Editable = {}
==============================================================================
