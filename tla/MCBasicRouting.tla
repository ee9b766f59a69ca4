--------------------------- MODULE MCBasicRouting ---------------------------
(***************************************************************************)
(* Instances of BasicRouting: two usages, where a configuration asks for   *)
(* it a modifier, a basic and a targeted profile.  Usage s switches or     *)
(* toggles the profile or is left unmapped; usage k is re-injected or      *)
(* fires a macro.                                                          *)
(***************************************************************************)
EXTENDS BasicRouting

CONSTANTS s, k, shift, basic, agent

Plain(kind) == [kind |-> kind, to |-> basic]
SwitchTo(p) == [kind |-> "switch", to |-> p]
Toggle(p)   == [kind |-> "toggle", to |-> p]

MCInitialMode == [p \in {basic, agent} |-> IF p = basic THEN "basic" ELSE "targeted"]

MCKeyMap ==
  [p \in {basic, agent} |->
     [u \in {s, k} |->
        IF u = s
          THEN IF p = basic THEN {SwitchTo(agent), Toggle(agent)} ELSE {SwitchTo(basic), Toggle(agent)}
          ELSE {Plain("none"), Plain("macro")}]]

(* The Live screen switches profiles. *)
SwitchesOnly == {SwitchTo(p) : p \in Profile} \cup {Toggle(p) : p \in Profile}

(* The combinations that leave a switch key alone, and all. *)
SwitchAloneEdges == {e \in SUBSET Key : s \in e => e = {s}}
AnyEdges == SUBSET Key
==============================================================================
