-------------------------- MODULE MCTargetedRouting --------------------------
(***************************************************************************)
(* Instances of TargetedRouting: a basic and a targeted profile, a usage   *)
(* that is held in the window, a usage that switches the profile, one      *)
(* window handle and two windows that may be behind it.                    *)
(***************************************************************************)
EXTENDS TargetedRouting

CONSTANTS s, k, basic, agent

Plain(kind) == [kind |-> kind, to |-> basic]
SwitchTo(p) == [kind |-> "switch", to |-> p]
Toggle(p)   == [kind |-> "toggle", to |-> p]

MCInitialMode == [p \in {basic, agent} |-> IF p = basic THEN "basic" ELSE "targeted"]

MCKeyMap ==
  [p \in {basic, agent} |->
     [u \in {s, k} |->
        IF u = k THEN {Plain("key")}
        ELSE IF p = basic THEN {SwitchTo(agent)} ELSE {Toggle(agent), SwitchTo(basic)}]]

(* The Live screen switches profiles, or fires a key. *)
AKey == {Plain("key")}
SwitchesAndKey == AKey \cup {SwitchTo(p) : p \in Profile} \cup {Toggle(p) : p \in Profile}

SwitchAloneEdges == {e \in SUBSET Key : s \in e => e = {s}}
==============================================================================
