------------------------------- MODULE KeyMap -------------------------------
(***************************************************************************)
(* The mappings of one profile: a list of keys with the layer, the         *)
(* modifiers that must be held, and an action.  The dashboard edits the    *)
(* list on the main thread, config.ini keeps it sorted, a conversion to    *)
(* the domain and back widens the sides of the modifiers, and a press      *)
(* looks for the mapping whose layer asks for most.                        *)
(***************************************************************************)
EXTENDS Integers, Sequences, SequencesExt, FiniteSetsExt

CONSTANTS
  Usage, Action,
  Group,     \* Ctrl, Shift, Alt, Win, by the position of their bits
  Layer,     \* sets of groups the page offers, each with both sides
  MaxKeys    \* bound: mappings of the profile

Side == {"left", "right"}

Mask == SUBSET (Group \X Side)  \* the eight bits of a mapping, and of a report

ASSUME KeyMapAssumption ==
  /\ Usage \subseteq Nat \ {0} /\ Group \subseteq Nat /\ IsFiniteSet(Group)
  /\ Layer \subseteq SUBSET Group /\ MaxKeys \in Nat \ {0}

VARIABLES
  keys,     \* g_profiles[..].keys: [usageId, modMask, action]
  mappings, \* the mappings of the profile in g_domain
  file      \* those in config.ini

keyVars == <<keys, mappings, file>>

KeyMapInit == keys = <<>> /\ mappings = <<>> /\ file = <<>>

Groups(mask) == {modifier[1] : modifier \in mask}

Wide(groups) == groups \X Side

(* ExpandConfigModifierToDomain, and back. *)
Widened(list) == [i \in DOMAIN list |-> [list[i] EXCEPT !.modMask = Wide(Groups(@))]]
-----------------------------------------------------------------------------
(* Of each group that is asked for one side is down, whichever. *)
ModsMatch(required, held) == Groups(required) \subseteq Groups(held)

Matching(list, usage, held) ==
  {i \in DOMAIN list : list[i].usageId = usage /\ ModsMatch(list[i].modMask, held)}

(* Mutant: the first mapping that matches. *)
FirstMatching(list, usage, held) ==
  LET found == Matching(list, usage, held) IN
  IF found = {} THEN 0 ELSE Min(found)

(* The first of those that ask for most groups; 0 is nullptr. *)
FindMappingForUsage(list, usage, held) ==
  LET found == Matching(list, usage, held)
      score(i) == Cardinality(Groups(list[i].modMask))
      best == {i \in found : \A j \in found : score(j) <= score(i)}
  IN  IF found = {} THEN 0 ELSE Min(best)

ActionOf(list, usage, held) ==
  LET i == FindMappingForUsage(list, usage, held) IN
  IF i = 0 THEN {} ELSE {list[i].action}
-----------------------------------------------------------------------------
(* MappingLess: by usage, then by the bits of the modifiers, as a number.  *)
Less(a, b) ==
  \/ a.usageId < b.usageId
  \/ /\ a.usageId = b.usageId
     /\ \E modifier \in b.modMask \ a.modMask :
          \A other \in a.modMask \ b.modMask :
            \/ other[2] = "left" /\ modifier[2] = "right"
            \/ other[2] = modifier[2] /\ other[1] < modifier[1]

(* What std::sort may make of a list. *)
Sorted(list) ==
  LET places == Bijection(DOMAIN list, DOMAIN list) IN
  {[i \in DOMAIN list |-> list[place[i]]] : place \in
     {p \in places : \A i, j \in DOMAIN list : i < j => ~ Less(list[p[j]], list[p[i]])}}

(* SyncRuntimeToDomain and WriteConfig, in the epilogue of an operation;   *)
(* the file may not be writable.                                           *)
Persist ==
  /\ mappings' = Widened(keys')
  /\ file' \in Sorted(mappings') \/ UNCHANGED file

Trigger(mapping) == <<mapping.usageId, mapping.modMask>>

Entry(usage, mask, action) == [usageId |-> usage, modMask |-> mask, action |-> action]

(* std::remove_if: the others, in their order. *)
Without(list, trigger) ==
  LET others == {i \in DOMAIN list : Trigger(list[i]) # trigger}
      n == Cardinality(others)
      at == CHOOSE s \in [1..n -> others] : \A i, j \in 1..n : i < j => s[i] < s[j]
  IN  [i \in 1..n |-> list[at[i]]]

(* DASH_ADD_KEY. *)
AddKey(usage, mask, action) ==
  /\ keys' = Append(Without(keys, <<usage, mask>>), Entry(usage, mask, action))
  /\ Len(keys') <= MaxKeys
  /\ Persist

(* DASH_REMOVE_KEY. *)
RemoveKey(usage, mask) ==
  /\ keys' = Without(keys, <<usage, mask>>)
  /\ Persist

(* DASH_UPDATE_KEY: the first with the trigger. *)
UpdateKey(usage, mask, action) ==
  LET i == SelectInSeq(keys, LAMBDA mapping : Trigger(mapping) = <<usage, mask>>) IN
  /\ i # 0
  /\ keys' = [keys EXCEPT ![i].action = action]
  /\ Persist

(* DASH_MOVE_KEY: swaps it with its neighbour, of whatever key. *)
MoveKey(usage, mask, step) ==
  LET i == SelectInSeq(keys, LAMBDA mapping : Trigger(mapping) = <<usage, mask>>) IN
  /\ i # 0 /\ i + step \in DOMAIN keys
  /\ keys' = [keys EXCEPT ![i] = keys[i + step], ![i + step] = keys[i]]
  /\ Persist

(* DASH_DUPLICATE_KEY: the first mapping of the key, whatever its layer.   *)
DuplicateKey(usage, newUsage) ==
  LET i == SelectInSeq(keys, LAMBDA mapping : mapping.usageId = usage)
      copy == [keys[i] EXCEPT !.usageId = newUsage]
  IN  /\ i # 0
      /\ \A j \in DOMAIN keys : Trigger(keys[j]) # Trigger(copy)
      /\ keys' = Append(keys, copy)
      /\ Len(keys') <= MaxKeys
      /\ Persist

(* An edit of another kind projects the domain to the runtime profiles. *)
Project ==
  /\ keys' = Widened(mappings)
  /\ UNCHANGED <<mappings, file>>

(* DASH_RELOAD, or a start of the program: what the file has. *)
Load ==
  /\ keys' = Widened(file) /\ mappings' = Widened(file)
  /\ UNCHANGED file

KeyMapNext ==
  \/ \E usage \in Usage, layer \in Layer :
       \/ \E action \in Action :
            AddKey(usage, Wide(layer), action) \/ UpdateKey(usage, Wide(layer), action)
       \/ RemoveKey(usage, Wide(layer))
       \/ \E step \in {-1, 1} : MoveKey(usage, Wide(layer), step)
  \/ \E usage, newUsage \in Usage : DuplicateKey(usage, newUsage)
  \/ Project
  \/ Load

KeyMapSpec == KeyMapInit /\ [][KeyMapNext]_keyVars
-----------------------------------------------------------------------------
KeyMapTypeOK ==
  \A list \in {keys, mappings, file} :
    \A i \in DOMAIN list :
      list[i].usageId \in Usage /\ list[i].modMask \in Mask /\ list[i].action \in Action

Exactly(list, trigger) == ActionOf(list, trigger[1], trigger[2])

(* Two layers of a key that ask for equally much, both of which are held. *)
Tie(list, usage, held) ==
  \E i, j \in Matching(list, usage, held) :
    /\ list[i].modMask # list[j].modMask
    /\ Cardinality(Groups(list[i].modMask)) = Cardinality(Groups(list[j].modMask))

Serves(from, to) ==
  \A usage \in Usage, held \in Mask :
    Tie(from, usage, held) \/ ActionOf(to, usage, held) = ActionOf(from, usage, held)

(***************************************************************************)
(* What a press does depends on what is mapped and not on its history: the *)
(* list in use, the domain and, when the save succeeded, the file give     *)
(* every press the same action, whichever sides are held and however the   *)
(* list was edited, sorted and widened, unless two of its layers tie.      *)
(***************************************************************************)
LayersAreKept ==
  /\ KeyMapTypeOK
  /\ Serves(keys, mappings)
  /\ {mappings[i] : i \in DOMAIN mappings} = {file[i] : i \in DOMAIN file}
       => Serves(keys, file)
  /\ \A i \in DOMAIN keys : Exactly(keys, Trigger(keys[i])) = {keys[i].action}

(* Of two layers that tie the one that comes first in the list serves, and *)
(* the user may move it there.  A saved list has the user's order.         *)
OrderIsKept ==
  ToSet(mappings) = ToSet(file) =>
    \A usage \in Usage, held \in Mask :
      ActionOf(file, usage, held) = ActionOf(mappings, usage, held)

(* The comment of FindMappingForUsage: the mapping whose modifiers are the *)
(* ones held, else the one that asks for none.                             *)
ExactOrBare ==
  \A usage \in Usage, held \in Mask :
    LET with(groups) == {keys[i].action : i \in {j \in Matching(keys, usage, held) :
                                                 Groups(keys[j].modMask) = groups}}
    IN ActionOf(keys, usage, held) =
         IF with(Groups(held)) # {} THEN with(Groups(held)) ELSE with({})
=============================================================================
