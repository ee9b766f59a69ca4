---------------------------- MODULE IdentifyFeed ----------------------------
(***************************************************************************)
(* The feed of "press a key to identify": while Listening keeps the        *)
(* dedicated keyboard quiet, WM_INPUT records every press of a key or a    *)
(* mouse button with the device it came from, in a ring that a POST clears *)
(* and pages poll.  Everything happens under g_csIdentified.               *)
(***************************************************************************)
EXTENDS Integers, Sequences

CONSTANTS
  Device, IdOf,  \* devices Raw Input tells apart, and the VID and PID in their paths
  Ring,          \* the 16 events of the feed
  MaxPress       \* bound: presses of a session

NoDevice == "none"   \* hDevice is NULL
Unknown == "unknown"

ASSUME IdentifyFeedAssumption ==
  /\ NoDevice \notin Device /\ Ring \in Nat \ {0} /\ MaxPress \in Nat

VARIABLES
  g_identified, g_identifyEvents, g_identifySeq,
  presses     \* history: the presses since the feed was cleared

feedVars == <<g_identified, g_identifyEvents, g_identifySeq, presses>>

NothingIdentified == [has |-> FALSE, identifiable |-> FALSE, id |-> Unknown]

FeedInit ==
  /\ g_identified = NothingIdentified /\ g_identifyEvents = <<>> /\ g_identifySeq = 0
  /\ presses = <<>>

(* Mutant: the numbers go on from the last session. *)
ClearEventsOnly ==
  /\ g_identified' = NothingIdentified /\ g_identifyEvents' = <<>> /\ presses' = <<>>
  /\ UNCHANGED g_identifySeq

(* POST /input/identify, after it has opened the window. *)
ClearFeed ==
  /\ g_identified' = NothingIdentified /\ g_identifyEvents' = <<>> /\ g_identifySeq' = 0
  /\ presses' = <<>>

(* The id an event gets.  If the name of the device cannot be read, that   *)
(* of the press before is still there.                                     *)
IdRead(d, readable) ==
  IF d = NoDevice THEN Unknown ELSE IF readable THEN IdOf[d] ELSE g_identified.id

(* WM_INPUT: a key or a button goes down on a device. *)
RecordIdentifyEvent(d, readable) ==
  /\ g_identifySeq < MaxPress
  /\ LET id == IdRead(d, readable)
         all == Append(g_identifyEvents,
                       [seq |-> g_identifySeq + 1, identifiable |-> d # NoDevice, id |-> id])
     IN  /\ g_identified' = [has |-> TRUE, identifiable |-> d # NoDevice, id |-> id]
         /\ g_identifyEvents' = IF Len(all) > Ring THEN Tail(all) ELSE all
  /\ g_identifySeq' = g_identifySeq + 1
  /\ presses' = Append(presses, [device |-> d, readable |-> readable])

FeedNext ==
  \/ ClearFeed
  \/ \E d \in Device \cup {NoDevice}, readable \in BOOLEAN : RecordIdentifyEvent(d, readable)

FeedSpec == FeedInit /\ [][FeedNext]_feedVars
-----------------------------------------------------------------------------
(* An event tells of a press: a device that could be named is shown under  *)
(* its own id, and a press without a device under none.                    *)
Tells(event, press) ==
  /\ event.identifiable <=> press.device # NoDevice
  /\ press.device = NoDevice => event.id = Unknown
  /\ press.device # NoDevice /\ press.readable => event.id = IdOf[press.device]

(***************************************************************************)
(* The feed is the last presses since it was cleared, each under its       *)
(* number and its device, whatever keyboards, mice and pages come between. *)
(***************************************************************************)
FeedIsTrue ==
  LET n == Len(presses)
      shown == Len(g_identifyEvents)
  IN  /\ g_identifySeq = n /\ (g_identified.has <=> n > 0)
      /\ shown = IF n < Ring THEN n ELSE Ring
      /\ \A i \in 1..shown :
           LET event == g_identifyEvents[i] IN
             /\ event.seq = n - shown + i
             /\ Tells(event, presses[event.seq])

(* What the page makes of an event: the device that was pressed. *)
FeedNamesTheDevice ==
  \A i \in DOMAIN g_identifyEvents :
    LET event == g_identifyEvents[i] IN
      event.identifiable => event.id \in {Unknown, IdOf[presses[event.seq].device]}
=============================================================================
