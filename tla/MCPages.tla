------------------------------ MODULE MCPages ------------------------------
(***************************************************************************)
(* Instances of what the pages of the dashboard see live: the revisions    *)
(* and the state (SseHub), the key that is captured (Listening), and the   *)
(* feed that identifies a device (IdentifyFeed).  They share no state: a   *)
(* behaviour uses one and leaves the others in an initial state.  Of the   *)
(* hub, either the pages that are not followed compete for the sockets     *)
(* ("sockets"), or one that is followed, and served by one thread at a     *)
(* time, has refreshes that overlap and fail ("state"), or is edited while *)
(* it has one that may fail ("edit").                                      *)
(***************************************************************************)
EXTENDS SseHub, Listening, IdentifyFeed, TLC

CONSTANTS p1, p2, p3, s1, s2, b1, b2

VARIABLE screen  \* the part in use

allVars == <<hubVars, listenVars, feedVars, screen>>

Symmetry ==
  Permutations(Socket) \cup Permutations(Bumper)
    \cup Permutations(Page \ Followed) \cup Permutations(Tab)

(* A keyboard with ids, and a device without. *)
Ids == "pad" :> "vid_1&pid_1" @@ "ps2" :> Unknown

PagesInit ==
  /\ HubInit /\ ListenInit /\ FeedInit
  /\ screen \in {"sockets", "state", "edit", "capture", "identify"}
  /\ screen # "capture" => now = 0

Unused(cs) == \A c \in cs : conn'[c] = "none" /\ asked'[c] = asked[c]

Loading(c) == asked[c] + Cardinality(answers[c])

(* A thread that begins is the least one that is free: they are alike.     *)
InOrder ==
  \A t, u \in SseThread : u < t /\ stage[t] = "none" /\ stage'[t] # "none" => stage'[u] # "none"

OfHub(A) ==
  /\ A /\ InOrder
  /\ \/ screen = "sockets" /\ Unused(Followed) /\ revision' <= 1
     \/ /\ screen \in {"state", "edit"} /\ Unused(Page \ Followed)
        /\ Cardinality({t \in SseThread : stage'[t] # "none"}) <= 1
        /\ IF screen = "state" THEN dirty' = {} ELSE \A c \in Page : Loading(c)' <= 1
  /\ UNCHANGED <<listenVars, feedVars, screen>>
OfListening(A) == screen = "capture" /\ A /\ UNCHANGED <<hubVars, feedVars, screen>>
OfFeed(A) == screen = "identify" /\ A /\ UNCHANGED <<hubVars, listenVars, screen>>

PagesNext == OfHub(HubNext) \/ OfListening(ListenNext) \/ OfFeed(FeedNext)

PagesSpec == PagesInit /\ [][PagesNext]_allVars
=============================================================================
