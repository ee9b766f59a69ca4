--------------------------- MODULE MCProfileStore ---------------------------
(***************************************************************************)
(* Instances of ProfileStore.  A request may give a new profile the id of  *)
(* one that is there, or an id that config_v3 does not write, and a new    *)
(* name may be that of the built-in one; one name has a dot; one action    *)
(* switches to a profile; one modifier is only the left one.               *)
(***************************************************************************)
EXTENDS ProfileStore

Ids3   == {Normal, "basic", "media_hd", "work", "pad.1", "m-basic", "m-media_hd", "m-work"}
Sorted == <<"basic", "m-basic", "m-media_hd", "m-work", "media_hd", "work">>
Names3 == <<"basic", "media.hd", "work">>
Named  == {"basic", "media.hd", "work"}

LowerCase == [s \in Ids3 \cup Named \cup {"Normal", None} |->
                IF s = "Normal" THEN "normal" ELSE s]
Slug(n)   == IF n = "media.hd" THEN "media_hd" ELSE n
OwnId     == [n \in Named |-> Slug(n)]
HashedId  == [n \in Named |-> "m-" \o Slug(n)]
AppName   == [n \in Named \cup Ids3 |-> "app-" \o Slug(n)]
HashedApp == [n \in Named |-> "m-app-" \o Slug(n)]
AppIds3   == {"app-media_hd", "app-work", "app-basic", "app-pad.1", "app-" \o Normal,
              "app-m-basic", "app-m-media_hd", "app-m-work",
              "m-app-basic", "m-app-media_hd", "m-app-work"}
BothSides == [m \in {"left", "both"} |-> "both"]
SwitchTo  == [a \in {"x", "go"} |-> IF a = "go" THEN "media.hd" ELSE None]
Triggers  == {<<"u", "left">>, <<"u", "both">>}
Preset    == {<<"v", "both", "go">>}
Player    == [NormalProfile EXCEPT !.id = "media_hd", !.name = "media.hd", !.mode = "targeted",
                !.links = <<"app-media_hd">>, !.default = "app-media_hd", !.keys = {<<"u", "both", "x">>}]
Configured == {[DefaultDomain EXCEPT !.profiles = Append(@, Player),
                                     !.apps = <<[id |-> "app-media_hd", target |-> "t1"]>>]}
=============================================================================
