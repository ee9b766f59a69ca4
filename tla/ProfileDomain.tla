---------------------------- MODULE ProfileDomain ----------------------------
(***************************************************************************)
(* The domain model of profiles and applications, the operations of        *)
(* ProfileService, and the two conversions around it: to the runtime       *)
(* profiles that route the keys, and to and from config.ini.               *)
(*                                                                         *)
(* A domain is [profiles, apps, active].  Ids and names are strings; a     *)
(* request may refer to a profile by either.  The position of a mapping in *)
(* its profile is left out: mappings are a set of <<usage, modifiers,      *)
(* action>>, and where the code takes the first of several, any is taken.  *)
(***************************************************************************)
EXTENDS Naturals, Sequences, SequencesExt

CONSTANTS
  Id, Name,     \* ids and names of profiles
  IdOrder,      \* the ids config_v3 may write, sorted
  NameOrder,    \* the names of runtime profiles, sorted
  Lower,        \* names to lower case
  Sanitize,     \* a name to the id made of it
  MigratedId,   \* a name to the id the legacy parser makes of it
  AppId,        \* ids of applications
  AppOf,        \* a name to the id of the application made of it
  MigratedApp,  \* the same by the legacy parser
  Dotted,       \* names with a dot in them
  UnsafeId,     \* valid ids, of profiles or applications, that config_v3 rejects
  Wide,         \* modifiers with the other side of each added
  Refers        \* the profile an action switches to, or ""

Normal  == "profile.normal"
None    == ""            \* no application, no target, no reference

NormalProfile ==
  [id |-> Normal, name |-> "Normal", mode |-> "basic", links |-> <<>>, default |-> None,
   keys |-> {}]

DefaultDomain == [profiles |-> <<NormalProfile>>, apps |-> <<>>, active |-> Normal]

(* The elements of a sequence that are in S, in their order: SelectSeq, as *)
(* a function.                                                             *)
Sieve(s, S) ==
  LET kept[i \in 0..Len(s)] ==
        IF i = 0 THEN <<>>
        ELSE IF s[i] \in S THEN Append(kept[i - 1], s[i]) ELSE kept[i - 1]
  IN  kept[Len(s)]

Ids(d)       == {d.profiles[i].id : i \in DOMAIN d.profiles}
AppIds(d)    == {d.apps[i].id : i \in DOMAIN d.apps}
Index(d, id) == CHOOSE i \in DOMAIN d.profiles : d.profiles[i].id = id
ProfileOf(d, id) == d.profiles[Index(d, id)]

(* findApplication returns the first with the id: a second is never found. *)
AppIndex(d, a) == SelectInSeq(d.apps, LAMBDA app : app.id = a)

(* The application a profile is aimed at: the default one, else the first. *)
Aim(p) == IF p.default = None /\ p.links # <<>> THEN Head(p.links) ELSE p.default

RuntimeName(p) == IF p.id = Normal THEN "basic" ELSE p.name

(* The names by which a loaded profile is taken for the built-in one. *)
LikeBuiltIn(name) == Lower[name] \in {"basic", "normal"}

(* ResolveDomainProfileId. *)
Resolves(d, ref, id) ==
  LET named == SelectInSeq(d.profiles, LAMBDA p : Lower[p.name] = Lower[ref]) IN
  IF ref \in Ids(d) THEN id = ref
  ELSE IF ref = "basic" THEN id = Normal
  ELSE named # 0 /\ id = d.profiles[named].id
-----------------------------------------------------------------------------
(* ProfileService.  Its constructor repairs an active id that is none. *)
Service(d) == IF d.active \in Ids(d) THEN d ELSE [d EXCEPT !.active = Normal]

NameIsFree(d, name, except) ==
  \A i \in DOMAIN d.profiles :
    d.profiles[i].id = except \/ Lower[d.profiles[i].name] # Lower[name]

IdentityIsNew(d, id, name) == id \notin Ids(d) /\ NameIsFree(d, name, None)

Created(d, p) == [d EXCEPT !.profiles = Append(@, p)]

CreatedNew(d, id, name, mode) ==
  Created(d, [NormalProfile EXCEPT !.id = id, !.name = name, !.mode = mode])

Duplicated(d, source, id, name) ==
  Created(d, [ProfileOf(d, source) EXCEPT !.id = id, !.name = name])

Changed(d, id, p) == [d EXCEPT !.profiles[Index(d, id)] = p]

Renamed(d, id, name) == Changed(d, id, [ProfileOf(d, id) EXCEPT !.name = name])

(* Some other profile has a mapping that switches to this one. *)
IsReferenced(d, id) ==
  LET p == ProfileOf(d, id) IN
  \E i \in DOMAIN d.profiles : \E key \in d.profiles[i].keys :
    /\ d.profiles[i].id # id
    /\ Lower[Refers[key[3]]] \in {p.id, Lower[p.name]}

(* DASH_DELETE_PROFILE also removes the applications no profile refers to. *)
Refer(d) ==
  UNION {ToSet(d.profiles[i].links) \cup {d.profiles[i].default} : i \in DOMAIN d.profiles}

DroppingOrphans(d) ==
  [d EXCEPT !.apps = Sieve(@, {app \in ToSet(@) : app.id \in Refer(d)})]

DeletedOnwards(d, id) ==   \* mutant: erase takes the rest of the profiles with it
  DroppingOrphans([d EXCEPT
    !.profiles = SubSeq(@, 1, Index(d, id) - 1),
    !.active = IF @ = id THEN Normal ELSE @])

Deleted(d, id) ==
  DroppingOrphans([d EXCEPT
    !.profiles = Sieve(@, {p \in ToSet(@) : p.id # id}),
    !.active = IF @ = id THEN Normal ELSE @])

LinkedTo(p, a) ==
  [p EXCEPT !.links = IF a \in ToSet(@) THEN @ ELSE Append(@, a),
            !.default = IF @ = None THEN a ELSE @]

UnlinkedFrom(p, a) ==
  LET rest == Sieve(p.links, ToSet(p.links) \ {a}) IN
  [p EXCEPT !.links = rest,
            !.default = IF @ # a THEN @ ELSE IF rest = <<>> THEN None ELSE Head(rest)]
-----------------------------------------------------------------------------
(***************************************************************************)
(* ProjectDomainToRuntime.  Of two profiles with one runtime name, one of  *)
(* them the built-in one, the later in the model is the one projected.     *)
(***************************************************************************)
LastNamed(d, name) == SelectLastInSeq(d.profiles, LAMBDA p : RuntimeName(p) = name)

RuntimeNames(d) == {RuntimeName(d.profiles[i]) : i \in DOMAIN d.profiles}

ProjectedProfile(d, p) ==
  [mode   |-> p.mode,
   target |-> IF AppIndex(d, Aim(p)) = 0 THEN None ELSE d.apps[AppIndex(d, Aim(p))].target,
   keys   |-> p.keys]

Projected(d) ==
  [n \in RuntimeNames(d) |-> ProjectedProfile(d, d.profiles[LastNamed(d, n)])]

ProjectedActive(d) ==
  IF d.active \in Ids(d) THEN RuntimeName(ProfileOf(d, d.active)) ELSE "basic"
-----------------------------------------------------------------------------
(***************************************************************************)
(* SyncRuntimeToDomain, for one runtime profile.  A target is written to   *)
(* the application the profile is aimed at, or to a new one, whose id may  *)
(* be another's; an empty target is not written.                           *)
(***************************************************************************)
WideKeys(keys) == {<<key[1], Wide[key[2]], key[3]>> : key \in keys}

WithTarget(d, i, name, target) ==
  LET at  == AppIndex(d, Aim(d.profiles[i]))
      new == AppOf[name]
  IN  IF target = None THEN d
      ELSE IF at # 0 THEN [d EXCEPT !.apps[at].target = target]
      ELSE [d EXCEPT !.apps = Append(@, [id |-> new, target |-> target]),
                     !.profiles[i].links = Append(@, new),
                     !.profiles[i].default = new]

FirstNamed(d, name) ==
  SelectInSeq(d.profiles, LAMBDA p : p.name = name \/ RuntimeName(p) = name)

SyncedProfile(d, name, p) ==
  LET i == FirstNamed(d, name)
  IN  WithTarget([d EXCEPT !.profiles[i].mode = p.mode, !.profiles[i].keys = WideKeys(p.keys)],
                 i, name, p.target)

(* The active id becomes a runtime name, unless that is "basic". *)
Synced(d, runtime, active) ==
  LET sync[i \in 0..Len(NameOrder)] ==
        IF i = 0 THEN d
        ELSE IF NameOrder[i] \in DOMAIN runtime
             THEN SyncedProfile(sync[i - 1], NameOrder[i], runtime[NameOrder[i]])
             ELSE sync[i - 1]
  IN  [sync[Len(NameOrder)] EXCEPT !.active = IF active = "basic" THEN Normal ELSE active]
-----------------------------------------------------------------------------
(***************************************************************************)
(* config.ini.  Serialize refuses a model with an unsafe or doubled id,    *)
(* where the built-in profile has the id "basic"; the legacy writer then   *)
(* writes the runtime profiles by name.                                    *)
(***************************************************************************)
Serializable(d) ==
  /\ ((Ids(d) \ {Normal}) \cup AppIds(d)) \cap UnsafeId = {} /\ "basic" \notin Ids(d)
  /\ \A i, j \in DOMAIN d.apps : d.apps[i].id = d.apps[j].id => i = j

DefaultOnlyFileProfile(p) ==   \* mutant: without a default the linked application is not written
  [id |-> IF p.id = Normal THEN "basic" ELSE p.id, name |-> RuntimeName(p), mode |-> p.mode,
   builtIn |-> p.id = Normal, app |-> p.default, keys |-> p.keys]

FileProfile(p) ==
  [id |-> IF p.id = Normal THEN "basic" ELSE p.id, name |-> RuntimeName(p), mode |-> p.mode,
   builtIn |-> p.id = Normal, app |-> Aim(p), keys |-> p.keys]

SerializedFile(d, active) ==
  [default |-> active, apps |-> d.apps,
   profiles |-> {FileProfile(d.profiles[i]) : i \in DOMAIN d.profiles}]

(***************************************************************************)
(* The legacy file and what ParseLegacy makes of it, in one: ids of its    *)
(* own, an application for every targeted profile, every basic profile     *)
(* taken for the built-in one; a section whose name has a dot is not taken *)
(* for a profile's.  Its default profile is not modelled.                  *)
(***************************************************************************)
LegacyProfile(name, p) ==
  [id |-> MigratedId[name], name |-> name, mode |-> p.mode, builtIn |-> p.mode = "basic",
   app |-> IF p.mode = "basic" THEN None ELSE MigratedApp[name], keys |-> WideKeys(p.keys)]

LegacyFile(runtime) ==
  LET known    == DOMAIN runtime \ Dotted
      targeted == Sieve(NameOrder, {n \in known : runtime[n].mode = "targeted"})
  IN  [default  |-> None,
       apps     |-> [i \in DOMAIN targeted |->
                       [id |-> MigratedApp[targeted[i]], target |-> runtime[targeted[i]].target]],
       profiles |-> {LegacyProfile(n, runtime[n]) : n \in known}]

(***************************************************************************)
(* Parse and ConfigToDomain.  The profiles come sorted by id; all that     *)
(* look like the built-in one become one.                                  *)
(***************************************************************************)
LooksNormal(fp) == fp.builtIn \/ fp.id = "basic" \/ LikeBuiltIn(fp.name)

LoadedProfile(f, p, fp) ==
  LET linked == fp.app \in {f.apps[i].id : i \in DOMAIN f.apps}
  IN  [p EXCEPT !.keys = @ \cup fp.keys,
                !.links = IF linked THEN Append(@, fp.app) ELSE @,
                !.default = IF linked THEN fp.app ELSE @]

WithLoaded(f, profiles, fp) ==
  LET normal == SelectInSeq(profiles, LAMBDA p : p.id = Normal)
      new    == [NormalProfile EXCEPT !.id = fp.id, !.name = fp.name, !.mode = fp.mode]
  IN  IF ~LooksNormal(fp) THEN Append(profiles, LoadedProfile(f, new, fp))
      ELSE IF normal = 0 THEN Append(profiles, LoadedProfile(f, NormalProfile, fp))
      ELSE [profiles EXCEPT ![normal] = LoadedProfile(f, @, fp)]

FileProfileOf(f, id) == CHOOSE fp \in f.profiles : fp.id = id

LoadedProfiles(f) ==
  LET load[i \in 0..Len(IdOrder)] ==
        IF i = 0 THEN <<>>
        ELSE IF \E fp \in f.profiles : fp.id = IdOrder[i]
             THEN WithLoaded(f, load[i - 1], FileProfileOf(f, IdOrder[i]))
             ELSE load[i - 1]
      profiles == load[Len(IdOrder)]
  IN  IF \E i \in DOMAIN profiles : profiles[i].id = Normal THEN profiles
      ELSE <<NormalProfile>> \o profiles

LoadedActive(profiles, default) ==
  LET named == SelectInSeq(profiles, LAMBDA p : Lower[p.name] = Lower[default]) IN
  IF \E i \in DOMAIN profiles : profiles[i].id = default THEN default
  ELSE IF named # 0 THEN profiles[named].id ELSE Normal

Loaded(f) ==
  [profiles |-> LoadedProfiles(f), apps |-> f.apps,
   active |-> LoadedActive(LoadedProfiles(f), f.default)]
=============================================================================
