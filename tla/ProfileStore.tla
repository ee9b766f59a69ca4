---------------------------- MODULE ProfileStore -----------------------------
(***************************************************************************)
(* The profiles in their three forms: the domain, which ProfileService     *)
(* edits; the runtime profiles, which key and target edits change and      *)
(* which route the keys; and config.ini.  An operation that goes through   *)
(* the service ends with a projection, a save begins with the way back.    *)
(*                                                                         *)
(* The main thread performs the dashboard's operations under g_csProfile,  *)
(* leaves it, and takes it again in WriteConfig; an HTTP worker does so    *)
(* in POST /applications/create.                                           *)
(***************************************************************************)
EXTENDS ProfileDomain

CONSTANTS
  Main, Worker,            \* the main thread and the HTTP workers
  NewId, NewName, NewTarget,  \* ids, names and targets that requests give
  Usage, Trigger,          \* usages, and <<usage, modifiers>> of new mappings
  Action, Target,          \* actions of mappings, targets of applications
  PresetKeys,              \* the mappings of an agent's preset
  Start,                   \* domains that config.ini may hold at the start
  MaxOps                   \* bound: operations of a behaviour

Mode  == {"basic", "targeted"}
RName == Name \cup {"basic"}   \* names of runtime profiles
Key   == Usage \X (DOMAIN Wide) \X (DOMAIN Refers)

Profile ==
  {p \in [id : Id, name : Name \cup {"Normal"}, mode : Mode, links : Seq(AppId),
          default : AppId \cup {None}, keys : SUBSET Key] : p.id = Normal \/ p.name \in Name}

Application == [id : AppId, target : Target \cup {None}]

Domain == [profiles : Seq(Profile), apps : Seq(Application), active : Id \cup RName]

(* What the code that looks profiles and applications up relies on: the    *)
(* built-in profile is there, no two profiles have an id or a name, what a *)
(* profile links exists, and its default is linked.  It is a part of what  *)
(* validateDomainModel demands; the rest is below.                         *)
IsSound(d) ==
  /\ Normal \in Ids(d)
  /\ \A i \in DOMAIN d.profiles :
       /\ d.profiles[i].default \in ToSet(d.profiles[i].links) \cup {None}
       /\ ToSet(d.profiles[i].links) \subseteq AppIds(d)
       /\ \A j \in DOMAIN d.profiles : i # j =>
            /\ d.profiles[i].id # d.profiles[j].id
            /\ Lower[d.profiles[i].name] # Lower[d.profiles[j].name]

(* No other profile would be loaded into the built-in one. *)
OneBuiltIn(d) ==
  \A i \in DOMAIN d.profiles : LikeBuiltIn(RuntimeName(d.profiles[i])) => d.profiles[i].id = Normal

ASSUME NamesAssumption ==
  /\ Normal \in Id /\ None \notin Id \cup Name \cup Target \cup AppId
  /\ Lower["Normal"] = "normal" /\ Lower["basic"] = "basic"
  /\ NameOrder \in Seq(RName) /\ IsInjective(NameOrder) /\ RName \subseteq ToSet(NameOrder)
  /\ \A n \in Name : Sanitize[n] \in Id
  /\ \A n \in RName \cup Id : AppOf[n] \in AppId

(* Ids of the legacy parser are hashes of lower-case names. *)
ASSUME FileAssumption ==
  /\ Dotted \subseteq Name
  /\ IdOrder \in Seq((Id \cup {"basic"}) \ {Normal}) /\ IsInjective(IdOrder)
  /\ {"basic"} \cup (Id \ (UnsafeId \cup {Normal})) \subseteq ToSet(IdOrder)
  /\ \A n \in RName : MigratedId[n] \in ToSet(IdOrder) \ {"basic"} /\ MigratedApp[n] \in AppId
  /\ \A n, m \in RName :
       MigratedId[n] = MigratedId[m] \/ MigratedApp[n] = MigratedApp[m] => Lower[n] = Lower[m]

ASSUME KeysAssumption ==
  /\ Wide \in [DOMAIN Wide -> DOMAIN Wide] /\ \A m \in DOMAIN Wide : Wide[Wide[m]] = Wide[m]
  /\ Trigger \subseteq Usage \X (DOMAIN Wide) /\ Action \subseteq DOMAIN Refers
  /\ PresetKeys \subseteq Key

(* config.ini is, at the start, what an earlier run has written. *)
ASSUME ProfileStoreAssumption ==
  /\ Main \notin Worker /\ MaxOps \in Nat
  /\ NewId \subseteq Id /\ NewName \subseteq Name /\ NewTarget \subseteq Target
  /\ \A d \in Start : d \in Domain /\ IsSound(d) /\ Serializable(d) /\ OneBuiltIn(d)

VARIABLES
  domain,   \* g_domain
  runtime,  \* g_profiles, by name
  active,   \* g_activeProfile
  file,     \* config.ini
  saving,   \* the threads between their edit and its WriteConfig
  clean,    \* history: config.ini was written, or read, since the last edit
  touched,  \* history: the runtime profiles the last step was about
  ops       \* history: operations so far, up to MaxOps

memory == <<domain, runtime, active>>
vars   == <<memory, file, saving, clean, touched, ops>>

Thread == Worker \cup {Main}

Init ==
  /\ domain \in {DefaultDomain} \cup Start
  /\ runtime = Projected(domain)
  /\ active = ProjectedActive(domain)
  /\ file = SerializedFile(domain, active)
  /\ saving = {} /\ clean = TRUE /\ touched = {} /\ ops = 0
-----------------------------------------------------------------------------
(* An operation of thread t on the profiles named n; its save is still due. *)
MayOperate(t) == ops < MaxOps /\ t \notin saving

Operation(t, names) ==
  /\ MayOperate(t) /\ ops' = ops + 1
  /\ saving' = saving \cup {t}
  /\ touched' = names /\ clean' = FALSE
  /\ UNCHANGED file

Becomes(d) ==
  /\ domain' = d
  /\ runtime' = Projected(d)
  /\ active' = ProjectedActive(d)

EditRuntime(n, p) ==
  /\ Operation(Main, {n})
  /\ runtime' = [runtime EXCEPT ![n] = p]
  /\ UNCHANGED <<domain, active>>

Without(keys, trigger) == {key \in keys : <<key[1], key[2]>> # trigger}

AddKey(n, trigger, a) ==
  /\ n \in DOMAIN runtime
  /\ EditRuntime(n, [runtime[n] EXCEPT
       !.keys = Without(@, trigger) \cup {<<trigger[1], trigger[2], a>>}])

RemoveKey(n, trigger) ==
  /\ n \in DOMAIN runtime
  /\ EditRuntime(n, [runtime[n] EXCEPT !.keys = Without(@, trigger)])

UpdateKey(n, key, a) ==
  /\ n \in DOMAIN runtime /\ key \in runtime[n].keys
  /\ EditRuntime(n, [runtime[n] EXCEPT !.keys = (@ \ {key}) \cup {<<key[1], key[2], a>>}])

DuplicateKey(n, key, u) ==
  /\ n \in DOMAIN runtime /\ key \in runtime[n].keys
  /\ Without(runtime[n].keys, <<u, key[2]>>) = runtime[n].keys
  /\ EditRuntime(n, [runtime[n] EXCEPT !.keys = @ \cup {<<u, key[2], key[3]>>}])

(* DASH_SET_PROFILE, of a profile that is there or of a new one. *)
SetProfile(n, mode, target) ==
  /\ n \in DOMAIN runtime \ {"basic"}
  /\ EditRuntime(n, [runtime[n] EXCEPT !.mode = mode, !.target = target])

SetNewProfile(n, mode, target) ==
  /\ Operation(Main, {n})
  /\ n \notin DOMAIN runtime \cup {"basic"}
  /\ IdentityIsNew(domain, Sanitize[n], n)
  /\ LET d == CreatedNew(Service(domain), Sanitize[n], n, mode) IN
     /\ domain' = d
     /\ runtime' = [Projected(d) EXCEPT ![n] = [@ EXCEPT !.mode = mode, !.target = target]]
     /\ active' = ProjectedActive(d)

CreateProfile(id, n, mode) ==
  /\ Operation(Main, {n})
  /\ IdentityIsNew(domain, id, n)
  /\ Becomes(CreatedNew(Service(domain), id, n, mode))

(* DASH_APPLY_PRESET: a profile with its mappings and, if it is targeted,  *)
(* an application, whose id may be another's.                              *)
ApplyPreset(id, n, mode, target) ==
  /\ Operation(Main, {n})
  /\ IdentityIsNew(domain, id, n)
  /\ LET a == AppOf[id]
         p == [NormalProfile EXCEPT !.id = id, !.name = n, !.mode = mode, !.keys = PresetKeys]
         d == Service(domain)
     IN  Becomes(IF mode = "basic" THEN Created(d, p)
                 ELSE [Created(d, [p EXCEPT !.links = <<a>>, !.default = a])
                         EXCEPT !.apps = Append(@, [id |-> a, target |-> target])])

(* The profile a request names, as the service sees it. *)
OnProfile(ref, id) ==
  /\ MayOperate(Main)
  /\ Resolves(domain, ref, id)
  /\ Operation(Main, {RuntimeName(ProfileOf(domain, id))})

Rename(ref, n) ==
  \E id \in Ids(domain) \ {Normal} :
    /\ OnProfile(ref, id)
    /\ NameIsFree(domain, n, id)
    /\ Becomes(Renamed(Service(domain), id, n))

Delete(ref) ==
  \E id \in Ids(domain) \ {Normal} :
    /\ OnProfile(ref, id)
    /\ ~IsReferenced(domain, id)
    /\ Becomes(Deleted(Service(domain), id))

Duplicate(ref, id, n) ==
  \E source \in Ids(domain) :
    /\ OnProfile(ref, source)
    /\ IdentityIsNew(domain, id, n)
    /\ Becomes(Duplicated(Service(domain), source, id, n))

Link(ref, a) ==
  \E id \in Ids(domain) :
    /\ OnProfile(ref, id)
    /\ a \in AppIds(domain)
    /\ Becomes(Changed(Service(domain), id, LinkedTo(ProfileOf(domain, id), a)))

Unlink(ref, a) ==
  \E id \in Ids(domain) :
    /\ OnProfile(ref, id)
    /\ Becomes(Changed(Service(domain), id, UnlinkedFrom(ProfileOf(domain, id), a)))

SetDefault(ref, a) ==
  \E id \in Ids(domain) :
    /\ OnProfile(ref, id)
    /\ a # None => a \in ToSet(ProfileOf(domain, id).links) \cap AppIds(domain)
    /\ Becomes(Changed(Service(domain), id, [ProfileOf(domain, id) EXCEPT !.default = a]))

(* A request the service refuses; its constructor has run all the same. *)
Refused ==
  /\ Main \notin saving /\ domain # Service(domain)
  /\ domain' = Service(domain) /\ touched' = {}
  /\ UNCHANGED <<runtime, active, file, saving, clean, ops>>

(* SwitchProfileByName: nothing is saved. *)
Switch(n) ==
  /\ ops < MaxOps /\ ops' = ops + 1
  /\ n \in DOMAIN runtime
  /\ active' = n /\ touched' = {}
  /\ UNCHANGED <<domain, runtime, file, saving, clean>>

(* POST /applications/create, by a worker; the id is made unique. *)
CreateApplication(w, n, target) ==
  /\ AppOf[n] \notin AppIds(domain)
  /\ Operation(w, {})
  /\ domain' = [domain EXCEPT !.apps = Append(@, [id |-> AppOf[n], target |-> target])]
  /\ UNCHANGED <<runtime, active>>
-----------------------------------------------------------------------------
(* WriteConfig, under the lock throughout. *)
WriteConfig(t) ==
  /\ t \in saving /\ saving' = saving \ {t}
  /\ LET d == Synced(domain, runtime, active) IN
     /\ domain' = d
     /\ \/ /\ file' = IF Serializable(d) THEN SerializedFile(d, active)
                      ELSE LegacyFile(runtime)
           /\ clean' = TRUE
        \/ UNCHANGED <<file, clean>>   \* the write failed
  /\ touched' = {}
  /\ UNCHANGED <<runtime, active, ops>>

LoadConfig(d) == domain' = d /\ runtime' = Projected(d)

(* ReloadConfig keeps the active profile if it still exists; if the file   *)
(* cannot be read nothing sets another.                                    *)
Reload ==
  /\ Main \notin saving
  /\ \/ /\ LoadConfig(Loaded(file)) /\ clean' = TRUE
        /\ active' = IF active \in DOMAIN runtime' THEN active ELSE ProjectedActive(domain')
     \/ /\ LoadConfig(DefaultDomain) /\ clean' = FALSE
        /\ UNCHANGED active
  /\ touched' = DOMAIN runtime
  /\ UNCHANGED <<file, saving, ops>>

Restart ==
  /\ LoadConfig(Loaded(file)) /\ clean' = TRUE
  /\ active' = ProjectedActive(domain')
  /\ saving' = {} /\ touched' = DOMAIN runtime
  /\ UNCHANGED <<file, ops>>
-----------------------------------------------------------------------------
(* What a request may call a profile that is there. *)
Ref == Ids(domain) \cup RuntimeNames(domain)

EditKeys(n) ==
  /\ MayOperate(Main) /\ n \in DOMAIN runtime
  /\ \/ \E trigger \in Trigger :
          RemoveKey(n, trigger) \/ \E a \in Action : AddKey(n, trigger, a)
     \/ \E key \in runtime[n].keys :
          \/ \E u \in Usage : DuplicateKey(n, key, u)
          \/ \E a \in Action : UpdateKey(n, key, a)

EditProfile(n) ==
  /\ MayOperate(Main)
  /\ \E mode \in Mode, target \in NewTarget \cup {None} :
       SetProfile(n, mode, target) \/ SetNewProfile(n, mode, target)

NewProfile(id, n) ==
  /\ MayOperate(Main)
  /\ \/ \E mode \in Mode : CreateProfile(id, n, mode)
     \/ \E mode \in Mode, target \in NewTarget : ApplyPreset(id, n, mode, target)
     \/ \E ref \in Ref : Duplicate(ref, id, n)

ChangeProfile(ref) ==
  /\ MayOperate(Main)
  /\ \/ Delete(ref) \/ SetDefault(ref, None)
     \/ \E n \in NewName : Rename(ref, n)
     \/ \E a \in AppIds(domain) : Link(ref, a) \/ Unlink(ref, a) \/ SetDefault(ref, a)

Next ==
  \/ \E n \in RName : EditKeys(n) \/ EditProfile(n) \/ Switch(n)
  \/ \E id \in NewId, n \in NewName : NewProfile(id, n)
  \/ \E ref \in Ref : ChangeProfile(ref)
  \/ \E w \in Worker, n \in NewName, target \in NewTarget : CreateApplication(w, n, target)
  \/ \E t \in Thread : WriteConfig(t)
  \/ Refused \/ Reload \/ Restart

Spec == Init /\ [][Next]_vars
-----------------------------------------------------------------------------
(* No two profiles bear a runtime name: one called "basic" has that of the *)
(* built-in one.                                                           *)
Unambiguous(d, n) ==
  \A i, j \in DOMAIN d.profiles :
    RuntimeName(d.profiles[i]) = n /\ RuntimeName(d.profiles[j]) = n => i = j

(* The application the profile is aimed at is its own: no other profile is *)
(* aimed at it, no other has its id.                                       *)
OwnsTarget(d, n) ==
  LET k == LastNamed(d, n)
      a == Aim(d.profiles[k])
  IN  a # None =>
        /\ \A i \in DOMAIN d.profiles : Aim(d.profiles[i]) = a => i = k
        /\ \A i, j \in DOMAIN d.apps : d.apps[i].id = a /\ d.apps[j].id = a => i = j

(* A profile p named n is still what it was, as q.  An emptied target does *)
(* not reach the domain, and a shared one is the last profile's.           *)
Keeps(d, n, p, q) ==
  /\ q.mode = p.mode /\ WideKeys(q.keys) = WideKeys(p.keys)
  /\ p.target # None /\ OwnsTarget(d, n) => q.target = p.target

(***************************************************************************)
(* The domain is sound, and the runtime profiles are those of the domain.  *)
(***************************************************************************)
DomainIsSound ==
  /\ domain \in Domain /\ IsSound(domain)
  /\ DOMAIN runtime = RuntimeNames(domain)
  /\ saving \subseteq Thread /\ clean \in BOOLEAN /\ ops \in 0..MaxOps

(***************************************************************************)
(* An operation on one profile leaves every other profile as it is, though *)
(* each projection rebuilds them all from the domain; but for the built-in *)
(* one while another bears its name.                                       *)
(***************************************************************************)
EditsAreLocal ==
  [][\A n \in DOMAIN runtime \ touched' :
       Unambiguous(domain, n) /\ Unambiguous(domain', n) =>
         /\ n \in DOMAIN runtime'
         /\ \/ runtime'[n] = runtime[n]
            \/ Keeps(Synced(domain, runtime, active), n, runtime[n], runtime'[n])]_vars

(* What config.ini can hold: its legacy form the targeted profiles whose   *)
(* name has no dot; and neither form a profile named like the built-in one, which is loaded     *)
(* into that, nor a built-in profile to which such a one has lent its mode.*)
Storable(n) ==
  /\ Serializable(domain) \/ (runtime[n].mode = "targeted" /\ n \notin Dotted)
  /\ LikeBuiltIn(n) => runtime[n].mode = "basic" /\ OneBuiltIn(domain)

(***************************************************************************)
(* What a save reported as done has written is what the next start loads.  *)
(***************************************************************************)
SavedIsLoaded ==
  clean => LET next == Projected(Loaded(file)) IN
           \A n \in DOMAIN runtime : Storable(n) =>
             n \in DOMAIN next /\ Keeps(domain, n, runtime[n], next[n])

(***************************************************************************)
(* The three forms of the profiles agree: domain, runtime and file.        *)
(***************************************************************************)
ProfilesAgree == DomainIsSound /\ SavedIsLoaded

(***************************************************************************)
(* What the answer to a reload says: if config.ini could not be read, the  *)
(* program runs on the defaults.  A profile that is no longer there routes *)
(* nothing.                                                                *)
(***************************************************************************)
ActiveExists == active \in DOMAIN runtime

(* What validateDomainModel demands besides: the active id is a profile's, *)
ActiveIdIsAProfile == domain.active \in Ids(domain)

(* no two applications have an id, *)
ApplicationsAreUnique ==
  \A i, j \in DOMAIN domain.apps : domain.apps[i].id = domain.apps[j].id => i = j

(* no profile links an application twice, *)
LinksAreUnique == \A i \in DOMAIN domain.profiles : IsInjective(domain.profiles[i].links)

(* and the built-in profile is a basic one. *)
BuiltInIsBasic == ProfileOf(domain, Normal).mode = "basic"

(* An operation that neither switches nor removes the active profile leaves *)
(* it active.                                                               *)
ActiveIsKept ==
  [][\/ active' = active \/ active \in touched' \/ ops' = ops
     \/ domain' = domain /\ runtime' = runtime]_vars

(* A save reported as done keeps every profile. *)
SavedProfilesReturn ==
  clean => DOMAIN runtime \subseteq DOMAIN Projected(Loaded(file))
=============================================================================
