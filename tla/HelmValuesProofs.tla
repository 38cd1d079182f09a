-------------------------- MODULE HelmValuesProofs --------------------------
(***************************************************************************)
(* Proofs about HelmValues, for all setups, charts, and values users may   *)
(* have given the releases.                                                *)
(*                                                                         *)
(* The argument is one for all four theorems.  What a release has after a  *)
(* call went past it is Upgraded(name, setup, chart, old) for some earlier *)
(* values old of known keys (Made), so it is enough to know what Upgraded  *)
(* makes of any old values; and what is known of an earlier release stays  *)
(* so while the call goes on, because nobody else writes it meanwhile.     *)
(***************************************************************************)
EXTENDS HelmValues, HelmReleasesProofs

Secrets == {"datastoreMongoDBSecretName"}

SettingKeys == {
    "pvcs", "clusterRouteDomain", "datastoreLabelGateway",
    "secretNameS3GraphLibrary", "secretNameS3InternalExperiments",
    "isGlobalRegistry", "backendEnableCanvas", "backendEnableBuildCanvas",
    "backendEnableEditExperiment", "backendEnableEditParameterisation",
    "backendEnableRunExperiment", "backendEnableLocalGraphLibraryWriteAccess",
    "imagePullSecrets"}

Keys(name) == SettingKeys \cup Switches \cup
    IF name = RELEASE_CLUSTER_SCOPED THEN {} ELSE {"imagesVariant", "routePrefix"}

Extra == {Key} \cup Secrets \cup UNION {DOMAIN v : v \in Customs}

-----------------------------------------------------------------------------
(* Sequences. *)

\* What was appended is the last element.
LEMMA AppendLast ==
    ASSUME NEW S, NEW older \in Seq(S), NEW v \in S
    PROVE  /\ Append(older, v) # <<>>
           /\ Append(older, v)[Len(Append(older, v))] = v
OBVIOUS

-----------------------------------------------------------------------------
(* The values of a setup. *)

\* Every release decides about every switch.
LEMMA EverySwitchIsDecided ==
    ASSUME NEW name \in Names, NEW p
    PROVE  SwitchOn(name) \cup SwitchOff(name, p) = Switches
<1>1. CASE name = RELEASE_CLUSTER_SCOPED
  BY <1>1, NamesDiffer
  DEF SwitchOn, SwitchOff, Switches, ClusterSwitches, UnmanagedSwitches,
      ManagedSwitches, CatalogSwitches
<1>2. CASE name = RELEASE_NAMESPACED_UNMANAGED
  BY <1>2, NamesDiffer
  DEF SwitchOn, SwitchOff, Switches, ClusterSwitches, UnmanagedSwitches,
      ManagedSwitches, CatalogSwitches
<1>3. CASE name = RELEASE_NAMESPACED_MANAGED
  BY <1>3, NamesDiffer
  DEF SwitchOn, SwitchOff, Switches, ClusterSwitches, UnmanagedSwitches,
      ManagedSwitches, CatalogSwitches
<1> QED BY <1>1, <1>2, <1>3 DEF Names

\* No switch is on in two releases.
LEMMA SwitchesAreDisjoint ==
    ASSUME NEW q \in Names, NEW r \in Names, NEW p, NEW k \in Switches,
           k \notin SwitchOff(q, p), k \notin SwitchOff(r, p)
    PROVE  q = r
<1>1. /\ Switches \ ClusterSwitches \subseteq SwitchOff(RELEASE_CLUSTER_SCOPED, p)
      /\ Switches \ UnmanagedSwitches
           \subseteq SwitchOff(RELEASE_NAMESPACED_UNMANAGED, p)
      /\ Switches \ ManagedSwitches
           \subseteq SwitchOff(RELEASE_NAMESPACED_MANAGED, p)
  BY NamesDiffer
  DEF SwitchOff, Switches, ClusterSwitches, UnmanagedSwitches, ManagedSwitches
<1>2. /\ ClusterSwitches \cap UnmanagedSwitches = {}
      /\ ClusterSwitches \cap ManagedSwitches = {}
      /\ UnmanagedSwitches \cap ManagedSwitches = {}
  BY DEF ClusterSwitches, UnmanagedSwitches, ManagedSwitches
<1> QED BY <1>1, <1>2 DEF Names

\* Off wins over on.
LEMMA SwitchedValue ==
    ASSUME NEW name \in Names, NEW s
    PROVE  /\ DOMAIN Switched(name, s) = Switches
           /\ \A k \in Switches :
                Switched(name, s)[k] = IF k \in SwitchOff(name, s.payload)
                                       THEN FALSE ELSE TRUE
BY EverySwitchIsDecided DEF Switched, MergeMaps, All

\* Which keys a setup has, the secret excepted, does not depend on it.
LEMMA SameKeys ==
    ASSUME NEW name \in Names, NEW s, NEW c
    PROVE  /\ Keys(name) \subseteq DOMAIN ConfigurationToHelmValues(name, s, c)
           /\ DOMAIN ConfigurationToHelmValues(name, s, c)
                \subseteq Keys(name) \cup Secrets
<1>1. DOMAIN Settings(s) = SettingKeys
  BY DEF Settings, SettingKeys
<1>2. DOMAIN Secret(s) \subseteq Secrets
  BY DEF Secret, Secrets, NoValues
<1>3. DOMAIN Namespaced(name, s, c)
        = IF name = RELEASE_CLUSTER_SCOPED THEN {}
          ELSE {"imagesVariant", "routePrefix"}
  BY DEF Namespaced, NoValues
<1>4. DOMAIN Catalog(s) \subseteq SettingKeys
  BY DEF Catalog, NoValues, MergeMaps, All, Forbidden, SettingKeys
<1>5. DOMAIN Switched(name, s) = Switches
  BY SwitchedValue
<1>6. DOMAIN ConfigurationToHelmValues(name, s, c)
        = DOMAIN Settings(s) \cup DOMAIN Secret(s)
            \cup DOMAIN Namespaced(name, s, c) \cup DOMAIN Catalog(s)
            \cup DOMAIN Switched(name, s)
  BY DEF ConfigurationToHelmValues, MergeMaps
<1> HIDE DEF Secrets, SettingKeys, Switches
<1> QED BY <1>1, <1>2, <1>3, <1>4, <1>5, <1>6 DEF Keys

\* A setup says nothing of the orchestrator arguments.
LEMMA KeyIsFree ==
    ASSUME NEW name \in Names, NEW s, NEW c
    PROVE  Key \notin DOMAIN ConfigurationToHelmValues(name, s, c)
<1>1. Key \notin Keys(name) \cup Secrets
  BY DEF Key, Keys, Secrets, SettingKeys, Switches, ClusterSwitches,
         UnmanagedSwitches, ManagedSwitches
<1> QED BY <1>1, SameKeys

\* The switches are the last word of a setup.
LEMMA SwitchesOfValues ==
    ASSUME NEW name \in Names, NEW s, NEW c, NEW k \in Switches
    PROVE  ConfigurationToHelmValues(name, s, c)[k]
             = IF k \in SwitchOff(name, s.payload) THEN FALSE ELSE TRUE
BY SwitchedValue DEF ConfigurationToHelmValues, MergeMaps

-----------------------------------------------------------------------------
(* The values of a release. *)

\* The new values are the fresh ones and what else was there.
UpgradeKeeps(name, fresh, new) ==
    /\ \A k \in DOMAIN fresh : k \in DOMAIN new /\ new[k] = fresh[k]
    /\ DOMAIN new \subseteq Keys(name) \cup Extra
    /\ name = RELEASE_CLUSTER_SCOPED => new = fresh

\* What the next revision of a release gets: the setup wins over the old values,
\* which only contribute what the setup does not know.
LEMMA UpgradedIsFresh ==
    ASSUME NEW name \in Names, NEW s, NEW c, NEW old,
           DOMAIN old \subseteq Keys(name) \cup Extra
    PROVE  UpgradeKeeps(name, ConfigurationToHelmValues(name, s, c),
                        Upgraded(name, s, c, old))
<1> DEFINE fresh == ConfigurationToHelmValues(name, s, c)
           new == Upgraded(name, s, c, old)
           merged == MergeMaps(old, fresh)
<1>1. DOMAIN fresh \subseteq Keys(name) \cup Extra /\ Key \notin DOMAIN fresh
  BY SameKeys, KeyIsFree DEF Extra
<1>2. CASE name = RELEASE_CLUSTER_SCOPED
  BY <1>1, <1>2 DEF Upgraded, UpgradeKeeps
<1>3. CASE name # RELEASE_CLUSTER_SCOPED
  <2>1. /\ DOMAIN merged = DOMAIN old \cup DOMAIN fresh
        /\ \A k \in DOMAIN fresh : merged[k] = fresh[k]
    BY DEF MergeMaps
  <2>2. /\ DOMAIN Ensured(name, merged) \subseteq DOMAIN merged \cup {Key}
        /\ \A k \in DOMAIN merged \ {Key} :
             k \in DOMAIN Ensured(name, merged) /\ Ensured(name, merged)[k] = merged[k]
    <3> HIDE DEF merged
    <3>1. CASE name = RELEASE_NAMESPACED_UNMANAGED
      BY <3>1
      DEF Ensured, EnsureProperDefaultOrchestratorArguments, MergeMaps, All
    <3>2. CASE name # RELEASE_NAMESPACED_UNMANAGED
      BY <3>2 DEF Ensured
    <3> QED BY <3>1, <3>2
  <2>3. new = Ensured(name, merged)
    BY <1>3 DEF Upgraded
  <2>4. Key \in Extra
    BY DEF Extra
  <2> HIDE DEF merged, new, fresh
  <2>5. \A k \in DOMAIN fresh : k \in DOMAIN new /\ new[k] = fresh[k]
    BY <1>1, <2>1, <2>2, <2>3
  <2>6. DOMAIN new \subseteq Keys(name) \cup Extra
    BY <1>1, <2>1, <2>2, <2>3, <2>4
  <2>7. UpgradeKeeps(name, fresh, new)
    BY <1>3, <2>5, <2>6 DEF UpgradeKeeps
  <2> QED BY <2>7 DEF fresh, new
<1> QED BY <1>2, <1>3

\* An installation is an upgrade of nothing.
LEMMA InstalledIsUpgraded ==
    ASSUME NEW name \in Names, NEW s, NEW c
    PROVE  Installed(name, s, c) = Upgraded(name, s, c, NoValues)
<1> DEFINE fresh == ConfigurationToHelmValues(name, s, c)
<1>1. fresh = [k \in DOMAIN fresh |-> fresh[k]]
  BY DEF ConfigurationToHelmValues, MergeMaps
<1>2. MergeMaps(NoValues, fresh) = fresh
  <2> HIDE DEF fresh
  <2> QED BY <1>1 DEF MergeMaps, NoValues
<1> HIDE DEF fresh
<1>3. CASE name = RELEASE_CLUSTER_SCOPED
  BY <1>3, NamesDiffer DEF Installed, Upgraded, Ensured, fresh
<1>4. CASE name # RELEASE_CLUSTER_SCOPED
  BY <1>2, <1>4 DEF Installed, Upgraded, fresh
<1> QED BY <1>3, <1>4

\* The list of arguments ends with the registration, which is not in what comes
\* before it.
Registers(list) ==
    /\ Len(list) <= 2
    /\ list[Len(list)] = Registration
    /\ Len(list) = 2 =>
         DOMAIN list[1] \cap DOMAIN Registration = {} /\ DOMAIN list[1] # {}

LEMMA EnsuredRegisters ==
    ASSUME NEW v
    PROVE  Registers(EnsureProperDefaultOrchestratorArguments(v)[Key])
<1> DEFINE list == EnsureProperDefaultOrchestratorArguments(v)[Key]
<1>1. list = IF DOMAIN Arguments(v) = {} THEN <<Registration>>
             ELSE <<Arguments(v), Registration>>
  BY DEF EnsureProperDefaultOrchestratorArguments, MergeMaps, All
<1>2. DOMAIN Arguments(v) \cap DOMAIN Registration = {}
  BY DEF Arguments
<1> HIDE DEF list
<1>3. Registers(list)
  <2>1. CASE DOMAIN Arguments(v) = {}
    <3>1. list = <<Registration>>
      BY <1>1, <2>1
    <3> QED BY <3>1 DEF Registers
  <2>2. CASE DOMAIN Arguments(v) # {}
    <3>1. list = <<Arguments(v), Registration>>
      BY <1>1, <2>2
    <3> QED BY <1>2, <2>2, <3>1 DEF Registers
  <2> QED BY <2>1, <2>2
<1> QED BY <1>3 DEF list

-----------------------------------------------------------------------------
(* The inductive invariant. *)

\* The newest revision of a release is what this call makes of some old values.
Made(name) ==
    /\ revisions[name] # <<>>
    /\ \E old : /\ DOMAIN old \subseteq Keys(name) \cup Extra
                 /\ Latest(name) = Upgraded(name, setup, chart, old)

\* Whatever is in a revision comes from a setup, or a user.
Known ==
    \A name \in Names : \A w \in RevisionsOf(name) :
        DOMAIN w \subseteq Keys(name) \cup Extra

Inv ==
    /\ DOMAIN revisions = Names
    /\ \A name \in Names : \E S : revisions[name] \in Seq(S)
    /\ part \in 0..3
    /\ Known
    /\ \A i \in 1..3 : i < part => Made(Releases[i])
    /\ settled => part = 0 /\ \A name \in Names : Made(name)

\* What Recorded leaves: v is the newest revision, the others are as they were.
LEMMA RecordedIsLatest ==
    ASSUME NEW name \in Names, NEW v, DOMAIN revisions = Names, Recorded(name, v)
    PROVE  /\ DOMAIN revisions' = Names
           /\ \A other \in Names \ {name} : revisions'[other] = revisions[other]
           /\ \E S : revisions'[name] \in Seq(S)
           /\ revisions'[name] # <<>>
           /\ Latest(name)' = v
           /\ RevisionsOf(name)' \subseteq RevisionsOf(name) \cup {v}
<1>1. PICK older \in {<<>>} \cup {<<w>> : w \in RevisionsOf(name) \cup {v}} :
        revisions' = [revisions EXCEPT ![name] = Append(older, v)]
  BY DEF Recorded
<1>2. revisions'[name] = Append(older, v)
  BY <1>1
<1> DEFINE Values == RevisionsOf(name) \cup {v}
<1>3. /\ older \in Seq(Values)
      /\ Append(older, v) \in Seq(Values)
      /\ \A i \in DOMAIN Append(older, v) : Append(older, v)[i] \in Values
  <2>1. older = <<>> \/ \E w \in Values : older = <<w>>
    BY <1>1
  <2>2. v \in Values
    OBVIOUS
  <2> HIDE DEF Values
  <2>3. <<>> \in Seq(Values) /\ \A w \in Values : <<w>> \in Seq(Values)
    OBVIOUS
  <2>4. older \in Seq(Values)
    BY <2>1, <2>3
  <2> QED BY <2>2, <2>4
<1>4. Append(older, v) # <<>> /\ Append(older, v)[Len(Append(older, v))] = v
  BY <1>3, AppendLast
<1> QED BY <1>1, <1>2, <1>3, <1>4 DEF Latest, RevisionsOf

-----------------------------------------------------------------------------
(* Inv is inductive. *)

LEMMA InitInv == Init => Inv
BY DEF Init, Inv, Known, RevisionsOf

\* The newest revision is one of the revisions.
LEMMA LatestIsARevision ==
    ASSUME Inv, NEW name \in Names, revisions[name] # <<>>
    PROVE  Latest(name) \in RevisionsOf(name)
<1>1. PICK S : revisions[name] \in Seq(S)
  BY DEF Inv
<1>2. Len(revisions[name]) \in DOMAIN revisions[name]
  BY <1>1
<1> QED BY <1>2 DEF Latest, RevisionsOf

\* What a release was made of does not change while its revisions, the setup and
\* the chart do not.
LEMMA MadeStays ==
    ASSUME NEW name \in Names, Made(name), revisions'[name] = revisions[name],
           setup' = setup, chart' = chart
    PROVE  Made(name)'
BY DEF Made, Latest

\* A revision with known keys leaves the revisions in shape.
LEMMA RecordedKeepsShape ==
    ASSUME Inv, NEW name \in Names, NEW v, Recorded(name, v),
           DOMAIN v \subseteq Keys(name) \cup Extra
    PROVE  /\ DOMAIN revisions' = Names
           /\ \A other \in Names : \E S : revisions'[other] \in Seq(S)
           /\ Known'
<1>1. /\ DOMAIN revisions' = Names
      /\ \A other \in Names \ {name} : revisions'[other] = revisions[other]
      /\ \E S : revisions'[name] \in Seq(S)
      /\ RevisionsOf(name)' \subseteq RevisionsOf(name) \cup {v}
  BY RecordedIsLatest DEF Inv
<1>2. \A other \in Names : \E S : revisions'[other] \in Seq(S)
  BY <1>1 DEF Inv
<1>3. ASSUME NEW other \in Names, NEW w \in RevisionsOf(other)'
      PROVE  DOMAIN w \subseteq Keys(other) \cup Extra
  <2>1. CASE other = name
    BY <1>1, <2>1 DEF Inv, Known
  <2>2. CASE other # name
    BY <1>1, <2>2 DEF Inv, Known, RevisionsOf
  <2> QED BY <2>1, <2>2
<1> QED BY <1>1, <1>2, <1>3 DEF Known

\* One release after the other is made of the setup.
LEMMA PartMakes ==
    ASSUME Inv, HelmDeployPart
    PROVE  Inv'
<1>1. PICK name \in Names : part \in 1..3 /\ name = Releases[part]
  BY ReleasesAreNames DEF HelmDeployPart, Inv
<1>2. PICK v, old :
        /\ Recorded(name, v)
        /\ DOMAIN old \subseteq Keys(name) \cup Extra
        /\ v = Upgraded(name, setup, chart, old)
  <2>1. CASE revisions[name] = <<>>
    <3>1. Recorded(name, Installed(name, setup, chart))
      BY <1>1, <2>1 DEF HelmDeployPart
    <3>2. DOMAIN NoValues \subseteq Keys(name) \cup Extra
      BY DEF NoValues
    <3> QED BY <1>1, <3>1, <3>2, InstalledIsUpgraded
  <2>2. CASE revisions[name] # <<>>
    <3>1. PICK old \in RevisionsOf(name) :
            Recorded(name, Upgraded(name, setup, chart, old))
      BY <1>1, <2>2 DEF HelmDeployPart
    <3>2. DOMAIN old \subseteq Keys(name) \cup Extra
      BY <1>1, <3>1 DEF Inv, Known
    <3> QED BY <3>1, <3>2
  <2> QED BY <2>1, <2>2
<1>3. DOMAIN v \subseteq Keys(name) \cup Extra
  BY <1>1, <1>2, UpgradedIsFresh DEF UpgradeKeeps
<1>4. /\ DOMAIN revisions' = Names
      /\ \A other \in Names : \E S : revisions'[other] \in Seq(S)
      /\ Known'
  BY <1>1, <1>2, <1>3, RecordedKeepsShape
<1>5. setup' = setup /\ chart' = chart
  BY DEF HelmDeployPart
<1>6. /\ Made(name)'
      /\ \A other \in Names \ {name} : revisions'[other] = revisions[other]
  <2>1. /\ \A other \in Names \ {name} : revisions'[other] = revisions[other]
        /\ revisions'[name] # <<>>
        /\ Latest(name)' = v
    BY <1>1, <1>2, RecordedIsLatest DEF Inv
  <2> QED BY <1>2, <1>5, <2>1 DEF Made, Latest
<1>7. \A i \in 1..3 : i <= part => Made(Releases[i])'
  <2> SUFFICES ASSUME NEW i \in 1..3, i <= part
               PROVE  Made(Releases[i])'
    OBVIOUS
  <2>1. CASE i = part
    BY <1>1, <1>6, <2>1
  <2>2. CASE i # part
    <3>1. i < part /\ Releases[i] \in Names \ {name}
      BY <1>1, <2>2, ReleasesAreNames
    <3>2. Made(Releases[i])
      BY <3>1 DEF Inv
    <3> QED BY <1>5, <1>6, <3>1, <3>2, MadeStays
  <2> QED BY <2>1, <2>2
<1>8. CASE part < 3
  <2>1. part' = part + 1 /\ settled' = settled /\ ~settled
    BY <1>1, <1>8, ReleasesAreNames DEF HelmDeployPart, Inv
  <2> QED BY <1>1, <1>4, <1>7, <1>8, <2>1 DEF Inv
<1>9. CASE part = 3
  <2>1. part' = 0
    BY <1>9, ReleasesAreNames DEF HelmDeployPart
  <2>2. \A other \in Names : Made(other)'
    BY <1>7, <1>9, ReleasesAreNames
  <2> QED BY <1>4, <2>1, <2>2 DEF Inv
<1> QED BY <1>1, <1>8, <1>9

\* The other steps leave the releases alone, or end what was settled.
LEMMA NextInv == Inv /\ [Next]_vars => Inv'
<1> SUFFICES ASSUME Inv, [Next]_vars PROVE Inv'
  OBVIOUS
<1>1. ASSUME NEW s \in Inputs, NEW c \in Charts, Call(s, c)
      PROVE  Inv'
  BY <1>1 DEF Call, Inv, Known, RevisionsOf
<1>2. CASE HelmDeployPart
  BY <1>2, PartMakes
<1>3. CASE CallStops
  BY <1>3 DEF CallStops, Inv, Known, RevisionsOf
<1>4. ASSUME NEW name \in Names, NEW v \in Customs, Customise(name, v)
      PROVE  Inv'
  <2> DEFINE w == MergeMaps(Latest(name), v)
  <2>1. Latest(name) \in RevisionsOf(name)
    BY <1>4, LatestIsARevision DEF Customise
  <2>2. DOMAIN w \subseteq Keys(name) \cup Extra
    BY <2>1 DEF Inv, Known, MergeMaps, Extra
  <2>3. Recorded(name, w)
    BY <1>4 DEF Customise
  <2> HIDE DEF w
  <2>4. /\ DOMAIN revisions' = Names
        /\ \A other \in Names : \E S : revisions'[other] \in Seq(S)
        /\ Known'
    BY <2>2, <2>3, RecordedKeepsShape
  <2>5. part' = 0 /\ settled' = FALSE
    BY <1>4 DEF Customise
  <2> QED BY <2>4, <2>5 DEF Inv
<1>5. ASSUME NEW name \in Names, Uninstall(name)
      PROVE  Inv'
  <2>1. part' = 0 /\ settled' = FALSE
    BY <1>5 DEF Uninstall
  <2>2. /\ DOMAIN revisions' = Names
        /\ revisions'[name] = <<>>
        /\ \A other \in Names \ {name} : revisions'[other] = revisions[other]
    BY <1>5 DEF Uninstall, Inv
  <2>3. \A other \in Names : \E S : revisions'[other] \in Seq(S)
    <3>1. <<>> \in Seq({})
      OBVIOUS
    <3> QED BY <2>2, <3>1 DEF Inv
  <2>4. Known'
    BY <2>2 DEF Inv, Known, RevisionsOf
  <2> QED BY <2>1, <2>2, <2>3, <2>4 DEF Inv
<1>6. CASE UNCHANGED vars
  BY <1>6 DEF vars, Inv, Known, RevisionsOf, Made, Latest
<1> QED BY <1>1, <1>2, <1>3, <1>4, <1>5, <1>6 DEF Next

LEMMA AlwaysInv == Spec => []Inv
BY InitInv, NextInv, PTL DEF Spec

-----------------------------------------------------------------------------
(* What follows for a release a call has made. *)

\* A release that was made has all the values of the setup.
LEMMA MadeIsFresh ==
    ASSUME NEW name \in Names, Made(name)
    PROVE  UpgradeKeeps(name, ConfigurationToHelmValues(name, setup, chart),
                        Latest(name))
BY UpgradedIsFresh DEF Made

\* ... the switches among them.
LEMMA MadeIsSwitched ==
    ASSUME NEW name \in Names, Made(name), NEW k \in Switches
    PROVE  /\ k \in DOMAIN Latest(name)
           /\ Latest(name)[k] = IF k \in SwitchOff(name, setup.payload)
                                THEN FALSE ELSE TRUE
<1>1. k \in DOMAIN ConfigurationToHelmValues(name, setup, chart)
  BY SameKeys DEF Keys
<1> QED BY <1>1, MadeIsFresh, SwitchesOfValues DEF UpgradeKeeps

\* In a public catalog, and out of one, the gates of a setup are what they must
\* be.
LEMMA Gates ==
    ASSUME NEW name \in Names, NEW s, NEW c
    PROVE  LET fresh == ConfigurationToHelmValues(name, s, c)
           IN  IF PublicCatalog[s.payload]
               THEN /\ \A k \in Forbidden : fresh[k] = FALSE
                    /\ fresh["isGlobalRegistry"] = TRUE
               ELSE fresh["backendEnableRunExperiment"] = TRUE
<1> DEFINE fresh == ConfigurationToHelmValues(name, s, c)
           told == MergeMaps(MergeMaps(Settings(s), Secret(s)),
                             Namespaced(name, s, c))
           gates == Forbidden \cup {"isGlobalRegistry"}
<1>1. gates \cap (Switches \cup Secrets \cup {"imagesVariant", "routePrefix"}) = {}
  BY DEF Forbidden, Switches, ClusterSwitches, UnmanagedSwitches,
         ManagedSwitches, Secrets
<1>2. \A k \in gates : k \in DOMAIN MergeMaps(told, Catalog(s)) =>
        fresh[k] = MergeMaps(told, Catalog(s))[k]
  <2>1. DOMAIN Switched(name, s) = Switches
    BY SwitchedValue
  <2> HIDE DEF gates
  <2> QED BY <1>1, <2>1 DEF ConfigurationToHelmValues, MergeMaps
<1>3. CASE PublicCatalog[s.payload]
  <2>1. /\ DOMAIN Catalog(s) = gates \cup {"backendEnableCanvas"}
        /\ \A k \in Forbidden : Catalog(s)[k] = FALSE
        /\ Catalog(s)["isGlobalRegistry"] = TRUE
    BY <1>3 DEF Catalog, MergeMaps, All, Forbidden
  <2>2. \A k \in gates : /\ k \in DOMAIN MergeMaps(told, Catalog(s))
                         /\ MergeMaps(told, Catalog(s))[k] = Catalog(s)[k]
    BY <2>1 DEF MergeMaps
  <2> QED BY <1>2, <1>3, <2>1, <2>2
<1>4. CASE ~PublicCatalog[s.payload]
  <2> DEFINE run == "backendEnableRunExperiment"
  <2>1. run \in gates /\ run \notin DOMAIN Secret(s)
        /\ run \notin DOMAIN Namespaced(name, s, c) /\ run \notin DOMAIN Catalog(s)
    BY <1>4 DEF Forbidden, Secret, Namespaced, Catalog, NoValues
  <2>2. run \in DOMAIN Settings(s) /\ Settings(s)[run] = TRUE
    BY DEF Settings
  <2>3. /\ run \in DOMAIN MergeMaps(told, Catalog(s))
        /\ MergeMaps(told, Catalog(s))[run] = TRUE
    <3> HIDE DEF run
    <3> QED BY <2>1, <2>2 DEF MergeMaps
  <2> QED BY <1>2, <1>4, <2>1, <2>3
<1> QED BY <1>3, <1>4

-----------------------------------------------------------------------------
(* The theorems. *)

\* Nothing of an earlier setup, chart or user overrides what a call deploys.
THEOREM NothingIsLeft == Spec => []AsFromScratch
<1>1. Inv => AsFromScratch
  <2> SUFFICES ASSUME Inv, settled, NEW name \in Names
               PROVE  LET fresh == ConfigurationToHelmValues(name, setup, chart)
                      IN  /\ \A k \in DOMAIN fresh : Latest(name)[k] = fresh[k]
                          /\ DOMAIN Latest(name) \ DOMAIN fresh \subseteq
                               IF name = RELEASE_CLUSTER_SCOPED THEN {}
                               ELSE {Key, "datastoreMongoDBSecretName"}
                                      \cup UNION {DOMAIN v : v \in Customs}
    BY DEF AsFromScratch
  <2> DEFINE fresh == ConfigurationToHelmValues(name, setup, chart)
  <2>1. UpgradeKeeps(name, fresh, Latest(name))
    BY MadeIsFresh DEF Inv
  <2>2. Keys(name) \subseteq DOMAIN fresh
    BY SameKeys
  <2> HIDE DEF fresh
  <2>3. \A k \in DOMAIN fresh : Latest(name)[k] = fresh[k]
    BY <2>1 DEF UpgradeKeeps
  <2>4. DOMAIN Latest(name) \ DOMAIN fresh \subseteq Extra
    BY <2>1, <2>2 DEF UpgradeKeeps
  <2>5. name = RELEASE_CLUSTER_SCOPED => DOMAIN Latest(name) \ DOMAIN fresh = {}
    BY <2>1 DEF UpgradeKeeps
  <2> QED BY <2>3, <2>4, <2>5 DEF fresh, Extra, Secrets
<1> QED BY <1>1, AlwaysInv, PTL

\* No component is installed by two releases.
THEOREM SwitchesHaveOneOwner == Spec => []OneOwner
<1>1. Inv => OneOwner
  <2> SUFFICES ASSUME Inv, settled, NEW switch \in Switches,
                      NEW q \in Names, NEW r \in Names,
                      Installs(q, switch), Installs(r, switch)
               PROVE  q = r
    BY DEF OneOwner
  <2>1. \A name \in {q, r} : switch \notin SwitchOff(name, setup.payload)
    BY MadeIsSwitched DEF Inv, Installs
  <2> QED BY <2>1, SwitchesAreDisjoint
<1> QED BY <1>1, AlwaysInv, PTL

\* A public catalog is read-only, and what is not one is complete.
THEOREM CatalogsAreReadOnly == Spec => []CatalogIsReadOnly
<1>1. Inv => CatalogIsReadOnly
  <2> SUFFICES ASSUME Inv, settled, NEW name \in Names
               PROVE  IF PublicCatalog[setup.payload]
                      THEN /\ \A k \in Forbidden \cup CatalogSwitches :
                                ~Latest(name)[k]
                           /\ Latest(name)["isGlobalRegistry"]
                      ELSE /\ Latest(name)["backendEnableRunExperiment"]
                           /\ \A k \in CatalogSwitches :
                                Latest(name)[k] = (name = RELEASE_NAMESPACED_MANAGED)
    BY DEF CatalogIsReadOnly
  <2> DEFINE fresh == ConfigurationToHelmValues(name, setup, chart)
  <2>1. Made(name)
    BY DEF Inv
  <2>2. Forbidden \cup {"isGlobalRegistry"} \subseteq DOMAIN fresh
    BY SameKeys DEF Keys, Forbidden, SettingKeys
  <2>3. \A k \in Forbidden \cup {"isGlobalRegistry"} : Latest(name)[k] = fresh[k]
    BY <2>1, <2>2, MadeIsFresh DEF UpgradeKeeps
  <2>4. \A k \in CatalogSwitches :
          Latest(name)[k] = IF k \in SwitchOff(name, setup.payload)
                            THEN FALSE ELSE TRUE
    BY <2>1, MadeIsSwitched DEF CatalogSwitches, Switches, ManagedSwitches
  <2>5. CASE PublicCatalog[setup.payload]
    <3>1. CatalogSwitches \subseteq SwitchOff(name, setup.payload)
      BY <2>5 DEF SwitchOff
    <3> QED BY <2>3, <2>4, <2>5, <3>1, Gates
  <2>6. CASE ~PublicCatalog[setup.payload]
    <3>1. \A k \in CatalogSwitches :
            k \notin SwitchOff(name, setup.payload) <=>
              name = RELEASE_NAMESPACED_MANAGED
      BY <2>6, NamesDiffer
      DEF SwitchOff, Names, CatalogSwitches, Switches, ClusterSwitches,
          UnmanagedSwitches, ManagedSwitches
    <3>2. Latest(name)["backendEnableRunExperiment"]
      BY <2>3, <2>6, Gates DEF Forbidden
    <3> QED BY <2>4, <2>6, <3>1, <3>2
  <2> QED BY <2>5, <2>6
<1> QED BY <1>1, AlwaysInv, PTL

\* The registration of workflows survives every rewriting of the list.
THEOREM WorkflowsAreRegistered == Spec => []WorkflowsRegister
<1>1. Inv => WorkflowsRegister
  <2> DEFINE name == RELEASE_NAMESPACED_UNMANAGED
  <2> SUFFICES ASSUME Inv, settled
               PROVE  Registers(Latest(name)[Key])
    BY DEF WorkflowsRegister, Registers
  <2>1. PICK old : Latest(name) = Upgraded(name, setup, chart, old)
    BY DEF Inv, Made, Names
  <2>2. \E v : Latest(name) = EnsureProperDefaultOrchestratorArguments(v)
    BY <2>1, NamesDiffer DEF Upgraded, Ensured
  <2> QED BY <2>2, EnsuredRegisters
<1> QED BY <1>1, AlwaysInv, PTL

-----------------------------------------------------------------------------
(* The arguments of users. *)

\* Which arguments there are is a matter of one key.
LEMMA ArgumentsOfKey ==
    ASSUME NEW v, NEW w, Key \in DOMAIN v <=> Key \in DOMAIN w,
           Key \in DOMAIN v => v[Key] = w[Key]
    PROVE  Arguments(v) = Arguments(w)
<1>1. CASE Key \in DOMAIN v
  <2>1. Key \in DOMAIN w /\ v[Key] = w[Key]
    BY <1>1
  <2>2. Collections(v) = Collections(w)
    BY <1>1, <2>1 DEF Collections
  <2> QED BY <2>1, <2>2 DEF Arguments
<1>2. CASE Key \notin DOMAIN v
  <2>1. Collections(v) = {} /\ Collections(w) = {}
    BY <1>2 DEF Collections
  <2> QED BY <2>1 DEF Arguments
<1> QED BY <1>1, <1>2

\* The arguments some user has given, or none.
Given == {Arguments(v) : v \in Customs} \cup {Arguments(NoValues)}

LEMMA NoneGiven ==
    ASSUME NEW v, Key \notin DOMAIN v
    PROVE  Arguments(v) = Arguments(NoValues)
BY ArgumentsOfKey DEF NoValues

\* The new list can be read, and holds the arguments of the old one.
LEMMA EnsuredKeepsArguments ==
    ASSUME NEW v, Arguments(v) \in Given
    PROVE  Arguments(EnsureProperDefaultOrchestratorArguments(v)) = Arguments(v)
<1> DEFINE new == EnsureProperDefaultOrchestratorArguments(v)
           old == Arguments(v)
<1>1. /\ Key \in DOMAIN new
      /\ new[Key] = IF DOMAIN old = {} THEN <<Registration>>
                    ELSE <<old, Registration>>
  BY DEF EnsureProperDefaultOrchestratorArguments, MergeMaps, All
<1>2. /\ DOMAIN old \cap DOMAIN Registration = {}
      /\ old = [a \in DOMAIN old |-> old[a]]
  BY DEF Arguments
<1> HIDE DEF new, old
<1>3. CASE DOMAIN old = {}
  <2>1. new[Key] = <<Registration>>
    BY <1>1, <1>3
  <2>2. \A i \in Collections(new) : new[Key][i] = Registration
    BY <2>1 DEF Collections
  <2>3. DOMAIN Arguments(new) = {}
    BY <2>2 DEF Arguments
  <2>4. Arguments(new) = [a \in DOMAIN Arguments(new) |-> Arguments(new)[a]]
    BY DEF Arguments
  <2> QED BY <1>2, <1>3, <2>3, <2>4 DEF new, old
<1>4. CASE DOMAIN old # {}
  <2>1. new[Key] = <<old, Registration>>
    BY <1>1, <1>4
  <2>2. DOMAIN Arguments(NoValues) = {}
    BY DEF Arguments, Collections, NoValues
  <2>3. Malformed # old /\ Malformed # <<old, Registration>>
    BY <1>4, <2>2, MalformedAssumption DEF Given, old
  <2>4. Collections(new) = {1, 2}
    BY <1>1, <2>1, <2>3, MalformedAssumption DEF Collections
  <2>5. (UNION {DOMAIN new[Key][i] : i \in Collections(new)}) \ DOMAIN Registration
          = DOMAIN old
    BY <1>2, <2>1, <2>4
  <2> DEFINE last(a) ==
        CHOOSE i \in Collections(new) :
          /\ a \in DOMAIN new[Key][i]
          /\ \A j \in Collections(new) : a \in DOMAIN new[Key][j] => j <= i
  <2>6. ASSUME NEW a \in DOMAIN old
        PROVE  last(a) = 1
    BY <1>2, <2>1, <2>4
  <2>7. Arguments(new) =
          [a \in (UNION {DOMAIN new[Key][i] : i \in Collections(new)})
                   \ DOMAIN Registration |-> new[Key][last(a)][a]]
    BY DEF Arguments
  <2> HIDE DEF last
  <2>8. Arguments(new) = [a \in DOMAIN old |-> new[Key][1][a]]
    BY <2>5, <2>6, <2>7
  <2> QED BY <1>2, <2>1, <2>8 DEF new, old
<1> QED BY <1>3, <1>4 DEF new, old

\* What a setup has in it is no argument, and an upgrade loses none.
LEMMA UpgradedKeepsArguments ==
    ASSUME NEW name \in Names, NEW s, NEW c, NEW old, Arguments(old) \in Given
    PROVE  /\ Arguments(Upgraded(name, s, c, old)) \in Given
           /\ name # RELEASE_CLUSTER_SCOPED =>
                Arguments(Upgraded(name, s, c, old)) = Arguments(old)
<1> DEFINE fresh == ConfigurationToHelmValues(name, s, c)
           merged == MergeMaps(old, fresh)
<1>1. Key \notin DOMAIN fresh
  BY KeyIsFree
<1> HIDE DEF fresh
<1>2. Arguments(merged) = Arguments(old)
  <2>1. /\ Key \in DOMAIN merged <=> Key \in DOMAIN old
        /\ Key \in DOMAIN merged => merged[Key] = old[Key]
    BY <1>1 DEF MergeMaps
  <2> HIDE DEF merged
  <2> QED BY <2>1, ArgumentsOfKey
<1> HIDE DEF merged
<1>3. CASE name = RELEASE_CLUSTER_SCOPED
  <2>1. Upgraded(name, s, c, old) = fresh
    BY <1>3 DEF Upgraded, fresh
  <2> QED BY <1>1, <1>3, <2>1, NoneGiven DEF Given
<1>4. CASE name # RELEASE_CLUSTER_SCOPED
  <2>1. Upgraded(name, s, c, old) = Ensured(name, merged)
    BY <1>4 DEF Upgraded, merged, fresh
  <2>2. Arguments(Ensured(name, merged)) = Arguments(merged)
    BY <1>2, EnsuredKeepsArguments DEF Ensured
  <2> QED BY <1>2, <1>4, <2>1, <2>2
<1> QED BY <1>3, <1>4

\* The arguments in a revision are those of some user, or none.
Provenance ==
    \A name \in Names : \A w \in RevisionsOf(name) : Arguments(w) \in Given

LEMMA InitProvenance == Init => Provenance
BY DEF Init, Provenance, RevisionsOf

LEMMA RecordedKeepsProvenance ==
    ASSUME Inv, Provenance, NEW name \in Names, NEW v, Recorded(name, v),
           Arguments(v) \in Given
    PROVE  Provenance'
<1>1. /\ \A other \in Names \ {name} : revisions'[other] = revisions[other]
      /\ RevisionsOf(name)' \subseteq RevisionsOf(name) \cup {v}
  BY RecordedIsLatest DEF Inv
<1>2. ASSUME NEW other \in Names, NEW w \in RevisionsOf(other)'
      PROVE  Arguments(w) \in Given
  <2>1. CASE other = name
    BY <1>1, <2>1 DEF Provenance
  <2>2. CASE other # name
    BY <1>1, <2>2 DEF Provenance, RevisionsOf
  <2> QED BY <2>1, <2>2
<1> QED BY <1>2 DEF Provenance, Given

\* A call that records a revision of a release.
LEMMA PartRecords ==
    ASSUME Inv, Provenance, HelmDeployPart
    PROVE  \E name, v, old :
             /\ name \in Names
             /\ Recorded(name, v)
             /\ v = Upgraded(name, setup, chart, old)
             /\ Arguments(old) \in Given
             /\ revisions[name] # <<>> => old \in RevisionsOf(name)
<1>1. PICK name \in Names : name = Releases[part]
  BY ReleasesAreNames DEF HelmDeployPart, Inv
<1>2. CASE revisions[name] = <<>>
  <2>1. Recorded(name, Installed(name, setup, chart))
    BY <1>1, <1>2 DEF HelmDeployPart
  <2> QED BY <1>2, <2>1, InstalledIsUpgraded DEF Given
<1>3. CASE revisions[name] # <<>>
  <2>1. PICK old \in RevisionsOf(name) :
          Recorded(name, Upgraded(name, setup, chart, old))
    BY <1>1, <1>3 DEF HelmDeployPart
  <2> QED BY <2>1 DEF Provenance
<1> QED BY <1>2, <1>3

LEMMA NextProvenance == Inv /\ Provenance /\ [Next]_vars => Provenance'
<1> SUFFICES ASSUME Inv, Provenance, [Next]_vars PROVE Provenance'
  OBVIOUS
<1>1. ASSUME revisions' = revisions
      PROVE  Provenance'
  BY <1>1 DEF Provenance, RevisionsOf, Given
<1>2. CASE HelmDeployPart
  <2>1. PICK name, v, old :
          /\ name \in Names
          /\ Recorded(name, v)
          /\ v = Upgraded(name, setup, chart, old)
          /\ Arguments(old) \in Given
    BY <1>2, PartRecords
  <2> QED BY <2>1, UpgradedKeepsArguments, RecordedKeepsProvenance
<1>3. ASSUME NEW name \in Names, NEW v \in Customs, Customise(name, v)
      PROVE  Provenance'
  <2> DEFINE w == MergeMaps(Latest(name), v)
  <2>1. Arguments(Latest(name)) \in Given
    BY <1>3, LatestIsARevision DEF Customise, Provenance
  <2>2. CASE Key \in DOMAIN v
    <3>1. Key \in DOMAIN w /\ w[Key] = v[Key]
      BY <2>2 DEF MergeMaps
    <3> HIDE DEF w
    <3>2. Arguments(w) = Arguments(v)
      BY <2>2, <3>1, ArgumentsOfKey
    <3> QED BY <1>3, <3>2, RecordedKeepsProvenance DEF Customise, Given, w
  <2>3. CASE Key \notin DOMAIN v
    <3>1. /\ Key \in DOMAIN w <=> Key \in DOMAIN Latest(name)
          /\ Key \in DOMAIN w => w[Key] = Latest(name)[Key]
      BY <2>3 DEF MergeMaps
    <3> HIDE DEF w
    <3>2. Arguments(w) = Arguments(Latest(name))
      BY <3>1, ArgumentsOfKey
    <3> QED BY <1>3, <2>1, <3>2, RecordedKeepsProvenance DEF Customise, w
  <2> QED BY <2>2, <2>3
<1>4. ASSUME NEW name \in Names, Uninstall(name)
      PROVE  Provenance'
  BY <1>4 DEF Uninstall, Inv, Provenance, RevisionsOf, Given
<1> QED BY <1>1, <1>2, <1>3, <1>4 DEF Next, Call, CallStops, vars

\* No call loses an argument that the revisions Helm keeps agree about.
THEOREM ArgumentsAreKept == Spec => ArgumentsKept
<1> DEFINE name == RELEASE_NAMESPACED_UNMANAGED
           Agreed(older) == \A other \in RevisionsOf(name) :
                              Arguments(other) = Arguments(older)
           Keeps == part > 0 => \A older \in RevisionsOf(name) :
                      Agreed(older) => Arguments(Latest(name)') = Arguments(older)
<1>1. Inv /\ Provenance /\ [Next]_vars => [Keeps]_vars
  <2> SUFFICES ASSUME Inv, Provenance, Next, part > 0,
                      NEW older \in RevisionsOf(name), Agreed(older)
               PROVE  Arguments(Latest(name)') = Arguments(older)
    OBVIOUS
  <2>1. revisions[name] # <<>> /\ name \in Names
    BY DEF RevisionsOf, Names
  <2>2. Arguments(Latest(name)) = Arguments(older)
    BY <2>1, LatestIsARevision
  <2>3. CASE HelmDeployPart
    <3>1. PICK r, v, old :
            /\ r \in Names
            /\ Recorded(r, v)
            /\ v = Upgraded(r, setup, chart, old)
            /\ Arguments(old) \in Given
            /\ revisions[r] # <<>> => old \in RevisionsOf(r)
      BY <2>3, PartRecords
    <3>2. CASE r = name
      <4>1. Latest(name)' = v
        BY <3>1, <3>2, RecordedIsLatest DEF Inv
      <4>2. Arguments(v) = Arguments(old)
        BY <3>1, <3>2, UpgradedKeepsArguments, NamesDiffer
      <4> QED BY <2>1, <3>1, <3>2, <4>1, <4>2
    <3>3. CASE r # name
      <4>1. revisions'[name] = revisions[name]
        BY <2>1, <3>1, <3>3, RecordedIsLatest DEF Inv
      <4> QED BY <2>2, <4>1 DEF Latest
    <3> QED BY <3>2, <3>3
  <2>4. CASE CallStops
    BY <2>2, <2>4 DEF CallStops, Latest
  <2>5. ~(\E s \in Inputs, c \in Charts : Call(s, c))
        /\ ~(\E r \in Names, v \in Customs : Customise(r, v))
        /\ ~(\E r \in Names : Uninstall(r))
    BY DEF Call, Customise, Uninstall
  <2> QED BY <2>3, <2>4, <2>5 DEF Next
<1>2. Spec => [][Keeps]_vars
  BY <1>1, AlwaysInv, InitProvenance, NextProvenance, PTL DEF Spec
<1> QED BY <1>2 DEF ArgumentsKept
=============================================================================
