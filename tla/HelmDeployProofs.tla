-------------------------- MODULE HelmDeployProofs --------------------------
(***************************************************************************)
(* Theorems about HelmDeploy, for all charts, setups, objects, CRDs and    *)
(* images, every number of retries and whatever may go wrong.              *)
(***************************************************************************)
EXTENDS HelmDeploy, HelmReleasesProofs

-----------------------------------------------------------------------------
(* The operators. *)

LEMMA ValuesType ==
    ASSUME NEW s \in Setups, NEW old \in Configs
    PROVE  /\ ConfigurationToHelmValues(s) \in Configs
           /\ MergeMaps(old, s) \in Configs
  <1>1. s.payload \in Payloads
    BY DEF Setups
  <1>2. Mongo[s.payload] \in Secrets \cup {Empty} /\ Default \in Customs
    BY <1>1, HelmDeployAssumption
  <1> QED BY <1>2 DEF ConfigurationToHelmValues, MergeMaps, Configs

\* Making room keeps revisions of the release, one at most.
LEMMA PrunedType ==
    ASSUME NEW history \in Seq(Revisions), Len(history) <= MaxHistory
    PROVE  /\ Pruned(history) \in Seq(Revisions)
           /\ Len(Pruned(history)) < MaxHistory
           /\ \A i \in DOMAIN Pruned(history) :
                \E j \in DOMAIN history : Pruned(history)[i] = history[j]
  <1> DEFINE deployed == {i \in DOMAIN history : history[i].status = "deployed"}
             one == IF deployed = {} THEN Len(history) ELSE CHOOSE i \in deployed : TRUE
  <1>1. CASE Len(history) < MaxHistory
    BY <1>1 DEF Pruned
  <1>2. CASE Len(history) = 2
    <2>1. one \in DOMAIN history
      <3>1. CASE deployed = {}
        BY <1>2, <3>1
      <3>2. CASE deployed # {}
        <4>1. one \in deployed
          BY <3>2
        <4> QED BY <4>1
      <3> QED BY <3>1, <3>2
    <2>2. Pruned(history) = <<history[one]>>
      BY <1>2 DEF Pruned, Latest, MaxHistory
    <2>3. history[one] \in Revisions
      BY <2>1
    <2> HIDE DEF one
    <2> QED BY <2>1, <2>2, <2>3 DEF MaxHistory
  <1>3. \A n \in Nat : n <= MaxHistory => n < MaxHistory \/ n = 2
    BY DEF MaxHistory
  <1>4. Len(history) \in Nat
    OBVIOUS
  <1> QED BY <1>1, <1>2, <1>3, <1>4

\* The end of an attempt changes no content.
LEMMA ConcludedType ==
    ASSUME NEW history \in Seq(Revisions), NEW good \in BOOLEAN
    PROVE  /\ Concluded(history, good) \in Seq(Revisions)
           /\ Len(Concluded(history, good)) = Len(history)
           /\ \A i \in DOMAIN history :
                Concluded(history, good)[i].content = history[i].content
  <1> DEFINE new == Concluded(history, good)
  <1>1. ASSUME NEW i \in 1..Len(history)
        PROVE  new[i] \in Revisions /\ new[i].content = history[i].content
    <2>1. history[i] \in Revisions
      OBVIOUS
    <2>2. \/ new[i] = history[i]
          \/ \E status \in {"deployed", "superseded", "failed"} :
               new[i] = [history[i] EXCEPT !.status = status]
      BY DEF Concluded
    <2> HIDE DEF new
    <2> QED BY <2>1, <2>2 DEF Revisions
  <1>2. DOMAIN new = 1..Len(history)
    BY DEF Concluded
  <1>3. new = [i \in 1..Len(history) |-> new[i]]
    BY <1>2 DEF Concluded
  <1> HIDE DEF new
  <1>4. new \in [1..Len(history) -> Revisions]
    BY <1>1, <1>3
  <1>5. new \in Seq(Revisions) /\ Len(new) = Len(history)
    BY <1>4
  <1> QED BY <1>1, <1>5 DEF new

\* A revision is added: it is the last one, and the others were there.
LEMMA AppendType ==
    ASSUME NEW history \in Seq(Revisions), Len(history) <= MaxHistory,
           NEW rev \in Revisions
    PROVE  LET new == Append(Pruned(history), rev)
           IN  /\ new \in Seq(Revisions) /\ Len(new) <= MaxHistory
               /\ new # <<>> /\ Latest(new) = rev
               /\ \A i \in DOMAIN new :
                    \/ new[i] = rev
                    \/ \E j \in DOMAIN history : new[i] = history[j]
  <1> DEFINE kept == Pruned(history)
             new == Append(kept, rev)
  <1>1. /\ kept \in Seq(Revisions) /\ Len(kept) < MaxHistory
        /\ \A i \in DOMAIN kept : \E j \in DOMAIN history : kept[i] = history[j]
    BY PrunedType
  <1> HIDE DEF kept
  <1>2. /\ new \in Seq(Revisions) /\ Len(new) = Len(kept) + 1 /\ new # <<>>
        /\ new[Len(new)] = rev
        /\ \A i \in DOMAIN new : \/ new[i] = rev
                                 \/ i \in DOMAIN kept /\ new[i] = kept[i]
    BY <1>1
  <1>3. Len(kept) \in Nat /\ \A n \in Nat : n < MaxHistory => n + 1 <= MaxHistory
    BY <1>1 DEF MaxHistory
  <1> HIDE DEF new
  <1> QED BY <1>1, <1>2, <1>3 DEF new, kept, Latest

-----------------------------------------------------------------------------
(* Type correctness. *)

LEMMA Bounds ==
    /\ CRDs \in Nat /\ Images \in Nat /\ MaxRetries \in Nat
    /\ MaxCalls \in Nat /\ MaxFaults \in Nat
    /\ Inputs \subseteq Setups
  BY HelmDeployAssumption

LEMMA InitTyped == Init => TypeOK
  <1> SUFFICES ASSUME Init PROVE TypeOK
    OBVIOUS
  <1>1. /\ <<>> \in Seq(Revisions) /\ Len(<<>>) <= MaxHistory
        /\ Len(Releases) = 3
    BY ReleasesAreNames DEF MaxHistory
  <1>2. values \in Configs
    BY HelmDeployAssumption DEF Init, ConfigurationToHelmValues, Configs, Setups
  <1>3. ClusterOK
    BY <1>1 DEF Init, ClusterOK, NotImported
  <1>4. CallOK
    <2>1. /\ 0 \in 0..MaxRetries /\ 0 \in 0..MaxCalls /\ 0 \in 0..(CRDs + Images)
          /\ 1 \in 1..Len(Releases)
      BY <1>1, Bounds
    <2> QED BY <1>1, <1>2, <2>1 DEF Init, CallOK
  <1>5. FaultsOK
    <2>1. 0 \in 0..MaxFaults
      BY Bounds
    <2> QED BY <2>1 DEF Init, FaultsOK
  <1> QED BY <1>3, <1>4, <1>5 DEF TypeOK

LEMMA FaultTyped ==
    ASSUME FaultsOK, NEW kind, NoFault \/ Fault(kind)
    PROVE  FaultsOK'
  <1>1. CASE NoFault
    BY <1>1 DEF FaultsOK, NoFault
  <1>2. CASE Fault(kind)
    <2>1. faults' \in 0..MaxFaults
      BY <1>2, Bounds DEF FaultsOK, Fault
    <2> QED BY <1>2, <2>1 DEF FaultsOK, Fault
  <1> QED BY <1>1, <1>2

LEMMA IdleTyped ==
    ASSUME CallOK, Idle, outcome' \in {"none", "ok", "error"}, chart' \in Charts,
           UNCHANGED <<configuration, calls>>
    PROVE  CallOK'
  <1>1. /\ <<>> \in Seq(Revisions) /\ Len(Releases) = 3
        /\ 0 \in 0..MaxRetries /\ 0 \in 0..(CRDs + Images)
        /\ 1 \in 1..Len(Releases)
    BY ReleasesAreNames, Bounds
  <1>2. values' \in Configs
    <2>1. configuration \in Setups /\ values \in Configs
      BY Bounds DEF CallOK
    <2> QED BY <2>1, ValuesType DEF Idle
  <1>3. inNamespace' \in [Names -> Seq(Revisions)]
    BY <1>1 DEF Idle
  <1> QED BY <1>1, <1>2, <1>3 DEF CallOK, Idle

LEMMA ReturnTyped ==
    ASSUME CallOK, NEW how \in {"ok", "error"}, Return(how)
    PROVE  CallOK'
  <1>1. Idle /\ outcome' = how /\ chart' = chart /\ UNCHANGED <<configuration, calls>>
    BY DEF Return
  <1> QED BY <1>1, IdleTyped DEF CallOK

\* The release a call is at, and the content it brings.
LEMMA AtRelease ==
    ASSUME CallOK
    PROVE  /\ part \in 1..3 /\ Release \in Names
           /\ Release = RELEASE_CLUSTER_SCOPED <=> part = 1
           /\ Content \in Contents
           /\ Extras \in 0..(CRDs + Images)
  <1>1. part \in 1..3 /\ Release \in Names
        /\ (Release = RELEASE_CLUSTER_SCOPED <=> part = 1)
    BY ReleasesAreNames DEF CallOK, Release
  <1>2. Content \in Contents
    BY DEF CallOK, Content, Contents
  <1>3. Extras \in 0..(CRDs + Images)
    BY <1>1, NamesDiffer, Bounds DEF Extras, Names
  <1> QED BY <1>1, <1>2, <1>3

LEMMA FaultsStep ==
    ASSUME FaultsOK, [Next]_vars
    PROVE  FaultsOK'
  <1>1. ASSUME NEW s, Call(s)
        PROVE  FaultsOK'
    BY <1>1 DEF Call, FaultsOK
  <1>2. CASE Step
    <2>1. NoFault \/ \E kind : Fault(kind)
      BY <1>2 DEF Step, ListReleases, ListFails, RefusePart, InstallPart, UpgradePart,
         Deploy, RunRefused, RunBegins, RunEnds, RunBreaks, AttemptSucceeds,
         InstallFails, RetryUpgrade, DeleteRoute, DeleteRouteFails, UpdateCRD,
         TriggerImportImage, Extra, ExtraFails, PartEnds
    <2> QED BY <2>1, FaultTyped
  <1>3. ASSUME NEW c, Upgrade(c)
        PROVE  FaultsOK'
    BY <1>3 DEF Upgrade, FaultsOK
  <1>4. ASSUME NEW c, Crash(c)
        PROVE  FaultsOK'
    BY <1>4, FaultTyped DEF Crash
  <1>5. ASSUME NEW name, NEW c, Customise(name, c) \/ Uninstall(name)
        PROVE  FaultsOK'
    BY <1>5 DEF Customise, Uninstall, Interferes, FaultsOK
  <1>6. CASE UNCHANGED vars
    BY <1>6 DEF vars, result, FaultsOK
  <1> QED BY <1>1, <1>2, <1>3, <1>4, <1>5, <1>6 DEF Next

\* The steps that leave the cluster and its record alone.
LEMMA ClusterUnchanged ==
    ASSUME \/ \E s : Call(s)
           \/ ListReleases \/ ListFails \/ RefusePart \/ InstallPart \/ UpgradePart
           \/ RunRefused \/ AttemptSucceeds \/ InstallFails \/ RetryUpgrade
           \/ DeleteRouteFails \/ ExtraFails \/ PartEnds
           \/ \E c : Upgrade(c)
           \/ UNCHANGED vars
    PROVE  UNCHANGED releases
  BY DEF Call, ListReleases, ListFails, RefusePart, InstallPart, UpgradePart, Deploy,
         RunRefused, AttemptSucceeds, InstallFails, RetryUpgrade, DeleteRouteFails,
         ExtraFails, PartEnds, Upgrade, vars

LEMMA ClusterStep ==
    ASSUME ClusterOK, CallOK, [Next]_vars
    PROVE  ClusterOK'
  <1>0. Release \in Names /\ Content \in Contents
    BY AtRelease
  <1>1. ASSUME NEW name \in Names, NEW history \in Seq(Revisions),
               Len(history) <= MaxHistory
        PROVE  /\ [storage EXCEPT ![name] = history] \in [Names -> Seq(Revisions)]
               /\ \A r \in Names :
                    Len([storage EXCEPT ![name] = history][r]) <= MaxHistory
    BY <1>1 DEF ClusterOK
  <1>2. ASSUME NEW os
        PROVE  Applied(os) \in [AllObjects -> Contents \cup {NoObject}]
    BY <1>0 DEF Applied, ClusterOK
  <1>3. ASSUME NEW good \in BOOLEAN
        PROVE  /\ Concluded(storage[Release], good) \in Seq(Revisions)
               /\ Len(Concluded(storage[Release], good)) <= MaxHistory
    BY <1>0, ConcludedType DEF ClusterOK
  <1>4. CASE UNCHANGED releases
    BY <1>4 DEF releases, ClusterOK
  <1>5. CASE RunBegins
    <2> DEFINE rev == [status |-> "pending", content |-> Content]
    <2>1. rev \in Revisions
      BY <1>0 DEF Revisions
    <2>2. storage[Release] \in Seq(Revisions) /\ Len(storage[Release]) <= MaxHistory
      BY <1>0 DEF ClusterOK
    <2>3. storage' = [storage EXCEPT ![Release] = Append(Pruned(storage[Release]), rev)]
      BY <1>5 DEF RunBegins
    <2> HIDE DEF rev
    <2>4. /\ Append(Pruned(storage[Release]), rev) \in Seq(Revisions)
          /\ Len(Append(Pruned(storage[Release]), rev)) <= MaxHistory
      BY <2>1, <2>2, AppendType
    <2> QED BY <1>0, <1>1, <1>5, <2>3, <2>4 DEF RunBegins, ClusterOK
  <1>6. CASE RunEnds \/ RunBreaks
    <2>1. PICK good \in BOOLEAN :
            storage' = [storage EXCEPT ![Release] = Concluded(storage[Release], good)]
      BY <1>6 DEF RunEnds, RunBreaks
    <2>2. /\ \E os : live' = Applied(os)
          /\ UNCHANGED <<crds, imported>>
      BY <1>6 DEF RunEnds, RunBreaks
    <2> QED BY <1>0, <1>1, <1>2, <1>3, <2>1, <2>2 DEF ClusterOK
  <1>7. CASE DeleteRoute
    BY <1>7 DEF DeleteRoute, ClusterOK
  <1>8. CASE UpdateCRD
    BY <1>8 DEF UpdateCRD, Extra, ClusterOK, CallOK
  <1>9. CASE TriggerImportImage
    BY <1>0, <1>9 DEF TriggerImportImage, Extra, ClusterOK
  <1>10. ASSUME NEW c, Crash(c)
         PROVE  ClusterOK'
    <2>1. live' = live \/ \E os : live' = Applied(os)
      BY <1>10 DEF Crash
    <2> QED BY <1>2, <1>10, <2>1 DEF Crash, ClusterOK
  <1>11. ASSUME NEW name \in Names, NEW c \in Customs, Customise(name, c)
         PROVE  ClusterOK'
    <2> DEFINE history == storage[name]
               content == [Latest(history).content EXCEPT !.config.custom = c]
               rev == [status |-> "pending", content |-> content]
               new == Concluded(Append(Pruned(history), rev), TRUE)
    <2>1. /\ history \in Seq(Revisions) /\ Len(history) <= MaxHistory
          /\ history # <<>>
      BY <1>11 DEF Customise, Interferes, Exists, ClusterOK
    <2>2. Latest(history) \in Revisions
      BY <2>1 DEF Latest
    <2>3. content \in Contents
      BY <2>2 DEF Revisions, Contents, Configs
    <2> HIDE DEF history, content
    <2>4. rev \in Revisions
      BY <2>3 DEF Revisions
    <2> HIDE DEF rev
    <2>5. new \in Seq(Revisions) /\ Len(new) <= MaxHistory
      BY <2>1, <2>4, AppendType, ConcludedType
    <2>6. /\ storage' = [storage EXCEPT ![name] = new]
          /\ live' = [o \in AllObjects |->
                        IF o \in RangeOf(Objects[name]) THEN content ELSE live[o]]
          /\ UNCHANGED <<crds, imported>>
      BY <1>11 DEF Customise, Interferes, history, content, rev
    <2> HIDE DEF new
    <2> QED BY <1>1, <2>3, <2>5, <2>6 DEF ClusterOK
  <1>12. ASSUME NEW name \in Names, Uninstall(name)
         PROVE  ClusterOK'
    <2>1. <<>> \in Seq(Revisions) /\ Len(<<>>) <= MaxHistory
      BY DEF MaxHistory
    <2>2. NotImported \in [1..Images -> Contents \cup {NoObject}]
      BY DEF NotImported
    <2> QED BY <1>1, <1>12, <2>1, <2>2 DEF Uninstall, Interferes, ClusterOK
  <1> QED BY <1>4, <1>5, <1>6, <1>7, <1>8, <1>9, <1>10, <1>11, <1>12,
             ClusterUnchanged DEF Next, Step

LEMMA RetryTyped ==
    ASSUME CallOK, NEW e \in BOOLEAN, Retry(e)
    PROVE  CallOK'
  <1>1. CASE /\ retries > 0 /\ Goto("run")
             /\ retries' = retries - 1 /\ err' = e
             /\ UNCHANGED <<asked, values, problems, outcome, calls>>
    <2>1. retries' \in 0..MaxRetries
      BY <1>1, Bounds DEF CallOK
    <2> QED BY <1>1, <2>1 DEF Goto, asked, CallOK
  <1>2. CASE Return("error")
    BY <1>2, ReturnTyped
  <1>3. CASE /\ Goto("after") /\ err' = e
             /\ UNCHANGED <<asked, values, retries, problems, outcome, calls>>
    BY <1>3 DEF Goto, asked, CallOK
  <1> QED BY <1>1, <1>2, <1>3 DEF Retry

LEMMA CallStep ==
    ASSUME ClusterOK, CallOK, [Next]_vars
    PROVE  CallOK'
  <1>0. /\ Release \in Names /\ part \in 1..3 /\ Extras \in 0..(CRDs + Images)
        /\ configuration \in Setups
    BY AtRelease, Bounds DEF CallOK
  <1>1. ASSUME NEW s \in Inputs, Call(s)
        PROVE  CallOK'
    <2>1. calls' \in 0..MaxCalls
      BY <1>1, Bounds DEF Call, CallOK
    <2>2. values' \in Configs
      BY <1>1, Bounds, ValuesType DEF Call, CallOK
    <2> QED BY <1>1, <2>1, <2>2 DEF Call, Goto, CallOK
  <1>2. CASE ListReleases
    BY <1>2 DEF ListReleases, Goto, attempt, CallOK, ClusterOK
  <1>3. CASE \/ ListFails \/ RefusePart \/ InstallFails \/ DeleteRouteFails
             \/ ExtraFails
    <2>1. Return("error")
      BY <1>3 DEF ListFails, RefusePart, InstallFails, DeleteRouteFails, ExtraFails
    <2> QED BY <2>1, ReturnTyped
  <1>4. ASSUME NEW v \in Configs, NEW max \in {0, MaxRetries}, Deploy(v, max)
        PROVE  CallOK'
    <2>1. max \in 0..MaxRetries
      BY <1>4, Bounds
    <2> QED BY <1>4, <2>1 DEF Deploy, Goto, asked, CallOK
  <1>5. CASE InstallPart
    <2>1. ConfigurationToHelmValues(configuration) \in Configs
      BY <1>0, ValuesType DEF CallOK
    <2> QED BY <1>4, <1>5, <2>1 DEF InstallPart
  <1>6. CASE UpgradePart
    <2>1. PICK i \in DOMAIN inNamespace[Release] :
            LET old == inNamespace[Release][i].content.config
            IN  Deploy(IF Release = RELEASE_CLUSTER_SCOPED
                       THEN ConfigurationToHelmValues(configuration)
                       ELSE MergeMaps(old, configuration), MaxRetries)
      BY <1>6 DEF UpgradePart
    <2> DEFINE old == inNamespace[Release][i].content.config
    <2>2. inNamespace[Release][i] \in Revisions
      BY <1>0, <2>1 DEF CallOK
    <2>3. old \in Configs
      BY <2>2 DEF Revisions, Contents
    <2> HIDE DEF old
    <2>4. /\ ConfigurationToHelmValues(configuration) \in Configs
          /\ MergeMaps(old, configuration) \in Configs
      BY <1>0, <2>3, ValuesType
    <2> QED BY <1>4, <2>1, <2>4 DEF old
  <1>7. CASE RunRefused
    BY <1>7 DEF RunRefused, Ran, Goto, asked, CallOK
  <1>8. CASE RunBegins
    BY <1>8 DEF RunBegins, Goto, asked, attempt, CallOK
  <1>9. CASE RunEnds \/ RunBreaks
    <2>1. PICK bad \in SUBSET RangeOf(Objects[Release]), e \in BOOLEAN : Ran(e, bad)
      BY <1>9 DEF RunEnds, RunBreaks
    <2>2. bad \subseteq AllObjects
      BY <1>0, <2>1 DEF AllObjects
    <2> QED BY <2>1, <2>2 DEF Ran, Goto, asked, CallOK
  <1>10. CASE AttemptSucceeds
    BY <1>10 DEF AttemptSucceeds, Goto, asked, attempt, CallOK
  <1>11. CASE RetryUpgrade \/ DeleteRoute
    BY <1>11, RetryTyped DEF RetryUpgrade, DeleteRoute
  <1>12. ASSUME NEW name, Extra(name)
         PROVE  CallOK'
    <2>1. done' \in 0..(CRDs + Images)
      BY <1>0, <1>12, Bounds DEF Extra, CallOK
    <2> QED BY <1>12, <2>1 DEF Extra, attempt, CallOK
  <1>13. CASE PartEnds
    <2>1. CASE Return("ok")
      BY <2>1, ReturnTyped
    <2>2. CASE /\ part < Len(Releases)
               /\ part' = part + 1 /\ done' = 0 /\ Goto("part")
               /\ UNCHANGED <<configuration, chart, inNamespace, attempt, outcome,
                               calls>>
      <3>1. part' \in 1..Len(Releases) /\ done' \in 0..(CRDs + Images)
        BY <2>2, ReleasesAreNames, Bounds DEF CallOK
      <3> QED BY <2>2, <3>1 DEF Goto, attempt, CallOK
    <2> QED BY <1>13, <2>1, <2>2 DEF PartEnds, NextPart
  <1>14. ASSUME NEW c \in Charts, Upgrade(c)
         PROVE  CallOK'
    BY <1>14 DEF Upgrade, attempt, CallOK
  <1>15. ASSUME NEW c \in Charts, Crash(c)
         PROVE  CallOK'
    BY <1>15, IdleTyped DEF Crash
  <1>16. ASSUME NEW name, NEW c, Customise(name, c) \/ Uninstall(name)
         PROVE  CallOK'
    <2>1. PICK kind : Interferes(kind, name)
      BY <1>16 DEF Customise, Uninstall
    <2>2. calls' \in 0..MaxCalls
      BY <2>1, Bounds DEF Interferes, CallOK
    <2> QED BY <2>1, <2>2 DEF Interferes, asked, attempt, CallOK
  <1>17. CASE UNCHANGED vars
    BY <1>17 DEF vars, asked, attempt, result, CallOK
  <1> QED BY <1>1, <1>2, <1>3, <1>5, <1>6, <1>7, <1>8, <1>9, <1>10, <1>11, <1>12,
             <1>13, <1>14, <1>15, <1>16, <1>17
          DEF Next, Step, UpdateCRD, TriggerImportImage

\* Whatever fails, crashes or is interfered with, at most two revisions of a
\* release are kept, and what is on the cluster comes from setups and charts.
THEOREM CallsAreTyped == Spec => []TypeOK
  <1>1. Init => TypeOK
    BY InitTyped
  <1>2. TypeOK /\ [Next]_vars => TypeOK'
    BY ClusterStep, CallStep, FaultsStep DEF TypeOK
  <1> QED BY <1>1, <1>2, PTL DEF Spec

-----------------------------------------------------------------------------
(* No workload is ahead of the CRDs. *)

\* The CRDs are never ahead of the operator, and they are with it from the
\* moment a call goes past the first release.
Progress ==
    /\ \A k \in 1..CRDs : crds[k] <= chart
    /\ pc \in {"idle", "list"} => part = 1
    /\ pc # "after" => done = 0
    /\ pc = "after" /\ part = 1 => \A k \in 1..CRDs : k <= done => crds[k] = chart
    /\ part > 1 => \A k \in 1..CRDs : crds[k] = chart

\* The CRDs are at least as new as the content.
Covered(content) == \A k \in 1..CRDs : content.chart <= crds[k]

\* They are for what is there of a workload, and for what Helm has a record of.
Backed ==
    \A name \in Names \ {RELEASE_CLUSTER_SCOPED} :
        /\ \A i \in DOMAIN storage[name] : Covered(storage[name][i].content)
        /\ \A o \in RangeOf(Objects[name]) :
             live[o] # NoObject => Covered(live[o])

\* Charts are numbers.
LEMMA Numbers ==
    ASSUME ClusterOK, CallOK
    PROVE  /\ Charts \subseteq Nat /\ chart \in Nat
           /\ \A k \in 1..CRDs : crds[k] \in Nat
           /\ \A content \in Contents : content.chart \in Nat
  <1>1. Charts \subseteq Nat
    BY HelmDeployAssumption
  <1>2. chart \in Nat
    BY <1>1 DEF CallOK
  <1>3. \A k \in 1..CRDs : crds[k] \in Charts \cup {0}
    BY DEF ClusterOK
  <1>4. \A content \in Contents : content.chart \in Charts
    BY DEF Contents
  <1>5. \A k \in 1..CRDs : crds[k] \in Nat
    <2> TAKE k \in 1..CRDs
    <2>1. CASE crds[k] = 0
      BY <2>1
    <2>2. CASE crds[k] \in Charts
      BY <1>1, <2>2
    <2> QED BY <1>3, <2>1, <2>2
  <1>6. \A content \in Contents : content.chart \in Nat
    BY <1>1, <1>4
  <1> QED BY <1>1, <1>2, <1>5, <1>6

LEMMA ProgressAtRest ==
    ASSUME Progress, Idle, UNCHANGED crds, chart' = chart
    PROVE  Progress'
  BY DEF Progress, Idle

LEMMA ProgressInit == Init => Progress
  <1> SUFFICES ASSUME Init PROVE Progress
    OBVIOUS
  <1>1. \A k \in 1..CRDs : crds[k] <= chart
    BY HelmDeployAssumption DEF Init
  <1> QED BY <1>1 DEF Init, Progress

LEMMA ProgressStep ==
    ASSUME ClusterOK, CallOK, Progress, [Next]_vars
    PROVE  Progress'
  <1>0. /\ part \in 1..3 /\ CRDs \in Nat /\ done \in Nat
        /\ Release = RELEASE_CLUSTER_SCOPED <=> part = 1
    BY AtRelease, Bounds DEF CallOK
  <1>1. ASSUME NEW how, Return(how), UNCHANGED crds
        PROVE  Progress'
    BY <1>1, ProgressAtRest DEF Return
  <1>2. CASE (\E s : Call(s)) \/ UNCHANGED vars
    BY <1>2 DEF Call, Goto, releases, asked, vars, Progress
  <1>3. CASE \/ ListReleases \/ InstallPart \/ UpgradePart
             \/ RunRefused \/ RunBegins \/ RunEnds \/ RunBreaks \/ AttemptSucceeds
    <2>1. /\ pc' \in {"part", "run", "apply", "ran", "after"}
          /\ pc \notin {"idle", "after"}
          /\ UNCHANGED <<crds, chart, part, done>>
      BY <1>3 DEF ListReleases, InstallPart, UpgradePart, Deploy, RunRefused, RunBegins,
                  RunEnds, RunBreaks, AttemptSucceeds, Ran, Goto, releases, asked
    <2> QED BY <1>0, <2>1 DEF Progress
  <1>4. CASE \/ ListFails \/ RefusePart \/ InstallFails \/ DeleteRouteFails
             \/ ExtraFails
    BY <1>1, <1>4 DEF ListFails, RefusePart, InstallFails, DeleteRouteFails, ExtraFails,
                      releases
  <1>5. CASE RetryUpgrade \/ DeleteRoute
    <2>1. pc = "ran" /\ UNCHANGED crds /\ \E e : Retry(e)
      BY <1>5 DEF RetryUpgrade, DeleteRoute, releases
    <2>2. CASE Return("error")
      BY <1>1, <2>1, <2>2
    <2>3. CASE pc' \in {"run", "after"} /\ UNCHANGED asked
      BY <1>0, <2>1, <2>3 DEF asked, Progress
    <2> QED BY <2>1, <2>2, <2>3 DEF Retry, Goto
  <1>6. CASE UpdateCRD
    <2>1. /\ pc = "after" /\ pc' = "after" /\ part = 1 /\ part' = 1
          /\ chart' = chart /\ done' = done + 1
          /\ crds' = [crds EXCEPT ![done'] = chart]
      BY <1>0, <1>6 DEF UpdateCRD, Extra
    <2>2. /\ chart \in Nat /\ crds \in [1..CRDs -> Nat]
      BY Numbers DEF ClusterOK
    <2>3. \A k \in 1..CRDs : crds'[k] = IF k = done + 1 THEN chart ELSE crds[k]
      BY <2>1, <2>2
    <2>4. \A k \in 1..CRDs : k <= done + 1 => k = done + 1 \/ k <= done
      BY <1>0
    <2> QED BY <1>0, <2>1, <2>2, <2>3, <2>4 DEF Progress
  <1>7. CASE TriggerImportImage
    <2>1. /\ pc = "after" /\ pc' = "after" /\ part # 1
          /\ UNCHANGED <<chart, crds, part>>
      BY <1>0, <1>7, NamesDiffer DEF TriggerImportImage, Extra
    <2> QED BY <1>0, <2>1 DEF Progress
  <1>8. CASE PartEnds
    <2>1. pc = "after" /\ done = Extras /\ UNCHANGED crds /\ NextPart
      BY <1>8 DEF PartEnds, releases
    <2>2. CASE Return("ok")
      BY <1>1, <2>1, <2>2
    <2>3. CASE pc' = "part" /\ part' = part + 1 /\ done' = 0 /\ chart' = chart
      <3>1. \A k \in 1..CRDs : crds[k] = chart
        <4>1. CASE part = 1
          <5>1. done = CRDs
            BY <1>0, <2>1, <4>1, NamesDiffer DEF Extras
          <5> QED BY <1>0, <2>1, <4>1, <5>1 DEF Progress
        <4>2. CASE part # 1
          BY <1>0, <4>2 DEF Progress
        <4> QED BY <4>1, <4>2
      <3> QED BY <1>0, <2>1, <2>3, <3>1 DEF Progress
    <2> QED BY <2>1, <2>2, <2>3 DEF NextPart, Goto
  <1>9. ASSUME NEW c \in Charts, Upgrade(c) \/ Crash(c)
        PROVE  Progress'
    <2>1. chart' = c /\ c >= chart /\ UNCHANGED crds
      BY <1>9, Numbers DEF Upgrade, Crash, releases
    <2>2. \A k \in 1..CRDs : crds'[k] <= chart'
      BY <2>1, Numbers DEF Progress
    <2>3. pc' = "idle" /\ part' = 1 /\ done' = 0
      BY <1>9 DEF Upgrade, Crash, Idle, Progress
    <2> QED BY <2>2, <2>3 DEF Progress
  <1>10. ASSUME NEW name, NEW c, Customise(name, c) \/ Uninstall(name)
         PROVE  Progress'
    BY <1>10 DEF Customise, Uninstall, Interferes, asked, Progress
  <1> QED BY <1>2, <1>3, <1>4, <1>5, <1>6, <1>7, <1>8, <1>9, <1>10 DEF Next, Step

\* What a step leaves on the cluster and in Helm's record was there, or is of the
\* chart of the release that the call has come to, or is of a recorded one.
LEMMA BackedStep ==
    ASSUME ClusterOK, CallOK, Progress, Backed, [Next]_vars
    PROVE  Backed'
  <1> DEFINE Workloads == Names \ {RELEASE_CLUSTER_SCOPED}
  <1>0. /\ Release \in Names /\ Content \in Contents /\ Content.chart = chart
        /\ Release = RELEASE_CLUSTER_SCOPED <=> part = 1
        /\ part \in 1..3
    BY AtRelease DEF Content
  <1>1. Release \in Workloads => Covered(Content)
    <2> SUFFICES ASSUME Release \in Workloads PROVE Covered(Content)
      OBVIOUS
    <2>1. \A k \in 1..CRDs : crds[k] = chart
      BY <1>0 DEF Progress
    <2> QED BY <1>0, <2>1, Numbers DEF Covered
  <1>2. ASSUME NEW os \in SUBSET RangeOf(Objects[Release]), live' = Applied(os),
               NEW name \in Workloads, NEW o \in RangeOf(Objects[name]),
               live'[o] # NoObject
        PROVE  Covered(live'[o])
    <2>1. o \in AllObjects
      BY DEF AllObjects
    <2>2. CASE o \in os
      <3>1. name = Release
        BY <1>0, <1>2, <2>2, HelmDeployAssumption
      <3> QED BY <1>1, <1>2, <2>1, <2>2, <3>1 DEF Applied
    <2>3. CASE o \notin os
      BY <1>2, <2>1, <2>3 DEF Applied, Backed
    <2> QED BY <2>2, <2>3
  <1>3. ASSUME UNCHANGED <<storage, live, crds>>
        PROVE  Backed'
    BY <1>3 DEF Backed, Covered
  <1>4. ASSUME UNCHANGED crds,
               \A name \in Workloads : \A i \in DOMAIN storage'[name] :
                    Covered(storage'[name][i].content),
               \A name \in Workloads : \A o \in RangeOf(Objects[name]) :
                    live'[o] # NoObject => Covered(live'[o])
        PROVE  Backed'
    BY <1>4 DEF Backed, Covered
  <1>5. \A name \in Names : /\ storage[name] \in Seq(Revisions)
                            /\ Len(storage[name]) <= MaxHistory
    BY DEF ClusterOK
  <1>6. CASE RunBegins
    <2> DEFINE rev == [status |-> "pending", content |-> Content]
               new == Append(Pruned(storage[Release]), rev)
    <2>1. /\ storage' = [storage EXCEPT ![Release] = new]
          /\ UNCHANGED <<live, crds>>
      BY <1>6 DEF RunBegins
    <2>2. rev \in Revisions /\ rev.content = Content
      BY <1>0 DEF Revisions
    <2> HIDE DEF rev
    <2>3. \A i \in DOMAIN new : \/ new[i] = rev
                                \/ \E j \in DOMAIN storage[Release] :
                                     new[i] = storage[Release][j]
      BY <1>0, <1>5, <2>2, AppendType
    <2> HIDE DEF new
    <2>4. ASSUME NEW name \in Workloads, NEW i \in DOMAIN storage'[name]
          PROVE  Covered(storage'[name][i].content)
      <3>1. CASE name = Release
        <4>1. storage'[name] = new
          BY <1>0, <2>1, <3>1 DEF ClusterOK
        <4>2. \A j \in DOMAIN storage[Release] : Covered(storage[Release][j].content)
          BY <3>1 DEF Backed
        <4> QED BY <1>1, <2>2, <2>3, <2>4, <3>1, <4>1, <4>2
      <3>2. CASE name # Release
        BY <2>1, <2>4, <3>2 DEF ClusterOK, Backed
      <3> QED BY <3>1, <3>2
    <2> QED BY <1>4, <2>1, <2>4 DEF Backed
  <1>7. CASE RunEnds \/ RunBreaks
    <2>1. PICK good \in BOOLEAN :
            storage' = [storage EXCEPT ![Release] = Concluded(storage[Release], good)]
      BY <1>7 DEF RunEnds, RunBreaks
    <2>2. PICK os \in SUBSET RangeOf(Objects[Release]) : live' = Applied(os)
      BY <1>7 DEF RunEnds, RunBreaks
    <2>3. UNCHANGED crds
      BY <1>7 DEF RunEnds, RunBreaks
    <2>4. ASSUME NEW name \in Workloads, NEW i \in DOMAIN storage'[name]
          PROVE  Covered(storage'[name][i].content)
      <3>1. CASE name = Release
        <4>1. storage'[name] = Concluded(storage[name], good)
          BY <1>0, <2>1, <3>1 DEF ClusterOK
        <4>2. /\ i \in DOMAIN storage[name]
              /\ storage'[name][i].content = storage[name][i].content
          BY <1>5, <2>4, <4>1, ConcludedType
        <4> QED BY <4>2 DEF Backed
      <3>2. CASE name # Release
        BY <2>1, <2>4, <3>2 DEF ClusterOK, Backed
      <3> QED BY <3>1, <3>2
    <2> QED BY <1>2, <1>4, <2>2, <2>3, <2>4
  <1>8. CASE DeleteRoute
    <2>1. PICK route \in Routes : live' = [live EXCEPT ![route] = NoObject]
      BY <1>8 DEF DeleteRoute
    <2>2. ASSUME NEW name \in Workloads, NEW o \in RangeOf(Objects[name]),
                 live'[o] # NoObject
          PROVE  Covered(live'[o])
      <3>1. o \in AllObjects
        BY DEF AllObjects
      <3> QED BY <2>1, <2>2, <3>1 DEF ClusterOK, Backed
    <2>3. UNCHANGED <<storage, crds>>
      BY <1>8 DEF DeleteRoute
    <2> QED BY <1>4, <2>2, <2>3 DEF Backed
  <1>9. CASE UpdateCRD
    <2>1. /\ crds' = [crds EXCEPT ![done'] = chart] /\ UNCHANGED <<storage, live>>
      BY <1>9 DEF UpdateCRD, Extra
    <2>2. /\ chart \in Nat /\ crds \in [1..CRDs -> Nat]
      BY Numbers DEF ClusterOK
    <2>3. \A k \in 1..CRDs : crds[k] <= crds'[k] /\ crds'[k] \in Nat
      BY <2>1, <2>2 DEF Progress
    <2>4. ASSUME NEW content \in Contents, Covered(content)
          PROVE  Covered(content)'
      <3>1. content.chart \in Nat
        BY <2>4, Numbers
      <3> QED BY <2>2, <2>3, <2>4, <3>1 DEF Covered
    <2>5. ASSUME NEW name \in Workloads, NEW i \in DOMAIN storage[name]
          PROVE  storage[name][i].content \in Contents
      <3>1. storage[name][i] \in Revisions
        BY <1>5
      <3> QED BY <3>1 DEF Revisions
    <2>6. ASSUME NEW name \in Workloads, NEW o \in RangeOf(Objects[name]),
                 live[o] # NoObject
          PROVE  live[o] \in Contents
      <3>1. o \in AllObjects
        BY DEF AllObjects
      <3> QED BY <2>6, <3>1 DEF ClusterOK
    <2>7. ASSUME NEW name \in Workloads, NEW i \in DOMAIN storage[name]
          PROVE  Covered(storage[name][i].content)'
      <3>1. Covered(storage[name][i].content)
        BY DEF Backed
      <3> QED BY <2>1, <2>4, <2>5, <3>1 DEF Covered
    <2>8. ASSUME NEW name \in Workloads, NEW o \in RangeOf(Objects[name]),
                 live[o] # NoObject
          PROVE  Covered(live[o])'
      <3>1. Covered(live[o])
        BY <2>8 DEF Backed
      <3> QED BY <2>1, <2>4, <2>6, <2>8, <3>1 DEF Covered
    <2> QED BY <2>1, <2>7, <2>8 DEF Backed
  <1>10. CASE TriggerImportImage
    BY <1>3, <1>10 DEF TriggerImportImage, Extra
  <1>11. ASSUME NEW c, Crash(c)
         PROVE  Backed'
    <2>1. UNCHANGED <<storage, crds>>
      BY <1>11 DEF Crash
    <2>2. CASE live' = live
      BY <1>3, <2>1, <2>2
    <2>3. CASE \E os \in SUBSET RangeOf(Objects[Release]) : live' = Applied(os)
      BY <1>2, <1>4, <2>1, <2>3 DEF Backed
    <2> QED BY <1>11, <2>2, <2>3 DEF Crash
  <1>12. ASSUME NEW name \in Names, NEW c \in Customs, Customise(name, c)
         PROVE  Backed'
    <2> DEFINE history == storage[name]
               content == [Latest(history).content EXCEPT !.config.custom = c]
               rev == [status |-> "pending", content |-> content]
               longer == Append(Pruned(history), rev)
               new == Concluded(longer, TRUE)
    <2>1. /\ history \in Seq(Revisions) /\ Len(history) <= MaxHistory
          /\ history # <<>>
      BY <1>5, <1>12 DEF Customise, Interferes, Exists
    <2>2. Len(history) \in DOMAIN history /\ Latest(history) \in Revisions
      BY <2>1 DEF Latest
    <2>3. /\ content \in Contents
          /\ content.chart = history[Len(history)].content.chart
      BY <2>2 DEF Revisions, Contents, Configs, Latest
    <2>4. /\ storage' = [storage EXCEPT ![name] = new]
          /\ live' = [o \in AllObjects |->
                        IF o \in RangeOf(Objects[name]) THEN content ELSE live[o]]
          /\ UNCHANGED crds
      BY <1>12 DEF Customise, Interferes
    <2>5. name \in Workloads => Covered(content)
      BY <2>2, <2>3 DEF Backed, Covered
    <2> HIDE DEF history, content
    <2>6. rev \in Revisions /\ rev.content = content
      BY <2>3 DEF Revisions
    <2> HIDE DEF rev
    <2>7. /\ longer \in Seq(Revisions)
          /\ \A i \in DOMAIN longer : \/ longer[i] = rev
                                      \/ \E j \in DOMAIN history :
                                           longer[i] = history[j]
      BY <2>1, <2>6, AppendType
    <2> HIDE DEF longer
    <2>8. \A i \in DOMAIN new : i \in DOMAIN longer /\ new[i].content = longer[i].content
      <3>1. /\ new \in Seq(Revisions) /\ Len(new) = Len(longer)
            /\ \A i \in DOMAIN longer : new[i].content = longer[i].content
        BY <2>7, ConcludedType
      <3> HIDE DEF new
      <3>2. DOMAIN new = DOMAIN longer
        BY <2>7, <3>1
      <3> QED BY <3>1, <3>2
    <2> HIDE DEF new
    <2>9. ASSUME NEW q \in Workloads, NEW i \in DOMAIN storage'[q]
          PROVE  Covered(storage'[q][i].content)
      <3>1. CASE q = name
        <4>1. storage'[q] = new
          BY <2>4, <3>1 DEF ClusterOK
        <4>2. \A j \in DOMAIN history : Covered(history[j].content)
          BY <3>1 DEF Backed, history
        <4> QED BY <2>5, <2>6, <2>7, <2>8, <2>9, <3>1, <4>1, <4>2
      <3>2. CASE q # name
        BY <2>4, <2>9, <3>2 DEF ClusterOK, Backed
      <3> QED BY <3>1, <3>2
    <2>10. ASSUME NEW q \in Workloads, NEW o \in RangeOf(Objects[q]),
                  live'[o] # NoObject
           PROVE  Covered(live'[o])
      <3>1. o \in AllObjects
        BY DEF AllObjects
      <3>2. CASE o \in RangeOf(Objects[name])
        <4>1. q = name
          BY <3>2, HelmDeployAssumption
        <4> QED BY <2>4, <2>5, <3>1, <3>2, <4>1
      <3>3. CASE o \notin RangeOf(Objects[name])
        BY <2>4, <2>10, <3>1, <3>3 DEF Backed
      <3> QED BY <3>2, <3>3
    <2> QED BY <1>4, <2>4, <2>9, <2>10
  <1>13. ASSUME NEW name \in Names, Uninstall(name)
         PROVE  Backed'
    <2>1. /\ storage' = [storage EXCEPT ![name] = <<>>]
          /\ live' = [o \in AllObjects |->
                        IF o \in RangeOf(Objects[name]) THEN NoObject ELSE live[o]]
          /\ UNCHANGED crds
      BY <1>13 DEF Uninstall, Interferes
    <2>2. ASSUME NEW q \in Workloads, NEW i \in DOMAIN storage'[q]
          PROVE  Covered(storage'[q][i].content)
      BY <2>1, <2>2 DEF ClusterOK, Backed
    <2>3. ASSUME NEW q \in Workloads, NEW o \in RangeOf(Objects[q]),
                 live'[o] # NoObject
          PROVE  Covered(live'[o])
      <3>1. o \in AllObjects
        BY DEF AllObjects
      <3> QED BY <2>1, <2>3, <3>1 DEF Backed
    <2> QED BY <1>4, <2>1, <2>2, <2>3
  <1>14. CASE UNCHANGED releases
    BY <1>3, <1>14 DEF releases
  <1> QED BY <1>6, <1>7, <1>8, <1>9, <1>10, <1>11, <1>12, <1>13, <1>14,
             ClusterUnchanged DEF Next, Step

\* A workload never runs a chart that is newer than the CRDs on the cluster, at
\* whatever point calls fail or the operator dies, and whoever else uses helm.
THEOREM WorkloadsFollow == Spec => []CRDsFirst
  <1>1. Init => Progress /\ Backed
    <2> SUFFICES ASSUME Init PROVE Backed
      BY ProgressInit
    <2>1. \A name \in Names : \A o \in RangeOf(Objects[name]) : o \in AllObjects
      BY DEF AllObjects
    <2> QED BY <2>1 DEF Init, Backed
  <1>2. TypeOK /\ Progress /\ Backed /\ [Next]_vars => Progress' /\ Backed'
    BY ProgressStep, BackedStep DEF TypeOK
  <1>3. Backed => CRDsFirst
    BY DEF Backed, Covered, CRDsFirst
  <1> QED BY <1>1, <1>2, <1>3, CallsAreTyped, PTL DEF Spec

-----------------------------------------------------------------------------
(* What a successful call leaves in the values. *)

\* The values of an attempt for the release name are those the call is to leave.
Fits(name, config) ==
    /\ name = RELEASE_CLUSTER_SCOPED => config.custom = Default
    /\ Mongo[configuration.payload] # Empty =>
         config.secret = Mongo[configuration.payload]

Recorded(name) == Exists(name) /\ Fits(name, Latest(storage[name]).content.config)

\* The attempt was recorded, and may be the last one.
Attempted ==
    \/ pc \in {"apply", "after"}
    \/ pc = "ran" /\ (err => problems # {})

Kept ==
    /\ pc \in {"run", "apply", "ran", "after"} => Fits(Release, values)
    /\ Attempted => Recorded(Release)
    /\ pc # "idle" => \A k \in 1..3 : k < part => Recorded(Releases[k])
    /\ outcome = "ok" => pc = "idle" /\ \A name \in Names : Recorded(name)

\* The values an attempt is made with fit, whether merged or not.
LEMMA ValuesFit ==
    ASSUME NEW old
    PROVE  LET s == configuration
           IN  /\ \A name : Fits(name, ConfigurationToHelmValues(s))
               /\ \A name : name # RELEASE_CLUSTER_SCOPED =>
                              Fits(name, MergeMaps(old, s))
  BY DEF Fits, ConfigurationToHelmValues, MergeMaps

LEMMA RecordKept ==
    ASSUME NEW name, storage'[name] = storage[name], UNCHANGED configuration
    PROVE  Recorded(name)' <=> Recorded(name)
  BY DEF Recorded, Exists, Fits

\* Other releases than the one of the call keep their records.
LEMMA OthersKept ==
    ASSUME ClusterOK, NEW name \in Names, name # Release, NEW new,
           storage' = [storage EXCEPT ![Release] = new], UNCHANGED configuration
    PROVE  Recorded(name)' <=> Recorded(name)
  <1>1. storage'[name] = storage[name]
    BY DEF ClusterOK
  <1> QED BY <1>1, RecordKept

\* What the call is at has not changed.
SameCall == UNCHANGED <<configuration, part>>

\* A step on the records of the release the call is at.
LEMMA AtReleaseKept ==
    ASSUME ClusterOK, CallOK, Kept, SameCall, pc # "idle", outcome' = outcome, NEW new,
           storage' = [storage EXCEPT ![Release] = new],
           pc' # "idle",
           pc' \in {"run", "apply", "ran", "after"} => Fits(Release, values)',
           Attempted' => Recorded(Release)'
    PROVE  Kept'
  <1>1. ASSUME NEW k \in 1..3, k < part
        PROVE  Recorded(Releases[k])'
    <2>1. Releases[k] \in Names /\ Releases[k] # Release
      BY <1>1, ReleasesAreNames, AtRelease DEF Release
    <2>2. Recorded(Releases[k])
      BY <1>1 DEF Kept
    <2> QED BY <2>1, <2>2, OthersKept DEF SameCall
  <1>2. outcome' # "ok"
    BY DEF Kept
  <1> QED BY <1>1, <1>2 DEF Kept, SameCall

LEMMA KeptStep ==
    ASSUME ClusterOK, CallOK, Kept, Step
    PROVE  Kept'
  <1>0. /\ part \in 1..3 /\ Release \in Names /\ Content.config = values
        /\ storage[Release] \in Seq(Revisions) /\ Len(storage[Release]) <= MaxHistory
        /\ Content \in Contents
    BY AtRelease DEF Content, ClusterOK
  <1>1. ASSUME Return("error")
        PROVE  Kept'
    BY <1>1 DEF Return, Idle, Kept, Attempted
  <1>2. ASSUME SameCall, pc # "idle", pc' # "idle", UNCHANGED <<storage, outcome>>,
               pc' \in {"run", "apply", "ran", "after"} => Fits(Release, values)',
               Attempted' => Recorded(Release)'
        PROVE  Kept'
    <2>1. storage' = [storage EXCEPT ![Release] = storage[Release]]
      BY <1>2 DEF ClusterOK
    <2> QED BY <1>2, <2>1, AtReleaseKept
  <1>3. CASE \/ ListFails \/ RefusePart \/ InstallFails \/ DeleteRouteFails
             \/ ExtraFails
    BY <1>1, <1>3 DEF ListFails, RefusePart, InstallFails, DeleteRouteFails, ExtraFails
  <1>4. CASE ListReleases
    BY <1>2, <1>4 DEF ListReleases, Goto, releases, attempt, SameCall, Attempted
  <1>5. CASE InstallPart \/ UpgradePart
    <2>1. PICK v, max : Deploy(v, max) /\ pc = "part" /\ Fits(Release, v)
      BY <1>5, ValuesFit DEF InstallPart, UpgradePart
    <2>2. /\ SameCall /\ UNCHANGED <<storage, outcome>> /\ pc' = "run" /\ values' = v
      BY <2>1 DEF Deploy, Goto, releases, asked, SameCall
    <2>3. Fits(Release, values)'
      BY <2>1, <2>2 DEF SameCall, Fits, Release
    <2> QED BY <1>2, <2>1, <2>2, <2>3 DEF Attempted
  <1>6. ASSUME SameCall, UNCHANGED values, pc \in {"run", "apply", "ran", "after"}
        PROVE  Fits(Release, values)'
    BY <1>6 DEF SameCall, Fits, Release, Kept
  <1>7. ASSUME SameCall, UNCHANGED storage, Recorded(Release)
        PROVE  Recorded(Release)'
    BY <1>7 DEF SameCall, Recorded, Exists, Fits, Release
  <1>8. CASE RunRefused
    <2>1. /\ pc = "run" /\ pc' = "ran" /\ SameCall /\ err' = TRUE /\ problems' = {}
          /\ UNCHANGED <<storage, outcome, values>>
      BY <1>8 DEF RunRefused, Ran, Goto, releases, asked, SameCall
    <2> QED BY <1>2, <1>6, <2>1 DEF Attempted
  <1>9. CASE RunBegins
    <2> DEFINE rev == [status |-> "pending", content |-> Content]
               new == Append(Pruned(storage[Release]), rev)
    <2>1. /\ storage' = [storage EXCEPT ![Release] = new]
          /\ pc = "run" /\ pc' = "apply" /\ SameCall /\ UNCHANGED <<outcome, values>>
      BY <1>9 DEF RunBegins, Goto, asked, attempt, SameCall
    <2>2. new # <<>> /\ Latest(new) = rev
      BY <1>0, AppendType DEF Revisions
    <2>3. storage'[Release] = new
      BY <1>0, <2>1 DEF ClusterOK
    <2>4. Fits(Release, values)' /\ Release' = Release
      BY <1>6, <2>1 DEF SameCall, Release
    <2> HIDE DEF new
    <2>5. Exists(Release)' /\ Latest(storage[Release])'.content.config = values'
      BY <1>0, <2>1, <2>2, <2>3, <2>4 DEF Exists, Latest
    <2>6. Recorded(Release)'
      BY <2>4, <2>5 DEF Recorded
    <2> QED BY <2>1, <2>4, <2>6, AtReleaseKept
  <1>10. CASE RunEnds \/ RunBreaks
    <2>1. PICK good \in BOOLEAN :
            storage' = [storage EXCEPT ![Release] = Concluded(storage[Release], good)]
      BY <1>10 DEF RunEnds, RunBreaks
    <2>2. pc = "apply" /\ pc' = "ran" /\ SameCall /\ UNCHANGED <<outcome, values>>
      BY <1>10 DEF RunEnds, RunBreaks, Ran, Goto, asked, SameCall
    <2>3. storage'[Release] = Concluded(storage[Release], good) /\ Release' = Release
      BY <1>0, <2>1, <2>2 DEF ClusterOK, SameCall, Release
    <2>4. Recorded(Release)
      BY <2>2 DEF Kept, Attempted
    <2>5. /\ storage'[Release] # <<>>
          /\ Latest(storage'[Release]).content = Latest(storage[Release]).content
      <3>1. storage[Release] # <<>>
        BY <2>4 DEF Recorded, Exists
      <3>2. Len(storage[Release]) \in DOMAIN storage[Release]
        BY <1>0, <3>1
      <3>3. /\ Len(storage'[Release]) = Len(storage[Release])
            /\ storage'[Release] \in Seq(Revisions)
            /\ \A i \in DOMAIN storage[Release] :
                 storage'[Release][i].content = storage[Release][i].content
        BY <1>0, <2>3, ConcludedType
      <3> QED BY <1>0, <3>1, <3>2, <3>3 DEF Latest
    <2>6. Recorded(Release)'
      BY <2>2, <2>3, <2>4, <2>5 DEF Recorded, Exists, Fits, SameCall, Latest
    <2>7. Fits(Release, values)'
      BY <1>6, <2>2
    <2> QED BY <2>1, <2>2, <2>6, <2>7, AtReleaseKept
  <1>11. CASE AttemptSucceeds \/ UpdateCRD \/ TriggerImportImage
    <2>1. /\ pc \in {"ran", "after"} /\ pc' = "after" /\ SameCall /\ Attempted
          /\ UNCHANGED <<storage, outcome, values>>
      BY <1>11 DEF AttemptSucceeds, UpdateCRD, TriggerImportImage, Extra, Goto,
                   releases, asked, attempt, SameCall, Attempted
    <2>2. Recorded(Release)
      BY <2>1 DEF Kept
    <2> QED BY <1>2, <1>6, <1>7, <2>1, <2>2
  <1>12. CASE RetryUpgrade \/ DeleteRoute
    <2>1. /\ pc = "ran" /\ UNCHANGED storage
          /\ Retry(TRUE) \/ (Retry(FALSE) /\ problems # {})
      BY <1>12 DEF RetryUpgrade, DeleteRoute, Named, releases
    <2>2. CASE Return("error")
      BY <1>1, <2>2
    <2>3. CASE pc' = "run" /\ UNCHANGED <<asked, values, outcome>>
      BY <1>2, <1>6, <2>1, <2>3 DEF asked, SameCall, Attempted
    <2>4. CASE pc' = "after" /\ problems # {} /\ UNCHANGED <<asked, values, outcome>>
      <3>1. Recorded(Release)
        BY <2>1, <2>4 DEF Kept, Attempted
      <3> QED BY <1>2, <1>6, <1>7, <2>1, <2>4, <3>1 DEF asked, SameCall
    <2> QED BY <2>1, <2>2, <2>3, <2>4 DEF Retry, Goto
  <1>13. CASE PartEnds
    <2>1. /\ pc = "after" /\ UNCHANGED <<storage, configuration>> /\ NextPart
      BY <1>13 DEF PartEnds, NextPart, Return, releases
    <2>2. ASSUME NEW k \in 1..3, k <= part
          PROVE  Recorded(Releases[k])'
      <3>1. Recorded(Releases[k])
        <4>1. CASE k < part
          BY <2>1, <4>1 DEF Kept
        <4>2. CASE k = part
          BY <2>1, <4>2 DEF Kept, Attempted, Release
        <4> QED BY <1>0, <2>2, <4>1, <4>2
      <3> QED BY <2>1, <3>1, RecordKept
    <2>3. CASE part < 3
      <3>1. pc' = "part" /\ part' = part + 1 /\ outcome' = outcome
        BY <2>1, <2>3, ReleasesAreNames DEF NextPart, Goto
      <3>2. \A k \in 1..3 : k < part' => k <= part
        BY <1>0, <3>1
      <3>3. outcome' # "ok"
        BY <2>1, <3>1 DEF Kept
      <3> QED BY <2>2, <3>1, <3>2, <3>3 DEF Kept, Attempted
    <2>4. CASE part = 3
      <3>1. Return("ok")
        BY <2>1, <2>4, ReleasesAreNames DEF NextPart
      <3>2. \A name \in Names : Recorded(name)'
        BY <2>2, <2>4, ReleasesAreNames
      <3> QED BY <3>1, <3>2 DEF Return, Idle, Kept, Attempted
    <2> QED BY <1>0, <2>3, <2>4
  <1> QED BY <1>3, <1>4, <1>5, <1>8, <1>9, <1>10, <1>11, <1>12, <1>13 DEF Step

\* ... unless somebody else was at work on the releases.
LEMMA UndisturbedStep ==
    ASSUME ClusterOK, CallOK, Progress, disturbed \/ Kept, [Next]_vars
    PROVE  disturbed' \/ Kept'
  <1>1. ASSUME NEW s, Call(s)
        PROVE  Kept'
    <2>1. pc' = "list" /\ part' = 1 /\ outcome' = "none"
      BY <1>1 DEF Call, Goto, Progress
    <2>2. \A k \in 1..3 : ~(k < part')
      BY <2>1
    <2> QED BY <2>1, <2>2 DEF Kept, Attempted
  <1>2. ASSUME NEW c, Upgrade(c) \/ Crash(c)
        PROVE  Kept'
    BY <1>2 DEF Upgrade, Crash, Idle, Kept, Attempted
  <1>3. ASSUME NEW name, NEW c, Customise(name, c) \/ Uninstall(name)
        PROVE  disturbed'
    BY <1>3 DEF Customise, Uninstall, Interferes
  <1>4. CASE Step
    <2>1. disturbed' = disturbed
      BY <1>4 DEF Step, ListReleases, ListFails, RefusePart, InstallPart, UpgradePart,
         Deploy, RunRefused, RunBegins, RunEnds, RunBreaks, AttemptSucceeds,
         InstallFails, RetryUpgrade, DeleteRoute, DeleteRouteFails, UpdateCRD,
         TriggerImportImage, Extra, ExtraFails, PartEnds, NoFault, Fault
    <2> QED BY <1>4, <2>1, KeptStep
  <1>5. CASE UNCHANGED vars
    <2>1. UNCHANGED <<disturbed, storage, configuration, pc, part, values, err,
                      problems, outcome>>
      BY <1>5 DEF vars, releases, asked, attempt, result
    <2>2. Kept' <=> Kept
      BY <2>1 DEF Kept, Attempted, Recorded, Exists, Fits, Release
    <2> QED BY <2>1, <2>2
  <1> QED BY <1>1, <1>2, <1>3, <1>4, <1>5 DEF Next

LEMMA UndisturbedKept == Spec => [](disturbed \/ Kept)
  <1>1. Init => Kept
    BY DEF Init, Kept, Attempted
  <1>2. Init => Progress
    BY ProgressInit
  <1>3. TypeOK /\ Progress /\ (disturbed \/ Kept) /\ [Next]_vars
          => Progress' /\ (disturbed' \/ Kept')
    BY ProgressStep, UndisturbedStep DEF TypeOK
  <1> QED BY <1>1, <1>2, <1>3, CallsAreTyped, PTL DEF Spec

\* Nothing a user gave the cluster-scoped release outlives a call that succeeds.
THEOREM DefaultsRestored == Spec => []ClusterScopedIsDefault
  <1>1. disturbed \/ Kept => ClusterScopedIsDefault
    BY DEF Kept, Recorded, Fits, ClusterScopedIsDefault, Names
  <1> QED BY <1>1, UndisturbedKept, PTL

\* A secret the setup names is the one every release ends up with, whatever the
\* release was deployed with before and however often its values were merged.
THEOREM SecretIsUsed == Spec => []NamedSecretIsUsed
  <1>1. disturbed \/ Kept => NamedSecretIsUsed
    BY DEF Kept, Recorded, Fits, NamedSecretIsUsed
  <1> QED BY <1>1, UndisturbedKept, PTL

-----------------------------------------------------------------------------
(* Calls do not fail by themselves. *)

\* A manifest has at most one Route: the pattern finds no name among more.
OneRoute ==
    \A name \in Names : \A i, j \in DOMAIN Objects[name] :
        Objects[name][i] \in Routes /\ Objects[name][j] \in Routes => i = j

\* No attempt is pending but the one under way, and nothing is left on the
\* cluster of a release Helm does not know.
Sound ==
    /\ \A name \in Names :
         Pending(name) => pc = "apply" /\ name = Release
    /\ pc = "apply" => Exists(Release)
    /\ \A name \in Names :
         ~Exists(name) => \A o \in RangeOf(Objects[name]) : live[o] = NoObject

Clear == \A o \in RangeOf(Objects[Release]) : ~Unpatchable(o)

\* The first attempt of an upgrade failed, on a Route that has to move.
Blocked ==
    /\ Upgrading /\ Exists(Release) /\ retries = MaxRetries
    /\ problems # {} /\ problems \subseteq Routes \cap RangeOf(Objects[Release])
    /\ \A o \in problems : live[o] # NoObject

\* How far a call has come that nothing went wrong with.
Smooth ==
    /\ pc \in {"part", "run", "apply", "ran", "after"} =>
         \A k \in 1..3 : k > part => inNamespace[Releases[k]] = storage[Releases[k]]
    /\ pc = "part" => inNamespace[Release] = storage[Release]
    /\ pc = "run" => (Upgrading <=> Exists(Release))
    /\ pc \in {"run", "apply"} => Clear \/ (Upgrading /\ retries = MaxRetries)
    /\ pc = "ran" /\ err => Blocked
    /\ outcome = "error" => ~Accepted(configuration)

\* An attempt that has ended is not pending.
LEMMA ConcludedStatus ==
    ASSUME NEW history \in Seq(Revisions), history # <<>>, NEW good \in BOOLEAN
    PROVE  /\ Concluded(history, good) # <<>>
           /\ Latest(Concluded(history, good)).status # "pending"
  <1> DEFINE new == Concluded(history, good)
  <1>1. Len(history) \in Nat /\ Len(history) \in DOMAIN history
    OBVIOUS
  <1>2. history[Len(history)] \in Revisions
    BY <1>1
  <1>3. new[Len(history)].status # "pending"
    BY <1>1, <1>2 DEF Concluded, Revisions
  <1>4. new \in Seq(Revisions) /\ Len(new) = Len(history)
    BY ConcludedType
  <1> HIDE DEF new
  <1>5. new # <<>>
    BY <1>1, <1>4
  <1>6. Latest(new).status # "pending"
    BY <1>3, <1>4 DEF Latest
  <1> QED BY <1>5, <1>6 DEF new

\* A step that changes neither the records nor the objects, and one that changes
\* those of a release: its record, its objects, or both.
LEMMA SoundUnchanged ==
    ASSUME Sound, UNCHANGED <<storage, live>>, pc # "apply", pc' # "apply"
    PROVE  Sound'
  BY DEF Sound, Pending, Exists

LEMMA SoundChange ==
    ASSUME ClusterOK, Sound, NEW name \in Names, NEW new,
           storage' = [storage EXCEPT ![name] = new],
           \A o \in AllObjects : o \notin RangeOf(Objects[name]) => live'[o] = live[o],
           new = <<>> => \A o \in RangeOf(Objects[name]) : live'[o] = NoObject,
           new # <<>> /\ Latest(new).status = "pending" =>
               pc' = "apply" /\ name = Release',
           pc = "apply" /\ Release # name => pc' = pc /\ Release' = Release,
           pc' = "apply" => /\ Release' \in Names
                            /\ IF Release' = name THEN new # <<>>
                               ELSE pc = "apply" /\ Release' = Release
    PROVE  Sound'
  <1>1. \A q \in Names : storage'[q] = IF q = name THEN new ELSE storage[q]
    BY DEF ClusterOK
  <1>2. ASSUME NEW q \in Names, Pending(q)'
        PROVE  pc' = "apply" /\ q = Release'
    BY <1>1, <1>2 DEF Pending, Exists, Sound
  <1>3. ASSUME pc' = "apply"
        PROVE  Exists(Release)'
    BY <1>1, <1>3 DEF Exists, Sound
  <1>4. ASSUME NEW q \in Names, ~Exists(q)', NEW o \in RangeOf(Objects[q])
        PROVE  live'[o] = NoObject
    <2>1. o \in AllObjects
      BY DEF AllObjects
    <2>2. CASE q = name
      BY <1>1, <1>4, <2>2 DEF Exists
    <2>3. CASE q # name
      <3>1. o \notin RangeOf(Objects[name])
        BY <2>3, HelmDeployAssumption
      <3>2. ~Exists(q)
        BY <1>1, <1>4, <2>3 DEF Exists
      <3> QED BY <2>1, <3>1, <3>2 DEF Sound
    <2> QED BY <2>2, <2>3
  <1> QED BY <1>2, <1>3, <1>4 DEF Sound

LEMMA SoundStep ==
    ASSUME ClusterOK, CallOK, Sound, "crash" \notin Environment, [Next]_vars
    PROVE  Sound'
  <1>0. /\ Release \in Names /\ Content \in Contents
        /\ storage[Release] \in Seq(Revisions) /\ Len(storage[Release]) <= MaxHistory
    BY AtRelease DEF ClusterOK
  <1>1. ASSUME pc # "apply", pc' # "apply", UNCHANGED <<storage, live>>
        PROVE  Sound'
    BY <1>1, SoundUnchanged
  <1>2. CASE \/ ListReleases \/ InstallPart \/ UpgradePart \/ RunRefused
             \/ AttemptSucceeds \/ UpdateCRD \/ TriggerImportImage
    BY <1>1, <1>2 DEF ListReleases, InstallPart, UpgradePart, Deploy, RunRefused, Ran,
       AttemptSucceeds, UpdateCRD, TriggerImportImage, Extra, Goto, releases
  <1>3. CASE \/ ListFails \/ RefusePart \/ InstallFails \/ DeleteRouteFails
             \/ ExtraFails \/ PartEnds
    BY <1>1, <1>3 DEF ListFails, RefusePart, InstallFails, DeleteRouteFails, ExtraFails,
       PartEnds, NextPart, Goto, Return, Idle, releases
  <1>4. CASE RetryUpgrade
    BY <1>1, <1>4 DEF RetryUpgrade, Retry, Goto, Return, Idle, releases
  <1>5. ASSUME NEW s, NEW c, Call(s) \/ Upgrade(c)
        PROVE  Sound'
    BY <1>1, <1>5 DEF Call, Upgrade, Goto, releases
  <1>6. CASE RunBegins
    <2> DEFINE rev == [status |-> "pending", content |-> Content]
               new == Append(Pruned(storage[Release]), rev)
    <2>1. /\ storage' = [storage EXCEPT ![Release] = new] /\ UNCHANGED live
          /\ pc = "run" /\ pc' = "apply" /\ Release' = Release
      BY <1>6 DEF RunBegins, Goto, asked, Release
    <2>2. new # <<>>
      BY <1>0, AppendType DEF Revisions
    <2> HIDE DEF new
    <2> QED BY <1>0, <2>1, <2>2, SoundChange
  <1>7. CASE RunEnds \/ RunBreaks
    <2>1. PICK good \in BOOLEAN :
            storage' = [storage EXCEPT ![Release] = Concluded(storage[Release], good)]
      BY <1>7 DEF RunEnds, RunBreaks
    <2>2. PICK os \in SUBSET RangeOf(Objects[Release]) : live' = Applied(os)
      BY <1>7 DEF RunEnds, RunBreaks
    <2>3. pc = "apply" /\ pc' = "ran" /\ Release' = Release
      BY <1>7 DEF RunEnds, RunBreaks, Ran, Goto, asked, Release
    <2>4. storage[Release] # <<>>
      BY <2>3 DEF Sound, Exists
    <2>5. \A o \in AllObjects : o \notin RangeOf(Objects[Release]) => live'[o] = live[o]
      BY <2>2 DEF Applied
    <2>6. /\ Concluded(storage[Release], good) # <<>>
          /\ Latest(Concluded(storage[Release], good)).status # "pending"
      BY <1>0, <2>4, ConcludedStatus
    <2> QED BY <1>0, <2>1, <2>3, <2>5, <2>6, SoundChange
  <1>8. CASE DeleteRoute
    <2>1. PICK route : live' = [live EXCEPT ![route] = NoObject]
      BY <1>8 DEF DeleteRoute
    <2>2. UNCHANGED storage /\ pc # "apply" /\ pc' # "apply"
      BY <1>8 DEF DeleteRoute, Retry, Goto, Return, Idle
    <2>3. ASSUME NEW name \in Names, NEW o \in RangeOf(Objects[name]), ~Exists(name)
          PROVE  live'[o] = NoObject
      <3>1. o \in AllObjects
        BY DEF AllObjects
      <3> QED BY <2>1, <2>3, <3>1 DEF ClusterOK, Sound
    <2> QED BY <2>2, <2>3 DEF Sound, Pending, Exists
  <1>9. ASSUME NEW c
        PROVE  ~Crash(c)
    BY DEF Crash, Fault
  <1>10. ASSUME NEW name \in Names, NEW c \in Customs, Customise(name, c)
         PROVE  Sound'
    <2> DEFINE history == storage[name]
               content == [Latest(history).content EXCEPT !.config.custom = c]
               rev == [status |-> "pending", content |-> content]
               longer == Append(Pruned(history), rev)
               new == Concluded(longer, TRUE)
    <2>1. /\ history \in Seq(Revisions) /\ Len(history) <= MaxHistory
          /\ history # <<>>
      BY <1>10 DEF Customise, Interferes, Exists, ClusterOK
    <2>2. Latest(history) \in Revisions
      <3>1. Len(history) \in DOMAIN history
        BY <2>1
      <3> QED BY <2>1, <3>1 DEF Latest
    <2>3. content \in Contents
      BY <2>2 DEF Revisions, Contents, Configs
    <2>4. /\ storage' = [storage EXCEPT ![name] = new]
          /\ live' = [o \in AllObjects |->
                        IF o \in RangeOf(Objects[name]) THEN content ELSE live[o]]
      BY <1>10 DEF Customise
    <2>5. /\ ~(pc = "apply" /\ name = Release) /\ pc' = pc /\ Release' = Release
      BY <1>10 DEF Customise, Interferes, asked, Release
    <2> HIDE DEF content
    <2>6. rev \in Revisions
      BY <2>3 DEF Revisions
    <2> HIDE DEF rev
    <2>7. longer \in Seq(Revisions) /\ longer # <<>>
      BY <2>1, <2>6, AppendType
    <2> HIDE DEF longer
    <2>8. new # <<>> /\ Latest(new).status # "pending"
      BY <2>7, ConcludedStatus
    <2> HIDE DEF new
    <2> QED BY <1>0, <2>4, <2>5, <2>8, SoundChange
  <1>11. ASSUME NEW name \in Names, Uninstall(name)
         PROVE  Sound'
    <2>1. /\ storage' = [storage EXCEPT ![name] = <<>>]
          /\ live' = [o \in AllObjects |->
                        IF o \in RangeOf(Objects[name]) THEN NoObject ELSE live[o]]
      BY <1>11 DEF Uninstall
    <2>2. /\ ~(pc = "apply" /\ name = Release) /\ pc' = pc /\ Release' = Release
      BY <1>11 DEF Uninstall, Interferes, asked, Release
    <2>3. \A o \in RangeOf(Objects[name]) : o \in AllObjects
      BY DEF AllObjects
    <2> QED BY <1>0, <2>1, <2>2, <2>3, SoundChange
  <1>12. CASE UNCHANGED vars
    BY <1>12 DEF vars, releases, asked, Sound, Pending, Exists, Release
  <1> QED BY <1>2, <1>3, <1>4, <1>5, <1>6, <1>7, <1>8, <1>9, <1>10, <1>11, <1>12
          DEF Next, Step

\* A step of the call that nothing goes wrong with.
LEMMA SmoothStep ==
    ASSUME ClusterOK, CallOK, Sound, Smooth, OneRoute, MaxRetries > 0,
           Step, \A kind : ~Fault(kind)
    PROVE  Smooth'
  <1>0. part \in 1..3 /\ Release \in Names /\ Release = Releases[part]
    BY AtRelease DEF Release
  <1>1. ASSUME NEW q \in Names, Exists(q), pc # "apply"
        PROVE  ~Pending(q)
    BY <1>1 DEF Sound
  <1>2. ASSUME pc \in {"part", "run", "apply", "ran", "after"}, UNCHANGED <<part, inNamespace>>,
               \A q \in Names : q # Release => storage'[q] = storage[q]
        PROVE  \A k \in 1..3 : k > part' => inNamespace'[Releases[k]] = storage'[Releases[k]]
    <2> TAKE k \in 1..3
    <2>1. k > part => Releases[k] \in Names /\ Releases[k] # Release
      BY <1>0, ReleasesAreNames
    <2> QED BY <1>2, <2>1 DEF Smooth
  <1>3. ASSUME UNCHANGED <<part, values, chart, live>>
        PROVE  Clear' <=> Clear
    BY <1>3 DEF Clear, Unpatchable, Release, Content
  <1>4. CASE ListReleases
    <2>1. /\ pc' = "part" /\ inNamespace' = storage /\ UNCHANGED <<storage, part, outcome, configuration>>
          /\ pc = "list"
      BY <1>4 DEF ListReleases, Goto, releases
    <2> QED BY <2>1 DEF Smooth, Release
  <1>5. CASE RefusePart
    <2>1. pc' = "idle" /\ ~Accepted(configuration) /\ UNCHANGED configuration
      BY <1>5 DEF RefusePart, Return, Idle
    <2> QED BY <2>1 DEF Smooth
  <1>6. CASE InstallPart
    <2>1. /\ pc = "part" /\ pc' = "run" /\ inNamespace[Release] = <<>>
          /\ UNCHANGED <<storage, live, part, inNamespace, outcome, configuration>>
      BY <1>6 DEF InstallPart, Deploy, Goto, releases, asked
    <2>2. ~Exists(Release)' /\ ~Upgrading'
      BY <2>1 DEF Smooth, Exists, Upgrading, Release
    <2>3. Clear'
      BY <1>0, <2>1, <2>2 DEF Sound, Clear, Unpatchable, Release, Exists
    <2> QED BY <1>2, <2>1, <2>2, <2>3 DEF Smooth
  <1>7. CASE UpgradePart
    <2>1. /\ pc = "part" /\ pc' = "run" /\ inNamespace[Release] # <<>>
          /\ retries' = MaxRetries
          /\ UNCHANGED <<storage, part, inNamespace, outcome, configuration>>
      BY <1>7 DEF UpgradePart, Deploy, Goto, releases, asked
    <2>2. Exists(Release)' /\ Upgrading'
      BY <2>1 DEF Smooth, Exists, Upgrading, Release
    <2> QED BY <1>2, <2>1, <2>2 DEF Smooth
  <1>8. CASE RunRefused
    BY <1>0, <1>1, <1>8 DEF RunRefused, Refused, Smooth, Pending
  <1>9. CASE RunBegins
    <2>1. /\ pc = "run" /\ pc' = "apply"
          /\ UNCHANGED <<live, part, inNamespace, values, chart, retries, outcome, configuration>>
          /\ \A q \in Names : q # Release => storage'[q] = storage[q]
      BY <1>9 DEF RunBegins, Goto, asked, attempt, ClusterOK
    <2>2. Upgrading' <=> Upgrading
      BY <2>1 DEF Upgrading, Release
    <2> QED BY <1>2, <1>3, <2>1, <2>2 DEF Smooth
  <1>10. CASE RunEnds
    <2> DEFINE bad == {o \in RangeOf(Objects[Release]) : Unpatchable(o)}
    <2>1. /\ pc = "apply" /\ pc' = "ran"
          /\ UNCHANGED <<part, inNamespace, retries, outcome, configuration>>
      BY <1>10 DEF RunEnds, Ran, Goto, asked
    <2>2. /\ err' = (bad # {}) /\ problems' = bad
          /\ live' = Applied(RangeOf(Objects[Release]) \ bad)
          /\ storage' = [storage EXCEPT ![Release] =
                           Concluded(storage[Release], bad = {})]
      BY <1>10 DEF RunEnds, Ran
    <2>3. \A q \in Names : q # Release => storage'[q] = storage[q]
      BY <2>2 DEF ClusterOK
    <2>4. ASSUME err'
          PROVE  Blocked'
      <3>1. bad # {} /\ problems' = bad
        BY <2>2, <2>4
      <3>2. Upgrading /\ retries = MaxRetries
        BY <2>1, <3>1 DEF Smooth, Clear
      <3>3. Release' = Release /\ Upgrading'
        BY <2>1, <3>2 DEF Release, Upgrading
      <3>4. Exists(Release)'
        <4>1. storage[Release] # <<>> /\ storage[Release] \in Seq(Revisions)
          BY <1>0, <2>1 DEF Sound, Exists, ClusterOK
        <4>2. Concluded(storage[Release], bad = {}) # <<>>
          BY <4>1, ConcludedStatus
        <4>3. storage'[Release] = Concluded(storage[Release], bad = {})
          BY <1>0, <2>2 DEF ClusterOK
        <4> QED BY <3>3, <4>2, <4>3 DEF Exists
      <3>5. bad \subseteq Routes \cap RangeOf(Objects[Release])
        BY DEF Unpatchable
      <3>6. ASSUME NEW o \in bad
            PROVE  live'[o] # NoObject
        <4>1. o \in AllObjects /\ live[o] # NoObject
          BY <1>0 DEF AllObjects, Unpatchable
        <4> QED BY <2>2, <4>1 DEF Applied
      <3> QED BY <2>1, <3>1, <3>2, <3>3, <3>4, <3>5, <3>6 DEF Blocked
    <2> QED BY <1>2, <2>1, <2>3, <2>4 DEF Smooth
  <1>11. CASE AttemptSucceeds \/ UpdateCRD \/ TriggerImportImage
    <2>1. /\ pc \in {"ran", "after"} /\ pc' = "after"
          /\ UNCHANGED <<storage, part, inNamespace, outcome, configuration>>
      BY <1>11 DEF AttemptSucceeds, UpdateCRD, TriggerImportImage, Extra, Goto, releases,
                   asked
    <2> QED BY <1>2, <2>1 DEF Smooth
  \* One Route is in the way, and it is the only problem.
  <1>12. ASSUME pc = "ran", err
         PROVE  \E route \in Routes \cap RangeOf(Objects[Release]) :
                   /\ problems = {route} /\ Named(route) /\ live[route] # NoObject
                   /\ \A o \in RangeOf(Objects[Release]) : o \in Routes => o = route
    <2>1. Blocked
      BY <1>12 DEF Smooth
    <2>2. PICK i \in DOMAIN Objects[Release] : Objects[Release][i] \in problems
      BY <2>1 DEF Blocked, RangeOf
    <2> DEFINE route == Objects[Release][i]
    <2>3. route \in Routes /\ live[route] # NoObject
      BY <2>1, <2>2 DEF Blocked
    <2>4. \A j \in DOMAIN Objects[Release] : Objects[Release][j] \in Routes => j = i
      BY <1>0, <2>3 DEF OneRoute
    <2>5. \A o \in RangeOf(Objects[Release]) : o \in Routes => o = route
      BY <2>4 DEF RangeOf
    <2>6. problems = {route}
      BY <2>1, <2>2, <2>5 DEF Blocked
    <2>7. i \in Nat
      BY <1>0, HelmDeployAssumption
    <2>8. RouteFound
      <3>1. \A j \in DOMAIN Objects[Release] : Objects[Release][j] \in problems => j = i
        BY <2>1, <2>4 DEF Blocked
      <3> QED BY <2>2, <2>3, <2>7, <3>1 DEF RouteFound
    <2> QED BY <2>3, <2>5, <2>6, <2>8 DEF Named, RangeOf
  <1>13. CASE InstallFails
    BY <1>13 DEF InstallFails, Smooth, Blocked
  <1>14. CASE RetryUpgrade
    BY <1>12, <1>14 DEF RetryUpgrade, Named
  <1>15. CASE DeleteRouteFails
    BY <1>12, <1>15 DEF DeleteRouteFails
  <1>16. CASE DeleteRoute
    <2>1. PICK route \in Routes \cap RangeOf(Objects[Release]) :
            /\ problems = {route}
            /\ \A o \in RangeOf(Objects[Release]) : o \in Routes => o = route
      BY <1>12, <1>16 DEF DeleteRoute
    <2>2. PICK r \in Routes : Named(r) /\ live' = [live EXCEPT ![r] = NoObject]
      BY <1>16 DEF DeleteRoute
    <2>3. live'[route] = NoObject
      <3>1. route \in AllObjects /\ r = route
        BY <1>0, <2>1, <2>2 DEF AllObjects, Named
      <3> QED BY <2>2, <3>1 DEF ClusterOK
    <2>4. Blocked /\ pc = "ran"
      BY <1>16 DEF DeleteRoute, Smooth
    <2>5. retries # 0
      BY <2>4 DEF Blocked
    <2>6. pc' = "run" /\ UNCHANGED <<storage, asked, values, outcome>>
      BY <1>16, <2>5 DEF DeleteRoute, Retry, Goto
    <2>7. UNCHANGED <<part, inNamespace, configuration>> /\ Release' = Release
      BY <2>6 DEF asked, Release
    <2>8. Clear'
      BY <2>1, <2>3, <2>7 DEF Clear, Unpatchable
    <2>9. Upgrading' /\ Exists(Release)'
      BY <2>4, <2>6, <2>7 DEF Blocked, Upgrading, Exists
    <2> QED BY <1>2, <2>4, <2>6, <2>7, <2>8, <2>9 DEF Smooth
  <1>17. CASE PartEnds
    <2>1. pc = "after" /\ UNCHANGED storage /\ NextPart
      BY <1>17 DEF PartEnds, releases
    <2>2. CASE Return("ok")
      BY <2>2 DEF Return, Idle, Smooth
    <2>3. CASE pc' = "part" /\ part < 3 /\ part' = part + 1
               /\ UNCHANGED <<inNamespace, outcome, configuration>>
      <3>1. \A k \in 1..3 : k > part => inNamespace[Releases[k]] = storage[Releases[k]]
        BY <2>1 DEF Smooth
      <3>2. /\ part' \in 1..3 /\ part' > part
            /\ \A k \in 1..3 : k > part' => k > part
        BY <1>0, <2>3
      <3>3. Release' = Releases[part']
        BY DEF Release
      <3> QED BY <2>1, <2>3, <3>1, <3>2, <3>3 DEF Smooth
    <2> QED BY <2>1, <2>2, <2>3, ReleasesAreNames DEF NextPart, Goto
  <1>18. ~ListFails /\ ~ExtraFails /\ ~RunBreaks
    BY DEF ListFails, ExtraFails, RunBreaks
  <1> QED BY <1>4, <1>5, <1>6, <1>7, <1>8, <1>9, <1>10, <1>11, <1>13, <1>14, <1>15,
             <1>16, <1>17, <1>18 DEF Step

LEMMA CausedStep ==
    ASSUME ClusterOK, CallOK, Sound, troubled \/ disturbed \/ Smooth,
           OneRoute, MaxRetries > 0, "crash" \notin Environment, [Next]_vars
    PROVE  troubled' \/ disturbed' \/ Smooth'
  <1>1. ASSUME NEW s, Call(s)
        PROVE  Smooth'
    BY <1>1 DEF Call, Goto, Smooth
  <1>2. ASSUME NEW c, Upgrade(c)
        PROVE  Smooth'
    BY <1>2 DEF Upgrade, Smooth
  <1>3. ASSUME NEW c
        PROVE  ~Crash(c)
    BY DEF Crash, Fault
  <1>4. ASSUME NEW name, NEW c, Customise(name, c) \/ Uninstall(name)
        PROVE  disturbed'
    BY <1>4 DEF Customise, Uninstall, Interferes
  <1>5. CASE Step
    <2>1. CASE \E kind : Fault(kind)
      BY <2>1 DEF Fault
    <2>2. CASE \A kind : ~Fault(kind)
      <3>1. troubled' = troubled /\ disturbed' = disturbed
        BY <1>5, <2>2 DEF Step, ListReleases, ListFails, RefusePart, InstallPart,
           UpgradePart, Deploy, RunRefused, RunBegins, RunEnds, RunBreaks,
           AttemptSucceeds, InstallFails, RetryUpgrade, DeleteRoute, DeleteRouteFails,
           UpdateCRD, TriggerImportImage, Extra, ExtraFails, PartEnds, NoFault
      <3>2. Smooth => Smooth'
        BY <1>5, <2>2, SmoothStep
      <3> QED BY <3>1, <3>2
    <2> QED BY <2>1, <2>2
  <1>6. CASE UNCHANGED vars
    <2>1. UNCHANGED <<troubled, disturbed>> /\ UNCHANGED <<releases, pc, asked, attempt, outcome>>
      BY <1>6 DEF vars, result
    <2>2. Smooth' <=> Smooth
      BY <2>1 DEF releases, asked, attempt, Smooth, Blocked, Clear, Unpatchable, Upgrading,
                  Exists, Release, Content
    <2> QED BY <2>1, <2>2
  <1> QED BY <1>1, <1>2, <1>3, <1>4, <1>5, <1>6 DEF Next

\* Unless the operator dies, calls fail only when something outside does, or
\* somebody else is at work, or the setup has no values, even over the remains of
\* calls that failed at any point, and even if the Route has to move.
THEOREM ErrorsHaveCauses ==
    ASSUME OneRoute, MaxRetries > 0, "crash" \notin Environment
    PROVE  Spec => []ErrorHasCause
  <1>1. Init => Sound /\ Smooth
    <2> SUFFICES ASSUME Init PROVE Sound /\ Smooth
      OBVIOUS
    <2>1. \A name \in Names : \A o \in RangeOf(Objects[name]) : o \in AllObjects
      BY DEF AllObjects
    <2> QED BY <2>1 DEF Init, Sound, Smooth, Pending, Exists
  <1>2. TypeOK /\ Sound /\ (troubled \/ disturbed \/ Smooth) /\ [Next]_vars
          => Sound' /\ (troubled' \/ disturbed' \/ Smooth')
    BY SoundStep, CausedStep DEF TypeOK
  <1>3. troubled \/ disturbed \/ Smooth => ErrorHasCause
    BY DEF Smooth, ErrorHasCause
  <1> QED BY <1>1, <1>2, <1>3, CallsAreTyped, PTL DEF Spec

=============================================================================
