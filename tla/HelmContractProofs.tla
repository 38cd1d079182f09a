------------------------- MODULE HelmContractProofs -------------------------
(***************************************************************************)
(* Calls keep their contract with the reconciler (HelmRun), for all        *)
(* charts, setups, objects, numbers of retries, failures and users of      *)
(* helm, but for one step: the deletion of a Route after the last attempt, *)
(* whose nil passes for the result of the attempt.                         *)
(***************************************************************************)
EXTENDS HelmDeployProofs, WellFoundedInduction

-----------------------------------------------------------------------------
(* What the steps do to Helm's record. *)

\* The last revision once an attempt has ended.
LEMMA LatestConcluded ==
    ASSUME NEW history \in Seq(Revisions), history # <<>>, NEW good \in BOOLEAN
    PROVE  LET new == Concluded(history, good)
           IN  /\ new \in Seq(Revisions) /\ new # <<>>
               /\ Latest(new).status = IF good THEN "deployed" ELSE "failed"
               /\ Latest(new).content = Latest(history).content
  <1> DEFINE new == Concluded(history, good)
  <1>1. Len(history) \in Nat /\ Len(history) \in DOMAIN history
    OBVIOUS
  <1>2. history[Len(history)] \in Revisions
    BY <1>1
  <1>3. /\ new[Len(history)].status = IF good THEN "deployed" ELSE "failed"
        /\ new[Len(history)].content = history[Len(history)].content
    BY <1>1, <1>2 DEF Concluded, Revisions
  <1>4. new \in Seq(Revisions) /\ Len(new) = Len(history)
    BY ConcludedType
  <1> HIDE DEF new
  <1>5. new # <<>>
    BY <1>1, <1>4
  <1>6. Latest(new) = new[Len(history)] /\ Latest(history) = history[Len(history)]
    BY <1>4 DEF Latest
  <1> QED BY <1>3, <1>4, <1>5, <1>6 DEF new

\* The beginning of an attempt: its pending revision is the last one.
LEMMA Beginning ==
    ASSUME ClusterOK, CallOK, RunBegins
    PROVE  /\ \A q \in Names : q # Release => storage'[q] = storage[q]
           /\ storage'[Release] # <<>>
           /\ Latest(storage'[Release]).status = "pending"
           /\ Latest(storage'[Release]).content = Content
  <1> DEFINE rev == [status |-> "pending", content |-> Content]
             new == Append(Pruned(storage[Release]), rev)
  <1>1. /\ Release \in Names /\ Content \in Contents
        /\ storage[Release] \in Seq(Revisions) /\ Len(storage[Release]) <= MaxHistory
    BY AtRelease DEF ClusterOK
  <1>2. storage' = [storage EXCEPT ![Release] = new]
    BY DEF RunBegins
  <1>3. rev \in Revisions /\ rev.status = "pending" /\ rev.content = Content
    BY <1>1 DEF Revisions
  <1> HIDE DEF rev
  <1>4. new # <<>> /\ Latest(new) = rev
    BY <1>1, <1>3, AppendType
  <1> HIDE DEF new
  <1>5. \A q \in Names : storage'[q] = IF q = Release THEN new ELSE storage[q]
    BY <1>2 DEF ClusterOK
  <1> QED BY <1>1, <1>3, <1>4, <1>5

\* The end of an attempt that was recorded.
LEMMA Ending ==
    ASSUME ClusterOK, CallOK, NEW good \in BOOLEAN, Exists(Release),
           storage' = [storage EXCEPT ![Release] = Concluded(@, good)]
    PROVE  /\ \A q \in Names : q # Release => storage'[q] = storage[q]
           /\ storage'[Release] # <<>>
           /\ Latest(storage'[Release]).status = IF good THEN "deployed" ELSE "failed"
           /\ Latest(storage'[Release]).content = Latest(storage[Release]).content
  <1>1. /\ Release \in Names /\ storage[Release] \in Seq(Revisions)
        /\ storage[Release] # <<>>
    BY AtRelease DEF ClusterOK, Exists
  <1> DEFINE new == Concluded(storage[Release], good)
  <1>2. \A q \in Names : storage'[q] = IF q = Release THEN new ELSE storage[q]
    BY DEF ClusterOK
  <1>3. /\ new # <<>>
        /\ Latest(new).status = IF good THEN "deployed" ELSE "failed"
        /\ Latest(new).content = Latest(storage[Release]).content
    BY <1>1, LatestConcluded
  <1> HIDE DEF new
  <1> QED BY <1>1, <1>2, <1>3

\* A user upgrades a release: the setup and the chart it is of stay.
LEMMA Customised ==
    ASSUME ClusterOK, NEW name \in Names, NEW c \in Customs, Customise(name, c)
    PROVE  \E content \in Contents :
             /\ content.config.setup = Latest(storage[name]).content.config.setup
             /\ content.chart = Latest(storage[name]).content.chart
             /\ \A q \in Names : q # name => storage'[q] = storage[q]
             /\ storage'[name] # <<>>
             /\ Latest(storage'[name]).status = "deployed"
             /\ Latest(storage'[name]).content = content
             /\ live' = [o \in AllObjects |->
                           IF o \in RangeOf(Objects[name]) THEN content ELSE live[o]]
             /\ Latest(storage[name]).status = "deployed" /\ Exists(name)
  <1> DEFINE history == storage[name]
             content == [Latest(history).content EXCEPT !.config.custom = c]
             rev == [status |-> "pending", content |-> content]
             longer == Append(Pruned(history), rev)
             new == Concluded(longer, TRUE)
  <1>1. /\ history \in Seq(Revisions) /\ Len(history) <= MaxHistory /\ history # <<>>
        /\ Latest(history).status = "deployed" /\ Exists(name)
    BY DEF Customise, Interferes, Exists, ClusterOK
  <1>2. Len(history) \in DOMAIN history /\ Latest(history) \in Revisions
    BY <1>1 DEF Latest
  <1>3. /\ content \in Contents
        /\ content.config.setup = Latest(history).content.config.setup
        /\ content.chart = Latest(history).content.chart
    BY <1>2 DEF Revisions, Contents, Configs
  <1>4. /\ storage' = [storage EXCEPT ![name] = new]
        /\ live' = [o \in AllObjects |->
                      IF o \in RangeOf(Objects[name]) THEN content ELSE live[o]]
    BY DEF Customise
  <1> HIDE DEF content
  <1>5. rev \in Revisions /\ rev.content = content
    BY <1>3 DEF Revisions
  <1> HIDE DEF rev
  <1>6. longer \in Seq(Revisions) /\ longer # <<>> /\ Latest(longer) = rev
    BY <1>1, <1>5, AppendType
  <1> HIDE DEF longer
  <1>7. new # <<>> /\ Latest(new).status = "deployed" /\ Latest(new).content = content
    BY <1>5, <1>6, LatestConcluded
  <1> HIDE DEF new
  <1>8. \A q \in Names : storage'[q] = IF q = name THEN new ELSE storage[q]
    BY <1>4 DEF ClusterOK
  <1> QED BY <1>1, <1>3, <1>4, <1>7, <1>8

-----------------------------------------------------------------------------
(* What is true of a release whoever works on it. *)

\* What Helm calls deployed is on the cluster as it was recorded.
Faithful ==
    \A name \in Names :
        Exists(name) /\ Latest(storage[name]).status = "deployed" =>
            \A o \in RangeOf(Objects[name]) : live[o] = Latest(storage[name]).content

\* The newest revision of the release is of what the call was asked for.
Newest(name) == Of(Latest(storage[name]).content) = Asked

\* What the call has recorded of the release it is at, unless it is gone.
Grounded ==
    /\ values.setup = configuration
    /\ pc = "apply" => /\ Exists(Release)
                       /\ Latest(storage[Release]).status = "pending"
                       /\ Latest(storage[Release]).content = Content
    /\ pc = "ran" /\ problems # {} /\ Exists(Release) =>
         Latest(storage[Release]).status # "deployed"
    /\ Attempted /\ Exists(Release) => Newest(Release)

LEMMA FaithfulStep ==
    ASSUME ClusterOK, CallOK, Grounded, Faithful, [Next]_vars
    PROVE  Faithful'
  <1>0. /\ Release \in Names
        /\ \A q \in Names : \A o \in RangeOf(Objects[q]) : o \in AllObjects
        /\ \A q, r \in Names : \A o \in RangeOf(Objects[q]) :
             q # r => o \notin RangeOf(Objects[r])
    <2>1. \A q \in Names : \A o \in RangeOf(Objects[q]) : o \in AllObjects
      BY DEF AllObjects
    <2>2. \A q, r \in Names : \A o \in RangeOf(Objects[q]) :
            q # r => o \notin RangeOf(Objects[r])
      BY HelmDeployAssumption
    <2> QED BY <2>1, <2>2, AtRelease
  \* A step that leaves the releases alone, and one that works on one of them.
  <1>1. ASSUME UNCHANGED <<storage, live>>
        PROVE  Faithful'
    BY <1>1 DEF Faithful, Exists
  <1>2. ASSUME NEW name \in Names,
               \A q \in Names : q # name => storage'[q] = storage[q],
               \A o \in AllObjects : o \notin RangeOf(Objects[name]) =>
                    live'[o] = live[o],
               /\ storage'[name] # <<>> /\ Latest(storage'[name]).status = "deployed"
               => \A o \in RangeOf(Objects[name]) :
                    live'[o] = Latest(storage'[name]).content
        PROVE  Faithful'
    <2> SUFFICES ASSUME NEW q \in Names, storage'[q] # <<>>,
                        Latest(storage'[q]).status = "deployed",
                        NEW o \in RangeOf(Objects[q])
                 PROVE  live'[o] = Latest(storage'[q]).content
      BY DEF Faithful, Exists, Latest
    <2>1. CASE q = name
      BY <1>2, <2>1
    <2>2. CASE q # name
      <3>1. storage'[q] = storage[q] /\ live'[o] = live[o]
        BY <1>0, <1>2, <2>2
      <3> QED BY <3>1 DEF Faithful, Exists
    <2> QED BY <2>1, <2>2
  <1>3. ASSUME NEW os \in SUBSET RangeOf(Objects[Release]), live' = Applied(os)
        PROVE  /\ \A o \in AllObjects : o \notin RangeOf(Objects[Release]) =>
                    live'[o] = live[o]
               /\ \A o \in os : live'[o] = Content
    BY <1>0, <1>3 DEF Applied
  <1>4. CASE RunBegins
    <2>1. UNCHANGED live
      BY <1>4 DEF RunBegins
    <2> QED BY <1>0, <1>2, <1>4, <2>1, Beginning
  <1>5. CASE RunEnds
    <2>1. PICK bad \in SUBSET RangeOf(Objects[Release]) :
            /\ live' = Applied(RangeOf(Objects[Release]) \ bad)
            /\ storage' = [storage EXCEPT ![Release] = Concluded(@, bad = {})]
      BY <1>5 DEF RunEnds
    <2>2. Exists(Release) /\ Latest(storage[Release]).content = Content
      BY <1>5 DEF RunEnds, Grounded
    <2>3. /\ \A q \in Names : q # Release => storage'[q] = storage[q]
          /\ Latest(storage'[Release]).status = IF bad = {} THEN "deployed" ELSE "failed"
          /\ Latest(storage'[Release]).content = Content
      BY <2>1, <2>2, Ending
    <2>4. /\ \A o \in AllObjects : o \notin RangeOf(Objects[Release]) =>
               live'[o] = live[o]
          /\ \A o \in RangeOf(Objects[Release]) \ bad : live'[o] = Content
      BY <1>3, <2>1
    <2>5. bad = {} => \A o \in RangeOf(Objects[Release]) : live'[o] = Content
      BY <2>4
    <2> QED BY <1>0, <1>2, <2>3, <2>4, <2>5
  <1>6. CASE RunBreaks
    <2>1. PICK os \in SUBSET RangeOf(Objects[Release]) :
            /\ live' = Applied(os)
            /\ storage' = [storage EXCEPT ![Release] = Concluded(@, FALSE)]
      BY <1>6 DEF RunBreaks
    <2>2. Exists(Release)
      BY <1>6 DEF RunBreaks, Grounded
    <2>3. /\ \A q \in Names : q # Release => storage'[q] = storage[q]
          /\ Latest(storage'[Release]).status = "failed"
      BY <2>1, <2>2, Ending
    <2> QED BY <1>0, <1>2, <1>3, <2>1, <2>3
  <1>7. CASE DeleteRoute
    <2>1. PICK route \in Routes :
            Named(route) /\ live' = [live EXCEPT ![route] = NoObject]
      BY <1>7 DEF DeleteRoute
    <2>2. UNCHANGED storage /\ pc = "ran"
      BY <1>7 DEF DeleteRoute
    <2>3. problems # {} /\ route \in RangeOf(Objects[Release])
      BY <2>1 DEF Named, RouteFound, RangeOf
    <2>4. storage[Release] # <<>> => Latest(storage[Release]).status # "deployed"
      BY <2>2, <2>3 DEF Grounded, Exists
    <2>5. \A o \in AllObjects : o \notin RangeOf(Objects[Release]) => live'[o] = live[o]
      BY <2>1, <2>3 DEF ClusterOK
    <2> QED BY <1>0, <1>2, <2>2, <2>4, <2>5
  <1>8. CASE UpdateCRD \/ TriggerImportImage
    BY <1>1, <1>8 DEF UpdateCRD, TriggerImportImage, Extra
  <1>9. ASSUME NEW c, Crash(c)
        PROVE  Faithful'
    <2>1. UNCHANGED storage
      BY <1>9 DEF Crash
    <2>2. CASE UNCHANGED live
      BY <1>1, <2>1, <2>2
    <2>3. CASE pc = "apply" /\ \E os \in SUBSET RangeOf(Objects[Release]) :
                                  live' = Applied(os)
      <3>1. Latest(storage[Release]).status # "deployed"
        BY <2>3 DEF Grounded
      <3> QED BY <1>0, <1>2, <1>3, <2>1, <2>3, <3>1
    <2> QED BY <1>9, <2>2, <2>3 DEF Crash
  <1>10. ASSUME NEW name \in Names, NEW c \in Customs, Customise(name, c)
         PROVE  Faithful'
    BY <1>0, <1>2, <1>10, Customised
  <1>11. ASSUME NEW name \in Names, Uninstall(name)
         PROVE  Faithful'
    <2>1. /\ \A q \in Names : storage'[q] = IF q = name THEN <<>> ELSE storage[q]
          /\ \A o \in AllObjects : o \notin RangeOf(Objects[name]) => live'[o] = live[o]
      BY <1>11 DEF Uninstall, ClusterOK
    <2> QED BY <1>2, <2>1
  <1>12. CASE UNCHANGED releases
    BY <1>1, <1>12 DEF releases
  <1> QED BY <1>4, <1>5, <1>6, <1>7, <1>8, <1>9, <1>10, <1>11, <1>12,
             ClusterUnchanged DEF Next, Step

\* The steps that leave the call where it is with a release.
LEMMA GroundedStep ==
    ASSUME ClusterOK, CallOK, Grounded, [Next]_vars
    PROVE  Grounded'
  <1>0. Release \in Names
    BY AtRelease
  <1>1. ASSUME values'.setup = configuration', pc' \notin {"apply", "ran", "after"}
        PROVE  Grounded'
    BY <1>1 DEF Grounded, Attempted
  <1>2. ASSUME Idle, UNCHANGED configuration
        PROVE  Grounded'
    BY <1>1, <1>2 DEF Idle, ConfigurationToHelmValues
  <1>3. ASSUME UNCHANGED <<asked, values>>, pc' \in {"part", "run"}
        PROVE  Grounded'
    BY <1>1, <1>3 DEF asked, Grounded
  <1>4. CASE \E s : Call(s)
    BY <1>1, <1>4 DEF Call, Goto, ConfigurationToHelmValues
  <1>5. CASE ListReleases
    BY <1>1, <1>5 DEF ListReleases, Goto, attempt, Grounded
  <1>6. CASE \/ ListFails \/ RefusePart \/ InstallFails \/ DeleteRouteFails
             \/ ExtraFails
    BY <1>2, <1>6 DEF ListFails, RefusePart, InstallFails, DeleteRouteFails, ExtraFails,
                      Return
  <1>7. CASE InstallPart \/ UpgradePart
    <2>1. PICK v, max : Deploy(v, max) /\ v.setup = configuration
      <3>1. \A old : /\ ConfigurationToHelmValues(configuration).setup = configuration
                     /\ MergeMaps(old, configuration).setup = configuration
        BY DEF ConfigurationToHelmValues, MergeMaps
      <3> QED BY <1>7, <3>1 DEF InstallPart, UpgradePart
    <2> QED BY <1>1, <2>1 DEF Deploy, Goto, asked
  \* An attempt was recorded.
  <1>8. ASSUME UNCHANGED <<asked, values>>, storage'[Release] # <<>>,
               Latest(storage'[Release]).content = Content,
               pc' = "apply" => Latest(storage'[Release]).status = "pending",
               pc' = "ran" /\ problems' # {} =>
                    Latest(storage'[Release]).status # "deployed"
        PROVE  Grounded'
    <2>1. Release' = Release /\ Content' = Content /\ Asked' = Asked
          /\ values'.setup = configuration'
      BY <1>8 DEF asked, Release, Content, Asked, Grounded
    <2>2. Of(Content) = Asked
      BY DEF Of, Content, Asked, Grounded
    <2> QED BY <1>8, <2>1, <2>2 DEF Grounded, Newest, Exists, Latest
  <1>9. CASE RunRefused \/ RunBreaks
    <2>1. /\ pc' = "ran" /\ err' = TRUE /\ problems' = {} /\ UNCHANGED <<asked, values>>
      BY <1>9 DEF RunRefused, RunBreaks, Ran, Goto
    <2> QED BY <2>1 DEF Grounded, Attempted, asked
  <1>10. CASE RunBegins
    <2>1. pc' = "apply" /\ UNCHANGED <<asked, values>>
      BY <1>10 DEF RunBegins, Goto, attempt
    <2> QED BY <1>8, <1>10, <2>1, Beginning
  <1>11. CASE RunEnds
    <2>1. PICK bad : /\ Ran(bad # {}, bad)
                     /\ storage' = [storage EXCEPT ![Release] = Concluded(@, bad = {})]
      BY <1>11 DEF RunEnds
    <2>2. Exists(Release) /\ Latest(storage[Release]).content = Content
      BY <1>11 DEF RunEnds, Grounded
    <2>3. /\ storage'[Release] # <<>>
          /\ Latest(storage'[Release]).status = IF bad = {} THEN "deployed" ELSE "failed"
          /\ Latest(storage'[Release]).content = Content
      BY <2>1, <2>2, Ending
    <2>4. pc' = "ran" /\ problems' = bad /\ UNCHANGED <<asked, values>>
      BY <2>1 DEF Ran, Goto
    <2> QED BY <1>8, <2>3, <2>4
  \* It is gone past.
  <1>12. ASSUME UNCHANGED <<storage, configuration, chart, part, values>>, Attempted,
                pc' = "after"
         PROVE  Grounded'
    <2>1. Release' = Release /\ Asked' = Asked
      BY <1>12 DEF Release, Asked
    <2> QED BY <1>12, <2>1 DEF Grounded, Newest, Exists
  <1>13. CASE AttemptSucceeds \/ UpdateCRD \/ TriggerImportImage
    BY <1>12, <1>13 DEF AttemptSucceeds, UpdateCRD, TriggerImportImage, Extra, Goto,
       releases, asked, attempt, Attempted
  <1>14. CASE RetryUpgrade \/ DeleteRoute
    <2>1. /\ pc = "ran" /\ UNCHANGED storage
          /\ Retry(TRUE) \/ (Retry(FALSE) /\ problems # {})
      BY <1>14 DEF RetryUpgrade, DeleteRoute, Named, releases
    <2>2. CASE Return("error")
      BY <1>2, <2>2 DEF Return
    <2>3. CASE pc' = "run" /\ UNCHANGED <<asked, values>>
      BY <1>3, <2>3
    <2>4. CASE pc' = "after" /\ problems # {} /\ UNCHANGED <<asked, values>>
      BY <1>12, <2>1, <2>4 DEF asked, Attempted
    <2> QED BY <2>1, <2>2, <2>3, <2>4 DEF Retry, Goto
  <1>15. CASE PartEnds
    <2>1. CASE Return("ok")
      BY <1>2, <2>1 DEF Return
    <2>2. CASE pc' = "part" /\ UNCHANGED <<configuration, attempt>>
      BY <1>1, <2>2 DEF attempt, Grounded
    <2> QED BY <1>15, <2>1, <2>2 DEF PartEnds, NextPart, Goto
  <1>16. ASSUME NEW c, Upgrade(c) \/ Crash(c)
         PROVE  Grounded'
    BY <1>1, <1>2, <1>16 DEF Upgrade, Crash, attempt, Grounded
  \* Somebody else works on a release.
  <1>17. ASSUME NEW name \in Names, NEW kind, Interferes(kind, name),
                \A q \in Names : q # name => storage'[q] = storage[q],
                \/ storage'[name] = <<>>
                \/ /\ Of(Latest(storage'[name]).content)
                        = Of(Latest(storage[name]).content)
                   /\ Latest(storage[name]).status = "deployed" /\ Exists(name)
         PROVE  Grounded'
    <2>1. /\ UNCHANGED <<pc, configuration, chart, part, values, problems, err>>
          /\ ~(pc = "apply" /\ name = Release)
      BY <1>17 DEF Interferes, asked, attempt
    <2>2. Release' = Release /\ Asked' = Asked /\ Content' = Content
          /\ (Attempted' <=> Attempted)
      BY <2>1 DEF Release, Asked, Content, Attempted
    <2>3. CASE name # Release
      <3>1. storage'[Release] = storage[Release]
        BY <1>0, <1>17, <2>3
      <3> QED BY <2>1, <2>2, <3>1 DEF Grounded, Newest, Exists
    <2>4. CASE name = Release
      <3>1. pc # "apply"
        BY <2>1, <2>4
      <3>2. CASE storage'[Release] = <<>>
        BY <2>1, <2>2, <3>1, <3>2 DEF Grounded, Exists
      <3>3. CASE /\ Of(Latest(storage'[Release]).content)
                      = Of(Latest(storage[Release]).content)
                 /\ Latest(storage[Release]).status = "deployed" /\ Exists(Release)
        <4>1. ~(pc = "ran" /\ problems # {})
          BY <3>3 DEF Grounded
        <4>2. Attempted => Of(Latest(storage'[Release]).content) = Asked
          BY <3>3 DEF Grounded, Newest
        <4> QED BY <2>1, <2>2, <3>1, <4>1, <4>2 DEF Grounded, Newest, Latest
      <3> QED BY <1>17, <2>4, <3>2, <3>3
    <2> QED BY <2>3, <2>4
  <1>18. ASSUME NEW name \in Names, NEW c \in Customs, Customise(name, c)
         PROVE  Grounded'
    <2>1. \A content, old : /\ content.config.setup = old.config.setup
                            /\ content.chart = old.chart
                            => Of(content) = Of(old)
      BY DEF Of
    <2>2. /\ \A q \in Names : q # name => storage'[q] = storage[q]
          /\ Of(Latest(storage'[name]).content) = Of(Latest(storage[name]).content)
          /\ Latest(storage[name]).status = "deployed" /\ Exists(name)
      BY <1>18, <2>1, Customised
    <2>3. Interferes("customise", name)
      BY <1>18 DEF Customise
    <2> QED BY <1>17, <2>2, <2>3
  <1>19. ASSUME NEW name \in Names, Uninstall(name)
         PROVE  Grounded'
    <2>1. \A q \in Names : storage'[q] = IF q = name THEN <<>> ELSE storage[q]
      BY <1>19 DEF Uninstall, ClusterOK
    <2>2. Interferes("uninstall", name)
      BY <1>19 DEF Uninstall
    <2> QED BY <1>17, <2>1, <2>2
  <1>20. CASE UNCHANGED vars
    <2>1. UNCHANGED <<storage, pc, configuration, chart, part, values, problems, err>>
      BY <1>20 DEF vars, releases, asked, attempt
    <2> QED BY <2>1 DEF Grounded, Newest, Attempted, Exists, Asked, Content, Release
  <1> QED BY <1>4, <1>5, <1>6, <1>7, <1>9, <1>10, <1>11, <1>13, <1>14, <1>15, <1>16,
             <1>18, <1>19, <1>20 DEF Next, Step

LEMMA GroundedInit == Init => Faithful /\ Grounded
  BY DEF Init, Faithful, Grounded, Exists, Attempted, ConfigurationToHelmValues

-----------------------------------------------------------------------------
(* Calls that nobody disturbs. *)

\* The release has been brought to what the call was asked for.
Brought(name) ==
    /\ Exists(name) /\ Latest(storage[name]).status = "deployed"
    /\ Newest(name)

\* How far a call is.
Whole ==
    /\ pc # "idle" => \A k \in 1..3 : k < part => Brought(Releases[k])
    /\ pc = "after" \/ (pc = "ran" /\ ~err) => Brought(Release)
    /\ pc = "after" /\ part = 3 =>
         \A k \in 1..Images : k <= done =>
             imported[k] # NoObject /\ Of(imported[k]) = Asked
    /\ outcome = "ok" => pc = "idle" /\ IsComplete(Asked)

\* The step after which a call takes a deletion for the last attempt.
LateRoute == DeleteRoute /\ retries = 0

\* When the last release is done with, everything is there.
LEMMA AllIsThere ==
    ASSUME ClusterOK, CallOK, Progress, Faithful, Whole,
           pc = "after", part = 3, done = Extras
    PROVE  IsComplete(Asked)
  <1>1. \A name \in Names : Brought(name)
    <2> TAKE name \in Names
    <2>1. PICK k \in 1..3 : name = Releases[k]
      BY ReleasesAreNames
    <2>2. k < 3 \/ k = 3
      BY <2>1
    <2> QED BY <2>1, <2>2 DEF Whole, Release
  <1>2. \A o \in AllObjects : live[o] # NoObject /\ Of(live[o]) = Asked
    <2> TAKE o \in AllObjects
    <2>1. PICK name \in Names : o \in RangeOf(Objects[name])
      BY DEF AllObjects
    <2>2. live[o] = Latest(storage[name]).content
      BY <1>1, <2>1 DEF Faithful, Brought
    <2>3. Latest(storage[name]).content \in Contents
      <3>1. storage[name] \in Seq(Revisions) /\ storage[name] # <<>>
        BY <1>1 DEF ClusterOK, Brought, Exists
      <3>2. Len(storage[name]) \in DOMAIN storage[name]
        BY <3>1
      <3>3. Latest(storage[name]) \in Revisions
        BY <3>1, <3>2 DEF Latest
      <3> QED BY <3>3 DEF Revisions
    <2> QED BY <1>1, <2>2, <2>3, HelmDeployAssumption DEF Brought, Newest
  <1>3. \A k \in 1..CRDs : crds[k] = chart
    BY DEF Progress
  <1>4. Extras = Images
    BY NamesDiffer DEF Extras, Release, Releases
  <1>5. \A k \in 1..Images : imported[k] # NoObject /\ Of(imported[k]) = Asked
    <2>1. \A k \in 1..Images : k <= done
      BY <1>4, Bounds
    <2> QED BY <2>1 DEF Whole
  <1> QED BY <1>1, <1>2, <1>3, <1>5 DEF IsComplete, Asked, Brought, Newest

LEMMA BroughtKept ==
    ASSUME NEW name, storage'[name] = storage[name], UNCHANGED <<configuration, chart>>
    PROVE  Brought(name)' <=> Brought(name)
  BY DEF Brought, Newest, Exists, Asked

LEMMA CompleteKept ==
    ASSUME UNCHANGED releases, NEW i
    PROVE  IsComplete(i)' <=> IsComplete(i)
  BY DEF releases, IsComplete, Exists

LEMMA WholeStep ==
    ASSUME ClusterOK, CallOK, Progress, Faithful, Grounded, Whole,
           Step, ~LateRoute
    PROVE  Whole'
  <1>0. part \in 1..3 /\ Release \in Names /\ Release = Releases[part]
    BY AtRelease DEF Release
  <1>1. ASSUME Return("error")
        PROVE  Whole'
    BY <1>1 DEF Return, Idle, Whole
  <1>2. ASSUME UNCHANGED <<configuration, chart, part, outcome>>,
               pc # "idle", pc' # "idle",
               \A q \in Names : q # Release => storage'[q] = storage[q],
               pc' = "after" \/ (pc' = "ran" /\ ~err') => Brought(Release)',
               pc' = "after" /\ part = 3 =>
                 \A k \in 1..Images : k <= done' =>
                   imported'[k] # NoObject /\ Of(imported'[k]) = Asked
        PROVE  Whole'
    <2>1. ASSUME NEW k \in 1..3, k < part
          PROVE  Brought(Releases[k])'
      <3>1. Releases[k] \in Names /\ Releases[k] # Release
        BY <1>0, <2>1, ReleasesAreNames
      <3>2. Brought(Releases[k])
        BY <1>2, <2>1 DEF Whole
      <3> QED BY <1>2, <3>1, <3>2, BroughtKept
    <2>2. outcome' # "ok"
      BY <1>2 DEF Whole
    <2>3. Asked' = Asked
      BY <1>2 DEF Asked
    <2> QED BY <1>2, <2>1, <2>2, <2>3 DEF Whole
  <1>3. CASE \/ ListFails \/ RefusePart \/ InstallFails \/ DeleteRouteFails
             \/ ExtraFails
    BY <1>1, <1>3 DEF ListFails, RefusePart, InstallFails, DeleteRouteFails, ExtraFails
  <1>4. CASE ListReleases \/ InstallPart \/ UpgradePart \/ RunRefused
    BY <1>2, <1>4 DEF ListReleases, InstallPart, UpgradePart, Deploy, RunRefused, Ran, Goto,
                      releases, asked
  <1>5. CASE RunBegins
    <2>1. \A q \in Names : q # Release => storage'[q] = storage[q]
      BY <1>5, Beginning
    <2> QED BY <1>2, <1>5, <2>1 DEF RunBegins, Goto, asked
  <1>6. CASE RunBreaks
    <2>1. \A q \in Names : q # Release => storage'[q] = storage[q]
      BY <1>6 DEF RunBreaks, ClusterOK
    <2> QED BY <1>2, <1>6, <2>1 DEF RunBreaks, Ran, Goto, asked
  <1>7. CASE RunEnds
    <2>1. PICK bad : /\ Ran(bad # {}, bad)
                     /\ storage' = [storage EXCEPT ![Release] = Concluded(@, bad = {})]
      BY <1>7 DEF RunEnds
    <2>2. Exists(Release) /\ Latest(storage[Release]).content = Content
      BY <1>7 DEF RunEnds, Grounded
    <2>3. /\ \A q \in Names : q # Release => storage'[q] = storage[q]
          /\ storage'[Release] # <<>>
          /\ Latest(storage'[Release]).status = IF bad = {} THEN "deployed" ELSE "failed"
          /\ Latest(storage'[Release]).content = Content
      BY <2>1, <2>2, Ending
    <2>4. pc = "apply" /\ pc' = "ran" /\ err' = (bad # {}) /\ UNCHANGED <<asked, outcome>>
      BY <1>7, <2>1 DEF RunEnds, Ran, Goto
    <2>5. Release' = Release /\ Asked' = Asked /\ Of(Content) = Asked
      BY <2>4 DEF asked, Release, Asked, Of, Content, Grounded
    <2>6. ~err' => Brought(Release)'
      BY <2>3, <2>4, <2>5 DEF Brought, Newest, Exists, Latest
    <2> QED BY <1>2, <2>3, <2>4, <2>6 DEF asked
  <1>8. CASE AttemptSucceeds
    <2>1. /\ pc = "ran" /\ ~err /\ pc' = "after"
          /\ UNCHANGED <<releases, asked, attempt, outcome>>
      BY <1>8 DEF AttemptSucceeds, Goto
    <2>2. Brought(Release) /\ Release' = Release
      BY <2>1 DEF Whole, asked, Release
    <2>3. Brought(Release)'
      BY <2>1, <2>2, BroughtKept DEF releases, asked
    <2>4. done' = 0 /\ \A k \in 1..Images : ~(k <= 0)
      BY <2>1, Bounds DEF asked, Progress
    <2> QED BY <1>2, <2>1, <2>3, <2>4 DEF asked, releases
  <1>9. CASE RetryUpgrade \/ DeleteRoute
    <2>1. /\ pc = "ran" /\ UNCHANGED storage
          /\ Retry(TRUE) \/ (Retry(FALSE) /\ retries # 0)
      BY <1>9 DEF RetryUpgrade, DeleteRoute, LateRoute, releases
    <2>2. CASE Return("error")
      BY <1>1, <2>2
    <2>3. CASE pc' = "run" /\ UNCHANGED <<asked, outcome>>
      BY <1>2, <2>1, <2>3 DEF asked
    <2> QED BY <2>1, <2>2, <2>3 DEF Retry, Goto
  <1>10. ASSUME NEW name, Extra(name),
                part = 3 => /\ imported' = [imported EXCEPT ![done'] = Content]
         PROVE  Whole'
    <2>1. /\ pc = "after" /\ pc' = "after" /\ done' = done + 1 /\ done \in Nat
          /\ UNCHANGED <<storage, configuration, chart, part, outcome>>
      BY <1>10, Bounds DEF Extra, CallOK
    <2>2. Brought(Release) /\ Release' = Release
      BY <2>1 DEF Whole, Release
    <2>3. Brought(Release)'
      BY <2>1, <2>2, BroughtKept
    <2>4. ASSUME part = 3, NEW k \in 1..Images, k <= done'
          PROVE  imported'[k] # NoObject /\ Of(imported'[k]) = Asked
      <3>1. imported'[k] = IF k = done + 1 THEN Content ELSE imported[k]
        BY <1>10, <2>1, <2>4 DEF ClusterOK
      <3>2. Content # NoObject
        BY AtRelease, HelmDeployAssumption
      <3>3. Of(Content) = Asked
        BY DEF Of, Content, Asked, Grounded
      <3>4. k = done + 1 \/ k <= done
        BY <2>1, <2>4
      <3> QED BY <2>1, <2>4, <3>1, <3>2, <3>3, <3>4 DEF Whole
    <2> QED BY <1>2, <2>1, <2>3, <2>4
  <1>11. CASE UpdateCRD
    BY <1>0, <1>10, <1>11, AtRelease DEF UpdateCRD, Extra
  <1>12. CASE TriggerImportImage
    BY <1>10, <1>12 DEF TriggerImportImage
  <1>13. CASE PartEnds
    <2>1. /\ pc = "after" /\ done = Extras /\ NextPart /\ UNCHANGED releases
          /\ UNCHANGED <<configuration, chart>>
      BY <1>13 DEF PartEnds, NextPart, Return
    <2>2. CASE part = 3
      <3>1. Return("ok") /\ Asked' = Asked
        BY <2>1, <2>2, ReleasesAreNames DEF NextPart, Asked
      <3>2. IsComplete(Asked)
        BY <2>1, <2>2, AllIsThere
      <3>3. IsComplete(Asked)'
        BY <2>1, <3>1, <3>2 DEF releases, IsComplete, Exists
      <3> QED BY <3>1, <3>3 DEF Return, Idle, Whole
    <2>3. CASE part < 3
      <3>1. pc' = "part" /\ part' = part + 1 /\ outcome' = outcome
        BY <2>1, <2>3, ReleasesAreNames DEF NextPart, Goto
      <3>2. ASSUME NEW k \in 1..3, k < part'
            PROVE  Brought(Releases[k])'
        <4>1. k < part \/ k = part
          BY <1>0, <3>1, <3>2
        <4>2. Brought(Releases[k])
          BY <1>0, <2>1, <4>1 DEF Whole
        <4> QED BY <2>1, <4>2, BroughtKept DEF releases
      <3>3. outcome' # "ok"
        BY <2>1, <3>1 DEF Whole
      <3> QED BY <3>1, <3>2, <3>3 DEF Whole
    <2> QED BY <1>0, <2>2, <2>3
  <1> QED BY <1>3, <1>4, <1>5, <1>6, <1>7, <1>8, <1>9, <1>11, <1>12, <1>13 DEF Step

\* ... unless somebody disturbs it.
LEMMA WholeNext ==
    ASSUME TypeOK, Progress, Faithful, Grounded, disturbed \/ Whole, [Next]_vars,
           ~disturbed => ~LateRoute
    PROVE  disturbed' \/ Whole'
  <1>1. ASSUME NEW s, Call(s)
        PROVE  Whole'
    <2>1. pc' = "list" /\ part' = 1 /\ outcome' = "none"
      BY <1>1 DEF Call, Goto, Progress
    <2>2. \A k \in 1..3 : ~(k < part')
      BY <2>1
    <2> QED BY <2>1, <2>2 DEF Whole
  <1>2. ASSUME NEW c, Upgrade(c) \/ Crash(c)
        PROVE  Whole'
    BY <1>2 DEF Upgrade, Crash, Idle, Whole
  <1>3. ASSUME NEW name, NEW c, Customise(name, c) \/ Uninstall(name)
        PROVE  disturbed'
    BY <1>3 DEF Customise, Uninstall, Interferes
  <1>4. CASE Step
    <2>1. disturbed' = disturbed
      BY <1>4 DEF Step, ListReleases, ListFails, RefusePart, InstallPart, UpgradePart,
         Deploy, RunRefused, RunBegins, RunEnds, RunBreaks, AttemptSucceeds,
         InstallFails, RetryUpgrade, DeleteRoute, DeleteRouteFails, UpdateCRD,
         TriggerImportImage, Extra, ExtraFails, PartEnds, NoFault, Fault
    <2>2. Whole /\ ~LateRoute => Whole'
      BY <1>4, WholeStep DEF TypeOK
    <2> QED BY <2>1, <2>2
  <1>5. CASE UNCHANGED vars
    <2>1. /\ UNCHANGED <<disturbed, storage, configuration, chart, pc, part, err, done,
                         imported, outcome>>
          /\ UNCHANGED releases
      BY <1>5 DEF vars, releases, asked, attempt, result
    <2>2. IsComplete(Asked)' <=> IsComplete(Asked)
      BY <2>1 DEF releases, IsComplete, Exists, Asked
    <2>3. Whole' <=> Whole
      BY <2>1, <2>2 DEF Whole, Brought, Newest, Exists, Release, Asked
    <2> QED BY <2>1, <2>3
  <1> QED BY <1>1, <1>2, <1>3, <1>4, <1>5 DEF Next

\* What the calls of a behaviour rely on.
Trusted == TypeOK /\ Progress /\ Faithful /\ Grounded

LEMMA TrustedAlways == Spec => []Trusted
  <1>1. Init => Progress /\ Faithful /\ Grounded
    BY ProgressInit, GroundedInit
  <1>2. TypeOK /\ Progress /\ Faithful /\ Grounded /\ [Next]_vars
          => Progress' /\ Faithful' /\ Grounded'
    BY ProgressStep, FaithfulStep, GroundedStep DEF TypeOK
  <1>3. TypeOK /\ Progress /\ Faithful /\ Grounded => Trusted
    BY DEF Trusted
  <1> QED BY <1>1, <1>2, <1>3, CallsAreTyped, PTL DEF Spec

LEMMA WholeInit == Init => Whole
  BY DEF Init, Whole

\* The deletion of a Route is never taken for the last attempt of a call that
\* nobody disturbs.
NoLateRoute == [][~disturbed => ~LateRoute]_vars

LEMMA WholeAlways == Spec /\ NoLateRoute => [](disturbed \/ Whole)
  <1>1. Trusted /\ (disturbed \/ Whole) /\ [Next]_vars /\ [~disturbed => ~LateRoute]_vars
          => (disturbed \/ Whole)'
    <2> SUFFICES ASSUME Trusted, disturbed \/ Whole, [Next]_vars,
                        [~disturbed => ~LateRoute]_vars
                 PROVE  disturbed' \/ Whole'
      OBVIOUS
    <2>1. CASE UNCHANGED vars
      <3>1. ~LateRoute
        BY <2>1 DEF vars, LateRoute, DeleteRoute, Retry, Goto, Return, Idle
      <3> QED BY <3>1, WholeNext DEF Trusted
    <2>2. CASE ~disturbed => ~LateRoute
      BY <2>2, WholeNext DEF Trusted
    <2> QED BY <2>1, <2>2
  <1> QED BY <1>1, WholeInit, TrustedAlways, PTL DEF Spec, NoLateRoute

-----------------------------------------------------------------------------
(* What is installed. *)

\* Installed by cases.
InstalledByCases ==
    /\ (\A name \in Names : ~Exists(name)) => Installed = Nothing
    /\ \A i : IsComplete(i) => Installed = i
    /\ (\E name \in Names : Exists(name)) /\ (\A i : ~IsComplete(i)) =>
         Installed = Partial

LEMMA Cases == InstalledByCases
  <1> DEFINE present == {name \in Names : Exists(name)}
             is == {Of(Latest(storage[name]).content) : name \in present}
  <1>1. RELEASE_CLUSTER_SCOPED \in Names
    BY DEF Names
  <1>2. ASSUME NEW i, IsComplete(i)
        PROVE  present # {} /\ i \in is /\ \A j \in is : IsComplete(j) => j = i
    <2>1. RELEASE_CLUSTER_SCOPED \in present
          /\ Of(Latest(storage[RELEASE_CLUSTER_SCOPED]).content) = i
      BY <1>1, <1>2 DEF IsComplete
    <2>2. ASSUME NEW j, IsComplete(j)
          PROVE  Of(Latest(storage[RELEASE_CLUSTER_SCOPED]).content) = j
      BY <1>1, <2>2 DEF IsComplete
    <2> QED BY <2>1, <2>2
  <1>3. ASSUME NEW i, IsComplete(i)
        PROVE  Installed = i
    <2>1. (CHOOSE j \in is : IsComplete(j)) = i
      BY <1>2, <1>3
    <2> QED BY <1>2, <1>3, <2>1 DEF Installed
  <1>4. (\A name \in Names : ~Exists(name)) => Installed = Nothing
    BY DEF Installed
  <1>5. (\E name \in Names : Exists(name)) /\ (\A i : ~IsComplete(i)) =>
          Installed = Partial
    BY DEF Installed
  <1> QED BY <1>3, <1>4, <1>5 DEF InstalledByCases

LEMMA CasesNext == InstalledByCases'
  BY Cases, PTL

LEMMA InstalledKept ==
    ASSUME UNCHANGED releases
    PROVE  Installed' = Installed
  <1>1. \A name \in Names : Exists(name)' <=> Exists(name)
    BY DEF releases, Exists
  <1>2. \A i : IsComplete(i)' <=> IsComplete(i)
    BY CompleteKept
  <1> QED BY <1>1, <1>2, Cases, CasesNext DEF InstalledByCases

\* No release comes or goes, and nothing is complete that was not, but perhaps
\* what was asked for.
LEMMA InstalledChanges ==
    ASSUME (\E name \in Names : Exists(name)') <=> (\E name \in Names : Exists(name)),
           \A i : IsComplete(i)' => IsComplete(i) \/ i = Asked
    PROVE  Installed' \in {Installed, Partial, Asked}
  <1>1. CASE \A name \in Names : ~Exists(name)
    BY <1>1, Cases, CasesNext DEF InstalledByCases
  <1>2. CASE \E i : IsComplete(i)'
    BY <1>2, Cases, CasesNext DEF InstalledByCases
  <1>3. CASE (\E name \in Names : Exists(name)) /\ \A i : ~IsComplete(i)'
    BY <1>3, CasesNext DEF InstalledByCases
  <1> QED BY <1>1, <1>2, <1>3

\* Something is there, and nothing is complete.
LEMMA InstalledBreaks ==
    ASSUME NEW name \in Names, storage'[name] # <<>>,
           Latest(storage'[name]).status # "deployed"
    PROVE  Installed' = Partial
  <1>1. Exists(name)'
    BY DEF Exists
  <1>2. \A i : ~IsComplete(i)'
    BY DEF IsComplete, Latest
  <1> QED BY <1>1, <1>2, CasesNext DEF InstalledByCases

\* What a step of a call leaves.
LEMMA InstalledStep ==
    ASSUME Trusted, Step
    PROVE  Installed' \in {Installed, Partial, Asked}
  <1>0. ClusterOK /\ CallOK /\ Grounded /\ Release \in Names
    BY AtRelease DEF Trusted, TypeOK
  <1>1. CASE RunBegins
    BY <1>0, <1>1, Beginning, InstalledBreaks
  <1>2. CASE RunEnds \/ RunBreaks
    <2>1. PICK good \in BOOLEAN :
            storage' = [storage EXCEPT ![Release] = Concluded(@, good)]
      BY <1>2 DEF RunEnds, RunBreaks
    <2>2. Exists(Release) /\ Latest(storage[Release]).content = Content
      BY <1>0, <1>2 DEF RunEnds, RunBreaks, Grounded
    <2>3. storage'[Release] # <<>> /\ Latest(storage'[Release]).content = Content
      BY <1>0, <2>1, <2>2, Ending
    <2>4. Of(Content) = Asked
      BY <1>0 DEF Of, Content, Asked, Grounded
    <2>5. \A i : IsComplete(i)' => i = Asked
      BY <1>0, <2>3, <2>4 DEF IsComplete, Latest
    <2> QED BY <1>0, <2>2, <2>3, <2>5, InstalledChanges DEF Exists
  <1>3. ASSUME UNCHANGED storage, \A i : ~IsComplete(i)'
        PROVE  Installed' \in {Installed, Partial, Asked}
    BY <1>3, InstalledChanges DEF Exists
  <1>4. CASE DeleteRoute
    <2>1. PICK route \in Routes : live' = [live EXCEPT ![route] = NoObject]
      BY <1>4 DEF DeleteRoute
    <2>2. route \in AllObjects /\ UNCHANGED storage
      BY <1>4, HelmDeployAssumption DEF DeleteRoute
    <2>3. \A i : ~IsComplete(i)'
      BY <1>0, <2>1, <2>2 DEF ClusterOK, IsComplete
    <2> QED BY <1>3, <2>2, <2>3
  <1>5. CASE UpdateCRD \/ TriggerImportImage
    <2>1. UNCHANGED storage /\ Attempted
      BY <1>5 DEF UpdateCRD, TriggerImportImage, Extra, Attempted
    <2>2. ASSUME NEW i, IsComplete(i)'
          PROVE  i = Asked
      <3>1. storage[Release] # <<>> /\ Of(Latest(storage[Release]).content) = i
        BY <1>0, <2>1, <2>2 DEF IsComplete, Exists
      <3> QED BY <1>0, <2>1, <3>1 DEF Grounded, Exists, Newest
    <2> QED BY <2>1, <2>2, InstalledChanges DEF Exists
  <1>6. CASE UNCHANGED releases
    BY <1>6, InstalledKept
  <1> QED BY <1>1, <1>2, <1>4, <1>5, <1>6, ClusterUnchanged DEF Step

\* What a user of helm leaves.
LEMMA InstalledByOthers ==
    ASSUME Trusted, NEW name \in Names,
           Uninstall(name) \/ \E c \in Customs : Customise(name, c)
    PROVE  Installed' \in {Installed, Partial, Nothing}
  <1>0. ClusterOK /\ Faithful
    BY DEF Trusted, TypeOK
  <1>1. CASE Uninstall(name)
    <2>1. storage'[name] = <<>>
      BY <1>0, <1>1 DEF Uninstall, ClusterOK
    <2>2. \A i : ~IsComplete(i)'
      BY <2>1 DEF IsComplete, Exists
    <2> QED BY <2>2, CasesNext DEF InstalledByCases
  <1>2. ASSUME NEW c \in Customs, Customise(name, c)
        PROVE  Installed' \in {Installed, Partial, Nothing}
    <2>1. PICK content \in Contents :
             /\ content.config.setup = Latest(storage[name]).content.config.setup
             /\ content.chart = Latest(storage[name]).content.chart
             /\ \A q \in Names : q # name => storage'[q] = storage[q]
             /\ storage'[name] # <<>>
             /\ Latest(storage'[name]).content = content
             /\ live' = [o \in AllObjects |->
                           IF o \in RangeOf(Objects[name]) THEN content ELSE live[o]]
             /\ Latest(storage[name]).status = "deployed" /\ Exists(name)
      BY <1>0, <1>2, Customised
    <2>2. UNCHANGED <<crds, imported>>
      BY <1>2 DEF Customise, Interferes
    <2>3. Of(content) = Of(Latest(storage[name]).content)
      BY <2>1 DEF Of
    <2>4. Latest(storage[name]).content # NoObject
      <3>1. storage[name] \in Seq(Revisions) /\ storage[name] # <<>>
        BY <1>0, <2>1 DEF ClusterOK, Exists
      <3>2. Len(storage[name]) \in DOMAIN storage[name]
        BY <3>1
      <3>3. Latest(storage[name]) \in Revisions
        BY <3>1, <3>2 DEF Latest
      <3> QED BY <3>3, HelmDeployAssumption DEF Revisions
    <2>5. ASSUME NEW i, IsComplete(i)'
          PROVE  IsComplete(i)
      <3>1. ASSUME NEW q \in Names
            PROVE  /\ Exists(q) /\ Latest(storage[q]).status = "deployed"
                   /\ Of(Latest(storage[q]).content) = i
        <4>1. /\ storage'[q] # <<>> /\ Latest(storage'[q]).status = "deployed"
              /\ Of(Latest(storage'[q]).content) = i
          BY <2>5 DEF IsComplete, Exists, Latest
        <4> QED BY <2>1, <2>3, <4>1 DEF Exists
      <3>2. ASSUME NEW o \in AllObjects
            PROVE  live[o] # NoObject /\ Of(live[o]) = i
        <4>1. live'[o] # NoObject /\ Of(live'[o]) = i
          BY <2>5 DEF IsComplete
        <4>2. CASE o \in RangeOf(Objects[name])
          <5>1. live[o] = Latest(storage[name]).content
            BY <1>0, <2>1, <4>2 DEF Faithful
          <5> QED BY <2>4, <3>1, <5>1
        <4>3. CASE o \notin RangeOf(Objects[name])
          BY <2>1, <4>1, <4>3
        <4> QED BY <4>2, <4>3
      <3> QED BY <2>2, <2>5, <3>1, <3>2 DEF IsComplete
    <2>6. Exists(name) /\ Exists(name)'
      BY <2>1 DEF Exists
    <2> QED BY <2>5, <2>6, Cases, CasesNext DEF InstalledByCases
  <1> QED BY <1>1, <1>2

-----------------------------------------------------------------------------
(* Every step is one the contract allows. *)

\* How the steps of a call end it.
LEMMA StepOfCall ==
    ASSUME CallOK, Step
    PROVE  /\ pc # "idle" /\ UNCHANGED <<configuration, chart>>
           /\ pc' = "idle" => UNCHANGED releases
  <1>1. ASSUME NEW how, Return(how)
        PROVE  UNCHANGED <<configuration, chart>>
    BY <1>1 DEF Return
  <1>2. CASE \/ ListReleases \/ InstallPart \/ UpgradePart \/ RunRefused \/ RunBegins
             \/ RunEnds \/ RunBreaks \/ AttemptSucceeds \/ UpdateCRD
             \/ TriggerImportImage
    <2>1. /\ pc # "idle" /\ pc' # "idle" /\ UNCHANGED <<configuration, chart>>
      BY <1>2 DEF ListReleases, InstallPart, UpgradePart, Deploy, RunRefused, RunBegins,
         RunEnds, RunBreaks, Ran, AttemptSucceeds, UpdateCRD, TriggerImportImage, Extra,
         Goto, asked
    <2> QED BY <2>1
  <1>3. CASE \/ ListFails \/ RefusePart \/ InstallFails \/ RetryUpgrade
             \/ DeleteRouteFails \/ ExtraFails \/ PartEnds
    <2>1. pc # "idle" /\ UNCHANGED releases
      BY <1>3 DEF ListFails, RefusePart, InstallFails, RetryUpgrade, DeleteRouteFails,
         ExtraFails, PartEnds
    <2>2. UNCHANGED <<configuration, chart>>
      BY <1>1, <1>3 DEF ListFails, RefusePart, InstallFails, RetryUpgrade, Retry,
         DeleteRouteFails, ExtraFails, PartEnds, NextPart, asked
    <2> QED BY <2>1, <2>2
  <1>4. CASE DeleteRoute
    BY <1>4 DEF DeleteRoute, Retry, Goto, asked
  <1> QED BY <1>2, <1>3, <1>4 DEF Step

LEMMA AskedType ==
    ASSUME CallOK
    PROVE  Asked \in Installation
  BY Bounds DEF CallOK, Asked, Installation

\* A call that is begun, a step of it, and its end.
LEMMA CallKeeps ==
    ASSUME TypeOK, NEW s \in Inputs, Call(s)
    PROVE  Contract!Begin
  <1>1. pc = "idle" /\ pc' = "list" /\ UNCHANGED releases
    BY DEF Call, Goto
  <1>2. CallState # "running" /\ CallState' = "running"
    BY <1>1 DEF CallState
  <1>3. Asked' \in Installation
    BY Bounds DEF Call, TypeOK, CallOK, Asked, Installation
  <1> QED BY <1>1, <1>2, <1>3, InstalledKept DEF Contract!Begin

LEMMA StepKeeps ==
    ASSUME Trusted, disturbed' \/ Whole', Step
    PROVE  Contract!Next \/ UNCHANGED Contract!vars
  <1>1. /\ pc # "idle" /\ UNCHANGED <<configuration, chart>>
        /\ pc' = "idle" => UNCHANGED releases
    BY StepOfCall DEF Trusted, TypeOK
  <1>2. CallState = "running" /\ Asked' = Asked /\ Asked \in Installation
    BY <1>1, AskedType DEF CallState, Asked, Trusted, TypeOK
  <1>3. CASE pc' # "idle"
    <2>1. CallState' = "running"
      BY <1>3 DEF CallState
    <2>2. Installed' \in {Installed, Partial, Asked}
      BY InstalledStep
    <2> QED BY <1>2, <2>1, <2>2 DEF Contract!Next, Contract!Change, Contract!vars
  <1>4. CASE pc' = "idle" /\ ~(outcome' = "ok" /\ ~disturbed')
    <2>1. CallState' = "stopped"
      BY <1>4 DEF CallState
    <2>2. Installed' = Installed
      BY <1>1, <1>4, InstalledKept
    <2> QED BY <1>2, <2>1, <2>2 DEF Contract!Next, Contract!Stop
  <1>5. CASE pc' = "idle" /\ outcome' = "ok" /\ ~disturbed'
    <2>1. CallState' = "ok"
      BY <1>5 DEF CallState
    <2>2. IsComplete(Asked)'
      BY <1>5 DEF Whole
    <2>3. Installed' = Asked'
      BY <2>2, CasesNext DEF InstalledByCases
    <2> QED BY <1>2, <2>1, <2>3 DEF Contract!Next, Contract!Succeed
  <1> QED BY <1>3, <1>4, <1>5

\* Another operator takes over, or the same starts again.
LEMMA OperatorKeeps ==
    ASSUME Trusted, CallOK', NEW c \in Charts, Upgrade(c) \/ Crash(c)
    PROVE  Contract!Stop \/ Contract!Intervene
  <1>1. pc' = "idle" /\ outcome' = "none" /\ (Upgrade(c) => pc = "idle")
    BY DEF Upgrade, Crash, Idle
  <1>2. CallState' = "stopped" /\ CallState = IF pc # "idle" THEN "running" ELSE CallState
    BY <1>1 DEF CallState
  <1>3. Asked' \in Installation
    BY Bounds DEF CallOK, Asked, Installation
  <1>4. CASE UNCHANGED releases
    <2>1. Installed' = Installed
      BY <1>4, InstalledKept
    <2>2. CASE CallState = "running"
      BY <1>2, <1>3, <2>1, <2>2 DEF Contract!Stop
    <2>3. CASE CallState # "running"
      BY <1>2, <1>3, <2>1, <2>3 DEF Contract!Intervene
    <2> QED BY <2>2, <2>3
  <1>5. CASE pc = "apply" /\ UNCHANGED storage
    <2>1. Release \in Names /\ Grounded
      BY AtRelease DEF Trusted, TypeOK
    <2>2. storage'[Release] # <<>> /\ Latest(storage'[Release]).status # "deployed"
      BY <1>5, <2>1 DEF Grounded, Exists
    <2>3. Installed' = Partial
      BY <2>1, <2>2, InstalledBreaks
    <2> QED BY <1>2, <1>3, <1>5, <2>3 DEF Contract!Stop
  <1>6. UNCHANGED releases \/ (pc = "apply" /\ UNCHANGED storage)
    BY DEF Upgrade, Crash, releases
  <1> QED BY <1>4, <1>5, <1>6

\* Somebody uses helm.
LEMMA OthersKeep ==
    ASSUME Trusted, NEW name \in Names,
           Uninstall(name) \/ \E c \in Customs : Customise(name, c)
    PROVE  Contract!Intervene
  <1>1. UNCHANGED <<pc, configuration, chart>> /\ disturbed'
    BY DEF Uninstall, Customise, Interferes, asked
  <1>2. CallState' = IF CallState = "running" THEN "running" ELSE "stopped"
    BY <1>1 DEF CallState
  <1>3. Asked' = Asked /\ Asked \in Installation
    BY <1>1, AskedType DEF Asked, Trusted, TypeOK
  <1>4. Installed' \in {Installed, Partial, Nothing}
    BY InstalledByOthers
  <1> QED BY <1>2, <1>3, <1>4 DEF Contract!Intervene

\* However a call fails, retries, dies or is interfered with, and whatever number
\* of failures there are, it is to the reconciler what HelmRun says, unless the
\* deletion of a Route has passed for its last attempt.
THEOREM ContractKept == Spec /\ NoLateRoute => KeepsContract
  <1>1. Init => Contract!Init
    <2> SUFFICES ASSUME Init PROVE Contract!Init
      OBVIOUS
    <2>1. TypeOK
      BY InitTyped
    <2>2. CallState = "stopped"
      BY DEF Init, CallState
    <2>3. Asked \in Installation
      BY <2>1, AskedType DEF TypeOK
    <2>4. Installed = Nothing
      BY Cases DEF Init, Exists, InstalledByCases
    <2> QED BY <2>2, <2>3, <2>4 DEF Contract!Init
  <1>2. Trusted /\ Trusted' /\ (disturbed \/ Whole)' /\ [Next]_vars
          => [Contract!Next]_Contract!vars
    <2> SUFFICES ASSUME Trusted, Trusted', disturbed' \/ Whole', [Next]_vars
                 PROVE  Contract!Next \/ UNCHANGED Contract!vars
      OBVIOUS
    <2>1. TypeOK /\ CallOK'
      BY DEF Trusted, TypeOK
    <2>2. CASE UNCHANGED vars
      <3>1. /\ UNCHANGED releases /\ UNCHANGED <<pc, outcome, disturbed, configuration, chart>>
        BY <2>2 DEF vars, asked, result
      <3>2. CallState' = CallState /\ Asked' = Asked /\ Installed' = Installed
        BY <3>1, InstalledKept DEF CallState, Asked
      <3> QED BY <3>2 DEF Contract!vars
    <2>3. ASSUME NEW s \in Inputs, Call(s)
          PROVE  Contract!Next
      BY <2>1, <2>3, CallKeeps DEF Contract!Next
    <2>4. CASE Step
      BY <2>4, StepKeeps
    <2>5. ASSUME NEW c \in Charts, Upgrade(c) \/ Crash(c)
          PROVE  Contract!Next
      BY <2>1, <2>5, OperatorKeeps DEF Contract!Next
    <2>6. ASSUME NEW name \in Names,
                 Uninstall(name) \/ \E c \in Customs : Customise(name, c)
          PROVE  Contract!Next
      BY <2>6, OthersKeep DEF Contract!Next
    <2> QED BY <2>2, <2>3, <2>4, <2>5, <2>6 DEF Next
  <1>3. Spec /\ NoLateRoute => [](disturbed \/ Whole)
    BY WholeAlways
  <1> QED BY <1>1, <1>2, <1>3, TrustedAlways, PTL DEF Spec, KeepsContract, Contract!Spec

\* A call that returns without an error has brought everything to what it was
\* asked for, under the same condition.
THEOREM SuccessCompletes == Spec /\ NoLateRoute => []SuccessIsComplete
  <1>1. disturbed \/ Whole => SuccessIsComplete
    BY DEF Whole, SuccessIsComplete
  <1> QED BY <1>1, WholeAlways, PTL

-----------------------------------------------------------------------------
(* The condition is met when there are fewer failures than retries. *)

\* The objects of the release that cannot be patched.
Stuck == {o \in RangeOf(Objects[Release]) : Unpatchable(o)}

\* The attempts that failed had a failure each, but one: it failed on all that
\* could not be patched, and on nothing else.
Spared(n) == retries + faults + (IF Stuck = {} THEN 1 ELSE 0) >= MaxRetries + n

Counted ==
    Upgrading =>
        /\ pc = "run" /\ ~Refused => Spared(0)
        /\ pc = "apply" => Spared(0)
        /\ pc = "ran" /\ err =>
             \/ Refused /\ problems = {}
             \/ Spared(1)
             \/ Spared(0) /\ problems = Stuck /\ Stuck # {}

\* The arithmetic of it: o tells whether no object is stuck.
Left(r, f, o, n) == r + f + (IF o THEN 1 ELSE 0) >= MaxRetries + n

LEMMA LeftSteps ==
    ASSUME NEW r \in Nat, NEW f \in Nat, NEW o \in BOOLEAN
    PROVE  /\ Left(MaxRetries, f, o, 0)
           /\ Left(r, f, o, 0) => Left(r, f + 1, o, 1)
           /\ Left(r, f, o, 1) => Left(r - 1, f, o, 0)
           /\ Left(r, f, FALSE, 1) => Left(r - 1, f, TRUE, 0)
           /\ Left(r, f, FALSE, 0) => Left(r - 1, f, TRUE, 0)
           /\ Left(0, f, o, 1) \/ Left(0, f, FALSE, 0) => f >= MaxRetries
  <1>1. CASE o
    BY <1>1, Bounds DEF Left
  <1>2. CASE ~o
    BY <1>2, Bounds DEF Left
  <1> QED BY <1>1, <1>2

\* Of several objects that could not be patched one is the last.
LEMMA LastOfThem ==
    ASSUME NEW s \in Seq(AllObjects), NEW ps, NEW i \in DOMAIN s, s[i] \in ps
    PROVE  \E m \in DOMAIN s : s[m] \in ps /\ \A j \in DOMAIN s : s[j] \in ps => j <= m
  <1> DEFINE T == {n \in Nat : \E k \in DOMAIN s : s[k] \in ps /\ n = Len(s) - k}
  <1>1. DOMAIN s = 1..Len(s) /\ Len(s) \in Nat
    OBVIOUS
  <1>2. \A k \in DOMAIN s : k \in Nat /\ Len(s) - k \in Nat
    <2>1. \A n \in Nat : \A k \in 1..n : k \in Nat /\ n - k \in Nat
      OBVIOUS
    <2> QED BY <1>1, <2>1
  <1>3. \A k \in DOMAIN s : s[k] \in ps => Len(s) - k \in T
    BY <1>2
  <1>4. T \subseteq Nat /\ T # {}
    BY <1>3
  <1>5. PICK x \in T : \A y \in T : <<y, x>> \notin OpToRel(<, Nat)
    <2> HIDE DEF T
    <2> QED BY <1>4, NatLessThanWellFounded, WFMin
  <1>6. \A y \in T : ~(y < x)
    BY <1>4, <1>5 DEF OpToRel
  <1>7. PICK m \in DOMAIN s : s[m] \in ps /\ x = Len(s) - m
    BY <1>5
  <1>8. \A j \in DOMAIN s : s[j] \in ps => ~(Len(s) - j < Len(s) - m)
    BY <1>3, <1>6, <1>7
  <1>9. \A n, j, k \in Nat : ~(n - j < n - k) => j <= k
    OBVIOUS
  <1> QED BY <1>1, <1>2, <1>7, <1>8, <1>9

\* When all that could not be patched are Routes, one is found.
LEMMA RouteIsFound ==
    ASSUME CallOK, problems = Stuck, Stuck # {}
    PROVE  RouteFound
  <1>1. Objects[Release] \in Seq(AllObjects)
    BY AtRelease, HelmDeployAssumption
  <1>2. PICK i \in DOMAIN Objects[Release] : Objects[Release][i] \in problems
    BY DEF Stuck, RangeOf
  <1>3. PICK m \in DOMAIN Objects[Release] :
          /\ Objects[Release][m] \in problems
          /\ \A j \in DOMAIN Objects[Release] : Objects[Release][j] \in problems => j <= m
    BY <1>1, <1>2, LastOfThem
  <1>4. Objects[Release][m] \in Routes
    BY <1>3 DEF Stuck, Unpatchable
  <1> QED BY <1>3, <1>4 DEF RouteFound

\* What an attempt leaves of the objects that could not be patched.
LEMMA StuckStay ==
    ASSUME CallOK, NEW os \in SUBSET (RangeOf(Objects[Release]) \ Stuck),
           live' = Applied(os), UNCHANGED <<part, values, chart>>
    PROVE  Stuck' = Stuck
  <1>1. Release' = Release /\ Content' = Content
    BY DEF Release, Content
  <1>2. \A o \in RangeOf(Objects[Release]) :
          o \in AllObjects /\ live'[o] = IF o \in os THEN Content ELSE live[o]
    <2>1. \A o \in RangeOf(Objects[Release]) : o \in AllObjects
      BY AtRelease DEF AllObjects
    <2> QED BY <2>1 DEF Applied
  <1>3. \A o \in RangeOf(Objects[Release]) : Unpatchable(o)' <=> Unpatchable(o)
    <2> TAKE o \in RangeOf(Objects[Release])
    <2>1. CASE o \in os
      <3>1. ~Unpatchable(o)
        BY <2>1 DEF Stuck
      <3>2. ~Unpatchable(o)'
        BY <1>1, <1>2, <2>1 DEF Unpatchable
      <3> QED BY <3>1, <3>2
    <2>2. CASE o \notin os
      BY <1>1, <1>2, <2>2 DEF Unpatchable
    <2> QED BY <2>1, <2>2
  <1> QED BY <1>1, <1>3 DEF Stuck

LEMMA CountedStep ==
    ASSUME TypeOK, Counted, Step
    PROVE  Counted'
  <1>0. /\ CallOK /\ FaultsOK /\ retries \in Nat /\ faults \in Nat /\ MaxRetries \in Nat
        /\ (Stuck = {}) \in BOOLEAN /\ (Stuck = {})' \in BOOLEAN
    BY Bounds DEF TypeOK, CallOK, FaultsOK
  <1>1. \A n : Spared(n) <=> Left(retries, faults, Stuck = {}, n)
    BY DEF Spared, Left
  <1>2. \A n : Spared(n)' <=> Left(retries', faults', (Stuck = {})', n)
    BY DEF Spared, Left
  <1>3. ASSUME UNCHANGED <<live, part, values, chart>>
        PROVE  Stuck' = Stuck
    BY <1>3 DEF Stuck, Unpatchable, Release, Content
  <1>4. ASSUME UNCHANGED <<storage, part, inNamespace>>
        PROVE  (Upgrading' <=> Upgrading) /\ (Refused' <=> Refused)
    BY <1>4 DEF Upgrading, Refused, Pending, Exists, Release
  <1>5. CASE pc' \notin {"run", "apply", "ran"}
    BY <1>5 DEF Counted
  <1>6. CASE InstallPart
    BY <1>6 DEF InstallPart, Deploy, asked, Counted, Upgrading, Release
  <1>7. CASE UpgradePart
    <2>1. pc' = "run" /\ retries' = MaxRetries /\ faults' = faults
      BY <1>7 DEF UpgradePart, Deploy, Goto, NoFault
    <2>2. Spared(0)'
      BY <1>0, <1>2, <2>1, LeftSteps
    <2> QED BY <2>1, <2>2 DEF Counted
  <1>8. CASE RunRefused
    <2>1. /\ pc' = "ran" /\ problems' = {} /\ Refused
          /\ UNCHANGED <<storage, part, inNamespace>>
      BY <1>8 DEF RunRefused, Ran, Goto, releases, asked
    <2> QED BY <1>4, <2>1 DEF Counted
  <1>9. CASE RunBegins
    <2>1. /\ pc = "run" /\ pc' = "apply" /\ ~Refused
          /\ UNCHANGED <<live, part, inNamespace, values, chart, retries, faults>>
      BY <1>9 DEF RunBegins, Goto, asked, attempt, NoFault
    <2>2. Stuck' = Stuck /\ (Upgrading' <=> Upgrading)
      BY <1>3, <2>1 DEF Upgrading, Release
    <2>3. Spared(0)' <=> Spared(0)
      BY <1>1, <1>2, <2>1, <2>2
    <2> QED BY <2>1, <2>2, <2>3 DEF Counted
  <1>10. CASE RunEnds
    <2>1. PICK broken \in SUBSET (RangeOf(Objects[Release]) \ Stuck) :
            /\ IF broken = {} THEN NoFault ELSE Fault("patch")
            /\ live' = Applied(RangeOf(Objects[Release]) \ (broken \cup Stuck))
            /\ Ran(broken \cup Stuck # {}, broken \cup Stuck)
      BY <1>10 DEF RunEnds, Stuck
    <2>2. /\ pc = "apply" /\ pc' = "ran" /\ problems' = broken \cup Stuck
          /\ err' = (broken \cup Stuck # {})
          /\ UNCHANGED <<part, inNamespace, values, chart, retries>>
      BY <1>10, <2>1 DEF RunEnds, Ran, Goto, asked
    <2>3. Stuck' = Stuck
      BY <1>0, <2>1, <2>2, StuckStay
    <2>4. Upgrading' <=> Upgrading
      BY <2>2 DEF Upgrading, Release
    <2>5. CASE broken # {}
      <3>1. faults' = faults + 1
        BY <2>1, <2>5 DEF Fault
      <3>2. Spared(0) => Spared(1)'
        BY <1>0, <1>1, <1>2, <2>2, <2>3, <3>1, LeftSteps
      <3> QED BY <2>2, <2>4, <3>2 DEF Counted
    <2>6. CASE broken = {}
      <3>1. faults' = faults
        BY <2>1, <2>6 DEF NoFault
      <3>2. Spared(0)' <=> Spared(0)
        BY <1>1, <1>2, <2>2, <2>3, <3>1
      <3> QED BY <2>2, <2>3, <2>4, <2>6, <3>2 DEF Counted
    <2> QED BY <2>5, <2>6
  <1>11. CASE RunBreaks
    <2>1. PICK os \in SUBSET (RangeOf(Objects[Release]) \ Stuck) : live' = Applied(os)
      BY <1>11 DEF RunBreaks, Stuck
    <2>2. /\ pc = "apply" /\ pc' = "ran" /\ faults' = faults + 1
          /\ UNCHANGED <<part, inNamespace, values, chart, retries>>
      BY <1>11 DEF RunBreaks, Fault, Ran, Goto, asked
    <2>3. Stuck' = Stuck /\ (Upgrading' <=> Upgrading)
      BY <1>0, <2>1, <2>2, StuckStay DEF Upgrading, Release
    <2>4. Spared(0) => Spared(1)'
      BY <1>0, <1>1, <1>2, <2>2, <2>3, LeftSteps
    <2> QED BY <2>2, <2>3, <2>4 DEF Counted
  <1>12. CASE RetryUpgrade /\ pc' = "run"
    <2>1. /\ pc = "ran" /\ err /\ ~RouteFound /\ retries' = retries - 1
          /\ UNCHANGED <<storage, live, part, inNamespace, values, chart, faults>>
      BY <1>12 DEF RetryUpgrade, Retry, Goto, Return, Idle, NoFault, releases, asked
    <2>2. Stuck' = Stuck /\ (Upgrading' <=> Upgrading) /\ (Refused' <=> Refused)
      BY <1>3, <1>4, <2>1
    <2>3. ~(problems = Stuck /\ Stuck # {})
      BY <1>0, <2>1, RouteIsFound
    <2>4. Spared(1) => Spared(0)'
      BY <1>0, <1>1, <1>2, <2>1, <2>2, LeftSteps
    <2> QED BY <1>12, <2>1, <2>2, <2>3, <2>4 DEF Counted
  <1>13. CASE DeleteRoute /\ pc' = "run"
    <2>1. PICK route \in Routes :
            Named(route) /\ live' = [live EXCEPT ![route] = NoObject]
      BY <1>13 DEF DeleteRoute
    <2>2. /\ pc = "ran" /\ err /\ Upgrading /\ retries' = retries - 1
          /\ UNCHANGED <<storage, part, inNamespace, values, chart, faults>>
      BY <1>13 DEF DeleteRoute, Retry, Goto, Return, Idle, NoFault, asked
    <2>3. Upgrading' /\ problems = {route} /\ problems # {}
      BY <2>1, <2>2 DEF Named, Upgrading, Release
    <2>4. \A o \in RangeOf(Objects[Release]) :
            Unpatchable(o)' <=> Unpatchable(o) /\ o # route
      <3>1. \A o \in RangeOf(Objects[Release]) : o \in AllObjects
        BY <1>0, AtRelease DEF AllObjects
      <3>2. \A o \in RangeOf(Objects[Release]) :
              live'[o] = IF o = route THEN NoObject ELSE live[o]
        BY <2>1, <3>1 DEF TypeOK, ClusterOK
      <3>3. Content' = Content
        BY <2>2 DEF Content
      <3> QED BY <3>2, <3>3 DEF Unpatchable
    <2>5. Stuck' = Stuck \ {route}
      BY <2>2, <2>4 DEF Stuck, Release
    <2>6. CASE Spared(1)
      <3>1. CASE Stuck = {}
        <4>1. (Stuck = {})' = (Stuck = {})
          BY <2>5, <3>1
        <4>2. Spared(0)'
          BY <1>0, <1>1, <1>2, <2>2, <2>6, <4>1, LeftSteps
        <4> QED BY <1>13, <4>2 DEF Counted
      <3>2. CASE Stuck # {} /\ Stuck' # {}
        <4>1. (Stuck = {})' = (Stuck = {})
          BY <3>2
        <4>2. Spared(0)'
          BY <1>0, <1>1, <1>2, <2>2, <2>6, <4>1, LeftSteps
        <4> QED BY <1>13, <4>2 DEF Counted
      <3>3. CASE Stuck # {} /\ Stuck' = {}
        <4>1. (Stuck = {})' = TRUE /\ (Stuck = {}) = FALSE
          BY <3>3
        <4>2. Spared(0)'
          BY <1>0, <1>1, <1>2, <2>2, <2>6, <4>1, LeftSteps
        <4> QED BY <1>13, <4>2 DEF Counted
      <3> QED BY <3>1, <3>2, <3>3
    <2>7. CASE Spared(0) /\ problems = Stuck
      <3>1. (Stuck = {})' = TRUE /\ (Stuck = {}) = FALSE
        BY <2>3, <2>5, <2>7
      <3>2. Spared(0)'
        BY <1>0, <1>1, <1>2, <2>2, <2>7, <3>1, LeftSteps
      <3> QED BY <1>13, <3>2 DEF Counted
    <2> QED BY <2>2, <2>3, <2>6, <2>7 DEF Counted
  <1>14. pc' \notin {"run", "apply", "ran"} \/ ~(RetryUpgrade \/ DeleteRoute) \/ pc' = "run"
    BY DEF RetryUpgrade, DeleteRoute, Retry, Goto, Return, Idle
  <1>15. CASE \/ ListReleases \/ ListFails \/ RefusePart \/ AttemptSucceeds \/ InstallFails
              \/ DeleteRouteFails \/ ExtraFails \/ UpdateCRD \/ TriggerImportImage \/ PartEnds
    <2>1. pc' \notin {"run", "apply", "ran"}
      BY <1>15 DEF ListReleases, ListFails, RefusePart, AttemptSucceeds, InstallFails,
         DeleteRouteFails, ExtraFails, UpdateCRD, TriggerImportImage, Extra, PartEnds,
         NextPart, Goto, Return, Idle
    <2> QED BY <1>5, <2>1
  <1> QED BY <1>5, <1>6, <1>7, <1>8, <1>9, <1>10, <1>11, <1>12, <1>13, <1>14, <1>15
          DEF Step

LEMMA CountedNext ==
    ASSUME TypeOK, disturbed \/ Counted, [Next]_vars
    PROVE  disturbed' \/ Counted'
  <1>1. ASSUME NEW s, NEW c, Call(s) \/ Upgrade(c) \/ Crash(c)
        PROVE  Counted'
    BY <1>1 DEF Call, Upgrade, Crash, Goto, Idle, Counted
  <1>2. ASSUME NEW name, NEW c, Customise(name, c) \/ Uninstall(name)
        PROVE  disturbed'
    BY <1>2 DEF Customise, Uninstall, Interferes
  <1>3. CASE Step
    <2>1. disturbed' = disturbed
      BY <1>3 DEF Step, ListReleases, ListFails, RefusePart, InstallPart, UpgradePart,
         Deploy, RunRefused, RunBegins, RunEnds, RunBreaks, AttemptSucceeds,
         InstallFails, RetryUpgrade, DeleteRoute, DeleteRouteFails, UpdateCRD,
         TriggerImportImage, Extra, ExtraFails, PartEnds, NoFault, Fault
    <2>2. Counted => Counted'
      BY <1>3, CountedStep
    <2> QED BY <2>1, <2>2
  <1>4. CASE UNCHANGED vars
    <2>1. /\ UNCHANGED <<disturbed, pc, err, problems, retries, faults, storage, live,
                         part, values, chart, inNamespace>>
      BY <1>4 DEF vars, releases, asked, attempt, result
    <2>2. Stuck' = Stuck /\ (Refused' <=> Refused) /\ (Upgrading' <=> Upgrading)
      BY <2>1 DEF Stuck, Unpatchable, Refused, Pending, Exists, Upgrading, Release, Content
    <2>3. \A n : Spared(n)' <=> Spared(n)
      BY <2>1, <2>2 DEF Spared
    <2>4. Counted' <=> Counted
      BY <2>1, <2>2, <2>3 DEF Counted
    <2> QED BY <2>1, <2>4
  <1> QED BY <1>1, <1>2, <1>3, <1>4 DEF Next

\* The assumption: there are not enough failures to use up the attempts, or there
\* is no Route to delete.
FewFaults == MaxFaults < MaxRetries \/ Routes = {}

\* With fewer failures than retries, whoever uses helm and whenever the operator
\* dies, no Route is deleted after the last attempt of an undisturbed call.
THEOREM FewFaultsSuffice ==
    ASSUME FewFaults
    PROVE  Spec => NoLateRoute
  <1>1. Init => Counted
    BY DEF Init, Counted
  <1>2. TypeOK /\ (disturbed \/ Counted) /\ [Next]_vars => (disturbed \/ Counted)'
    BY CountedNext
  <1>3. TypeOK /\ (disturbed \/ Counted) => [~disturbed => ~LateRoute]_vars
    <2> SUFFICES ASSUME TypeOK, Counted, LateRoute
                 PROVE  FALSE
      OBVIOUS
    <2>1. /\ pc = "ran" /\ err /\ Upgrading /\ retries = 0 /\ faults \in Nat
          /\ faults <= MaxFaults /\ (Stuck = {}) \in BOOLEAN
      BY Bounds DEF LateRoute, DeleteRoute, TypeOK, FaultsOK
    <2>2. Routes # {} /\ problems # {}
      BY DEF LateRoute, DeleteRoute, Named
    <2>3. Spared(1) \/ (Spared(0) /\ Stuck # {})
      BY <2>1, <2>2 DEF Counted
    <2>4. \/ Left(0, faults, Stuck = {}, 1)
          \/ Left(0, faults, FALSE, 0)
      BY <2>1, <2>3 DEF Spared, Left
    <2>5. faults >= MaxRetries
      BY <2>1, <2>4, LeftSteps
    <2> QED BY <2>1, <2>2, <2>5, Bounds DEF FewFaults
  <1> QED BY <1>1, <1>2, <1>3, CallsAreTyped, PTL DEF Spec, NoLateRoute

\* So there a call keeps its contract, and one that succeeds is complete.
THEOREM ContractHolds ==
    ASSUME FewFaults
    PROVE  Spec => KeepsContract /\ []SuccessIsComplete
  BY FewFaultsSuffice, ContractKept, SuccessCompletes, PTL

=============================================================================
