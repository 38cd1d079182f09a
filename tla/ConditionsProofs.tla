-------------------------- MODULE ConditionsProofs --------------------------
(***************************************************************************)
(* Facts about the operators of Conditions, for every set of versions.     *)
(***************************************************************************)
EXTENDS Conditions, TLAPS

\* s is preferred to t: it has the later stamp, or comes first among equals.
Beats(conds, s, t) ==
    \/ Later(conds[s], conds[t])
    \/ ~Later(conds[t], conds[s]) /\ Position[s] <= Position[t]

\* The positions of the statuses are distinct numbers.
LEMMA Positions ==
    /\ Position[STATUS_PAUSED] = 1 /\ Position[STATUS_FAILED] = 2
    /\ Position[STATUS_SUCCESSFUL] = 3 /\ Position[STATUS_UPDATING] = 4
  BY DEF Position, Statuses, STATUS_PAUSED, STATUS_FAILED, STATUS_SUCCESSFUL,
         STATUS_UPDATING

\* What is present has a stamp and a position.
LEMMA PresentHasStamp ==
    ASSUME NEW conds \in ConditionMaps, NEW s \in Present(conds)
    PROVE  /\ s \in Statuses /\ conds[s] \in Condition
           /\ conds[s].sec \in Nat /\ conds[s].frac \in {0, 1}
           /\ conds[s].version \in Versions
           /\ Position[s] \in 1..4
  <1>1. s \in Statuses /\ conds[s] \in Condition
    BY DEF ConditionMaps, Present
  <1>2. Position[s] \in 1..4
    BY <1>1, Positions DEF Statuses
  <1> QED BY <1>1, <1>2 DEF Condition

\* The order the loops over the conditions choose by is total and transitive.
LEMMA BeatsIsAnOrder ==
    ASSUME NEW conds \in ConditionMaps
    PROVE  /\ \A s, t \in Present(conds) :
                Beats(conds, s, t) \/ Beats(conds, t, s)
           /\ \A s, t, u \in Present(conds) :
                Beats(conds, s, t) /\ Beats(conds, t, u) => Beats(conds, s, u)
  BY PresentHasStamp DEF Beats, Later

\* A set of conditions with a best one has a best one when another is added.
LEMMA BestOfOneMore ==
    ASSUME NEW conds \in ConditionMaps, NEW S \in SUBSET Present(conds),
           NEW x \in Present(conds),
           S # {} => \E s \in S : \A t \in S : Beats(conds, s, t)
    PROVE  \E s \in S \cup {x} : \A t \in S \cup {x} : Beats(conds, s, t)
  <1>1. CASE S = {}
    BY <1>1, BeatsIsAnOrder
  <1>2. CASE S # {}
    <2>1. PICK s \in S : \A t \in S : Beats(conds, s, t)
      BY <1>2
    <2>2. CASE Beats(conds, s, x)
      BY <2>1, <2>2
    <2>3. CASE ~Beats(conds, s, x)
      <3>1. Beats(conds, x, s) /\ Beats(conds, x, x)
        BY <2>3, BeatsIsAnOrder
      <3>2. \A t \in S : Beats(conds, x, t)
        BY <2>1, <3>1, BeatsIsAnOrder
      <3> QED BY <3>1, <3>2
    <2> QED BY <2>2, <2>3
  <1> QED BY <1>1, <1>2

\* LastStatus is well defined: one of the conditions beats all of them.
LEMMA BestExists ==
    ASSUME NEW conds \in ConditionMaps, Present(conds) # {}
    PROVE  \E s \in Present(conds) : \A t \in Present(conds) : Beats(conds, s, t)
  <1> DEFINE Best(S) ==
        S # {} => \E s \in S : \A t \in S : Beats(conds, s, t)
             Upto1 == Present(conds) \cap {STATUS_PAUSED}
             Upto2 == Present(conds) \cap {STATUS_PAUSED, STATUS_FAILED}
             Upto3 == Present(conds) \cap
                        {STATUS_PAUSED, STATUS_FAILED, STATUS_SUCCESSFUL}
  <1>1. Present(conds) \subseteq Statuses
    BY DEF Present
  <1>2. Best({})
    OBVIOUS
  <1>3. Best(Upto1)
    <2>1. Upto1 = {} \/ Upto1 = {} \cup {STATUS_PAUSED}
      OBVIOUS
    <2> QED BY <1>2, <2>1, BestOfOneMore
  <1>4. Best(Upto2)
    <2>1. \/ Upto2 = Upto1
          \/ STATUS_FAILED \in Present(conds) /\ Upto2 = Upto1 \cup {STATUS_FAILED}
      OBVIOUS
    <2>2. Upto1 \in SUBSET Present(conds)
      OBVIOUS
    <2> HIDE DEF Upto1, Upto2
    <2> QED BY <1>3, <2>1, <2>2, BestOfOneMore
  <1>5. Best(Upto3)
    <2>1. \/ Upto3 = Upto2
          \/ /\ STATUS_SUCCESSFUL \in Present(conds)
             /\ Upto3 = Upto2 \cup {STATUS_SUCCESSFUL}
      OBVIOUS
    <2>2. Upto2 \in SUBSET Present(conds)
      OBVIOUS
    <2> HIDE DEF Upto2, Upto3
    <2> QED BY <1>4, <2>1, <2>2, BestOfOneMore
  <1>6. Best(Present(conds))
    <2>1. \/ Present(conds) = Upto3
          \/ /\ STATUS_UPDATING \in Present(conds)
             /\ Present(conds) = Upto3 \cup {STATUS_UPDATING}
      BY <1>1 DEF Statuses
    <2>2. Upto3 \in SUBSET Present(conds)
      OBVIOUS
    <2> HIDE DEF Upto3
    <2>3. CASE Present(conds) = Upto3
      BY <1>5, <2>3
    <2>4. CASE /\ STATUS_UPDATING \in Present(conds)
               /\ Present(conds) = Upto3 \cup {STATUS_UPDATING}
      <3>1. \E s \in Upto3 \cup {STATUS_UPDATING} :
              \A t \in Upto3 \cup {STATUS_UPDATING} : Beats(conds, s, t)
        BY <1>5, <2>2, <2>4, BestOfOneMore
      <3> QED BY <2>4, <3>1
    <2> QED BY <2>1, <2>3, <2>4
  <1> QED BY <1>6

\* What LastStatus returns.
LEMMA LastStatusIsBest ==
    ASSUME NEW conds \in ConditionMaps, Present(conds) # {}
    PROVE  /\ LastStatus(conds) \in Present(conds)
           /\ \A t \in Present(conds) : Beats(conds, LastStatus(conds), t)
  BY BestExists DEF LastStatus, Beats

\* The last status is a status, Unknown exactly when there is no condition.
LEMMA LastStatusType ==
    ASSUME NEW conds \in ConditionMaps
    PROVE  /\ LastStatus(conds) \in {STATUS_UNKNOWN} \cup Statuses
           /\ LastStatus(conds) = STATUS_UNKNOWN <=> Present(conds) = {}
           /\ LastStatus(conds) # STATUS_UNKNOWN
                => LastStatus(conds) \in Present(conds)
  <1>1. CASE Present(conds) = {}
    BY <1>1 DEF LastStatus
  <1>2. CASE Present(conds) # {}
    <2>1. LastStatus(conds) \in Present(conds)
      BY <1>2, LastStatusIsBest
    <2>2. LastStatus(conds) \in Statuses
      BY <2>1 DEF Present
    <2>3. STATUS_UNKNOWN \notin Statuses
      BY DEF STATUS_UNKNOWN, Statuses, STATUS_PAUSED, STATUS_FAILED,
             STATUS_SUCCESSFUL, STATUS_UPDATING
    <2> QED BY <1>2, <2>1, <2>2, <2>3
  <1> QED BY <1>1, <1>2

\* A condition no other is later than, and no other of an earlier position is
\* as late as, is the last one.
LEMMA LatestIsLast ==
    ASSUME NEW conds \in ConditionMaps, NEW s \in Present(conds),
           \A t \in Present(conds) \ {s} :
               \/ Later(conds[s], conds[t])
               \/ ~Later(conds[t], conds[s]) /\ Position[s] < Position[t]
    PROVE  LastStatus(conds) = s
  <1>1. /\ LastStatus(conds) \in Present(conds)
        /\ Beats(conds, LastStatus(conds), s)
    BY LastStatusIsBest
  <1> QED BY <1>1, PresentHasStamp DEF Beats, Later

\* A stamped condition is a condition, and putting one in a map gives a map.
LEMMA PutType ==
    ASSUME NEW conds \in ConditionMaps, NEW s \in Statuses,
           NEW c \in Condition
    PROVE  /\ Put(conds, s, c) \in ConditionMaps
           /\ Put(conds, s, c)[s] = c
           /\ \A t \in Statuses \ {s} : Put(conds, s, c)[t] = conds[t]
           /\ Present(Put(conds, s, c)) = Present(conds) \cup {s}
  BY NoConditionAssumption DEF Put, ConditionMaps, Present

LEMMA StampType ==
    ASSUME NEW now \in Nat, NEW version \in Versions
    PROVE  Stamp(now, version) \in Condition
  BY DEF Stamp, Condition

\* Storing keeps which conditions there are, their seconds and versions.
LEMMA StoredType ==
    ASSUME NEW conds \in ConditionMaps
    PROVE  /\ Stored(conds) \in ConditionMaps
           /\ Present(Stored(conds)) = Present(conds)
           /\ \A s \in Present(conds) :
                /\ Stored(conds)[s].sec = conds[s].sec
                /\ Stored(conds)[s].frac = 0
                /\ Stored(conds)[s].version = conds[s].version
  <1>1. \A s \in Present(conds) :
          /\ conds[s] \in Condition
          /\ Stored(conds)[s] = [conds[s] EXCEPT !.frac = 0]
          /\ Stored(conds)[s] \in Condition
          /\ Stored(conds)[s] # NoCondition
    BY PresentHasStamp, NoConditionAssumption DEF Stored, Present, Condition
  <1>2. \A s \in Statuses \ Present(conds) : Stored(conds)[s] = NoCondition
    BY DEF Stored
  <1>3. Present(conds) \subseteq Statuses
    BY DEF Present
  <1>4. Stored(conds) \in ConditionMaps
    BY <1>1, <1>2, <1>3 DEF Stored, ConditionMaps
  <1>5. Present(Stored(conds)) = Present(conds)
    BY <1>1, <1>2, <1>3 DEF Present
  <1> QED BY <1>1, <1>4, <1>5 DEF Condition

LEMMA NoConditionsType ==
    NoConditions \in ConditionMaps /\ Present(NoConditions) = {}
  BY DEF NoConditions, ConditionMaps, Present

=============================================================================
