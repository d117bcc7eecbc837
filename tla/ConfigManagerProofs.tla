------------------------ MODULE ConfigManagerProofs ------------------------
(***************************************************************************)
(* Proofs about ConfigManager, for any configs and any number of rollouts  *)
(* and failures.                                                           *)
(***************************************************************************)
EXTENDS ConfigManager, TLAPS

\* A config selected from the rollouts, and not cleared since, has the largest
\* traffic of the rollout it was selected from.
SelectionSound ==
  strategy = "managed" /\ curConfigID # NoId =>
    selectedFrom > 0 /\ curConfigID \in MaxConfigs(rollouts[selectedFrom])

\* The snapshot is not newer than the selection.
SnapshotBehind == snapshotFrom <= selectedFrom

\* Before the first update there is nothing to go back to.
FreshStart == phase = "starting" /\ ~updating => curRolloutID = NoId

IInv ==
  /\ TypeOK /\ AlwaysServing /\ SnapshotHasMostTraffic
  /\ SelectionSound /\ SnapshotBehind /\ FreshStart

\* loadConfigFromRollouts returns empty ids, the current ones, or the newest
\* rollout with one of its configs of the largest traffic.
LEMMA LoadedIds ==
  ASSUME NEW ids \in LoadConfigFromRollouts
  PROVE \/ ids = NoIds
        \/ ids = <<curRolloutID, curConfigID>> /\ curRolloutID \in 1..Len(rollouts)
        \/ /\ Len(rollouts) \in 1..Len(rollouts)
           /\ \E c \in MaxConfigs(rollouts[Len(rollouts)]) : ids = <<Len(rollouts), c>>
<1>1. CASE rollouts = <<>>
  BY <1>1 DEF LoadConfigFromRollouts
<1>2. CASE rollouts # <<>>
  <2>1. PICK n \in NewestRollout :
          ids \in IF n = curRolloutID THEN {<<curRolloutID, curConfigID>>}
                  ELSE IF MaxConfigs(rollouts[n]) = {} THEN {NoIds}
                  ELSE {<<n, c>> : c \in MaxConfigs(rollouts[n])}
    BY <1>2 DEF LoadConfigFromRollouts
  <2>2. n \in 1..Len(rollouts) /\ n = Len(rollouts)
    BY DEF NewestRollout
  <2> QED BY <2>1, <2>2
<1> QED BY <1>1, <1>2

\* Nothing is selected or served at the start.
LEMMA InitIInv == Init => IInv
<1> SUFFICES ASSUME Init PROVE IInv
  OBVIOUS
<1> USE DEF Init
<1>1. TypeOK
  <2>1. rollouts \in Seq(Percentages) /\ Len(rollouts) = 0
    OBVIOUS
  <2>2. Len(rollouts) <= MaxRollouts /\ snapshotFrom \in 0..Len(rollouts)
        /\ selectedFrom \in 0..Len(rollouts) /\ fetchFailures \in 0..MaxFetchFailures
    BY <2>1, RolloutBoundsAssumption
  <2> QED BY <2>1, <2>2 DEF TypeOK
<1>2. AlwaysServing /\ SnapshotHasMostTraffic
  BY DEF AlwaysServing, SnapshotHasMostTraffic
<1>3. SelectionSound /\ SnapshotBehind /\ FreshStart
  BY DEF SelectionSound, SnapshotBehind, FreshStart
<1> QED BY <1>1, <1>2, <1>3 DEF IInv

\* A rollout that is published leaves the older ones where they were.
LEMMA PublishIInv == ASSUME IInv, Publish PROVE IInv' /\ snapshotFrom' >= snapshotFrom
<1>1. PICK p \in Percentages : rollouts' = Append(rollouts, p)
  BY DEF Publish
<1>2. TypeOK /\ UNCHANGED <<strategy, phase, curRolloutID, curConfigID, selectedFrom,
                            updating, snapshot, snapshotFrom, fetchFailures>>
  BY DEF IInv, Publish, idVars
<1>3. /\ Len(rollouts) \in Nat /\ rollouts' \in Seq(Percentages) /\ Len(rollouts') = Len(rollouts) + 1
      /\ \A i \in 1..Len(rollouts) : rollouts'[i] = rollouts[i]
  BY <1>1, <1>2 DEF TypeOK
<1>4. TypeOK'
  <2>1. Len(rollouts') <= MaxRollouts
    BY <1>2, <1>3, RolloutBoundsAssumption DEF TypeOK, Publish
  <2>2. 1..Len(rollouts) \subseteq 1..Len(rollouts') /\ 0..Len(rollouts) \subseteq 0..Len(rollouts')
    BY <1>3
  <2>3. curRolloutID' \in 1..Len(rollouts') \cup {NoId} /\ snapshotFrom' \in 0..Len(rollouts')
        /\ selectedFrom' \in 0..Len(rollouts')
    BY <1>2, <2>2 DEF TypeOK
  <2> QED BY <1>2, <1>3, <2>1, <2>3 DEF TypeOK
<1>5. SelectionSound'
  <2> SUFFICES ASSUME strategy = "managed", curConfigID # NoId
               PROVE selectedFrom > 0 /\ curConfigID \in MaxConfigs(rollouts'[selectedFrom])
    BY <1>2 DEF SelectionSound, MaxConfigs
  <2>1. selectedFrom > 0 /\ curConfigID \in MaxConfigs(rollouts[selectedFrom])
    BY DEF IInv, SelectionSound
  <2>2. selectedFrom \in 1..Len(rollouts)
    BY <1>2, <1>3, <2>1 DEF TypeOK
  <2> QED BY <1>3, <2>1, <2>2
<1>6. SnapshotHasMostTraffic'
  <2> SUFFICES ASSUME strategy = "managed", snapshot # NoId
               PROVE /\ snapshotFrom > 0
                     /\ \A c \in Configs : rollouts'[snapshotFrom][c] <= rollouts'[snapshotFrom][snapshot]
    BY <1>2 DEF SnapshotHasMostTraffic
  <2>1. /\ snapshotFrom > 0
        /\ \A c \in Configs : rollouts[snapshotFrom][c] <= rollouts[snapshotFrom][snapshot]
    BY DEF IInv, SnapshotHasMostTraffic
  <2>2. snapshotFrom \in 1..Len(rollouts)
    BY <1>2, <1>3, <2>1 DEF TypeOK
  <2> QED BY <1>3, <2>1, <2>2
<1>7. AlwaysServing' /\ SnapshotBehind' /\ FreshStart'
  BY <1>2 DEF IInv, AlwaysServing, SnapshotBehind, FreshStart
<1>8. snapshotFrom' >= snapshotFrom
  BY <1>2, <1>3 DEF TypeOK
<1> QED BY <1>4, <1>5, <1>6, <1>7, <1>8 DEF IInv

\* What a selection must respect: it clears the ids and keeps selectedFrom, or it
\* takes the newest rollout and a config of its largest traffic.
Selects ==
  \/ curRolloutID' = NoId /\ curConfigID' = NoId /\ selectedFrom' = selectedFrom
  \/ /\ Len(rollouts) \in 1..Len(rollouts)
     /\ curRolloutID' = Len(rollouts) /\ selectedFrom' = Len(rollouts)
     /\ curConfigID' \in MaxConfigs(rollouts[Len(rollouts)])

\* Such a selection keeps the invariant, and so does one outside managed rollouts.
LEMMA SelectIInv ==
  ASSUME IInv, UNCHANGED <<strategy, rollouts, snapshot, snapshotFrom, fetchFailures>>,
         phase' \in {phase, "exited"}, updating' \in BOOLEAN,
         phase' = "starting" => updating',
         \/ Selects
         \/ UNCHANGED idVars
         \/ strategy # "managed" /\ curConfigID' \in Configs /\ UNCHANGED <<curRolloutID, selectedFrom>>
  PROVE IInv' /\ snapshotFrom' >= snapshotFrom
<1>1. TypeOK /\ Len(rollouts) \in Nat /\ selectedFrom \in 0..Len(rollouts) /\ snapshotFrom \in 0..Len(rollouts)
  BY DEF IInv, TypeOK
<1>2. /\ curRolloutID' \in 1..Len(rollouts) \cup {NoId}
      /\ curConfigID' \in Configs \cup {NoId}
      /\ selectedFrom' \in 0..Len(rollouts) /\ selectedFrom' >= selectedFrom
  <2>1. CASE Selects
    <3>1. CASE curRolloutID' = NoId /\ curConfigID' = NoId /\ selectedFrom' = selectedFrom
      BY <1>1, <3>1
    <3>2. CASE /\ Len(rollouts) \in 1..Len(rollouts)
               /\ curRolloutID' = Len(rollouts) /\ selectedFrom' = Len(rollouts)
               /\ curConfigID' \in MaxConfigs(rollouts[Len(rollouts)])
      <4>1. curConfigID' \in Configs
        BY <3>2 DEF MaxConfigs
      <4> QED BY <1>1, <3>2, <4>1
    <3> QED BY <2>1, <3>1, <3>2 DEF Selects
  <2>2. CASE ~Selects
    <3>1. selectedFrom' = selectedFrom /\ curRolloutID' = curRolloutID
          /\ (curConfigID' = curConfigID \/ curConfigID' \in Configs)
      BY <2>2 DEF idVars
    <3> QED BY <1>1, <3>1 DEF TypeOK
  <2> QED BY <2>1, <2>2
<1>3. TypeOK'
  BY <1>1, <1>2 DEF TypeOK
<1>4. SnapshotBehind'
  <2>1. snapshotFrom <= selectedFrom
    BY DEF IInv, SnapshotBehind
  <2> QED BY <1>1, <1>2, <2>1 DEF SnapshotBehind
<1>5. SelectionSound'
  <2> SUFFICES ASSUME strategy = "managed", curConfigID' # NoId
               PROVE selectedFrom' > 0 /\ curConfigID' \in MaxConfigs(rollouts[selectedFrom'])
    BY DEF SelectionSound, MaxConfigs
  <2>1. CASE Selects
    BY <1>1, <2>1 DEF Selects
  <2>2. CASE UNCHANGED idVars
    BY <2>2 DEF IInv, SelectionSound, idVars
  <2> QED BY <2>1, <2>2
<1>6. AlwaysServing' /\ SnapshotHasMostTraffic' /\ FreshStart'
  BY DEF IInv, AlwaysServing, SnapshotHasMostTraffic, FreshStart
<1>7. snapshotFrom' >= snapshotFrom
  BY <1>1
<1> QED BY <1>3, <1>4, <1>5, <1>6, <1>7 DEF IInv

\* New ids that differ from the current ones are empty or of the newest rollout.
LEMMA NewIdsSelect ==
  ASSUME NEW ids \in LoadConfigFromRollouts \cup {NoIds},
         curRolloutID # ids[1] \/ curRolloutID = NoId, NoId \notin 1..Len(rollouts),
         curRolloutID' = ids[1], curConfigID' = ids[2],
         selectedFrom' = IF ids = NoIds THEN selectedFrom ELSE ids[1]
  PROVE Selects
<1>1. CASE ids = NoIds
  BY <1>1 DEF NoIds, Selects
<1>2. CASE ids # NoIds
  <2>1. PICK c \in MaxConfigs(rollouts[Len(rollouts)]) :
          Len(rollouts) \in 1..Len(rollouts) /\ ids = <<Len(rollouts), c>>
    BY <1>2, LoadedIds
  <2>2. ids[1] = Len(rollouts) /\ ids[2] = c
    BY <2>1
  <2> QED BY <1>2, <2>1, <2>2 DEF Selects
<1> QED BY <1>1, <1>2

\* NoId is not a rollout.
LEMMA NoIdNoRollout == TypeOK => NoId \notin 1..Len(rollouts)
BY NoIdIsNoNumber, RolloutBoundsAssumption DEF TypeOK

\* NewConfigManager selects the first config.
LEMMA NewConfigManagerIInv ==
  ASSUME IInv, NewConfigManager PROVE IInv' /\ snapshotFrom' >= snapshotFrom
<1>1. /\ phase = "starting" /\ ~updating /\ curRolloutID = NoId
      /\ TypeOK /\ NoId \notin 1..Len(rollouts)
      /\ UNCHANGED <<strategy, rollouts, snapshot, snapshotFrom, fetchFailures>>
  BY NoIdNoRollout DEF IInv, NewConfigManager, FreshStart
<1>2. CASE StartFromRollouts
  <2>1. PICK ids \in LoadConfigFromRollouts \cup {NoIds} :
          \/ ids = NoIds /\ phase' = "exited" /\ UNCHANGED <<idVars, updating>>
          \/ /\ ids # NoIds /\ curRolloutID' = ids[1] /\ curConfigID' = ids[2]
             /\ selectedFrom' = ids[1] /\ updating' = TRUE /\ UNCHANGED phase
    BY <1>2 DEF StartFromRollouts
  <2>2. CASE phase' = "exited" /\ UNCHANGED <<idVars, updating>>
    <3>1. updating' \in BOOLEAN /\ UNCHANGED idVars /\ phase' = "exited"
      BY <1>1, <2>2 DEF TypeOK
    <3> QED BY <1>1, <3>1, SelectIInv
  <2>3. CASE /\ ids # NoIds /\ curRolloutID' = ids[1] /\ curConfigID' = ids[2]
             /\ selectedFrom' = ids[1] /\ updating' = TRUE /\ UNCHANGED phase
    <3>1. Selects
      BY <1>1, <2>3, NewIdsSelect
    <3> QED BY <1>1, <2>3, <3>1, SelectIInv
  <2> QED BY <2>1, <2>2, <2>3
<1>3. CASE strategy # "managed" /\ StartFromConfigID
  <2>1. CASE phase' = "exited" /\ UNCHANGED <<idVars, updating>>
    <3>1. updating' \in BOOLEAN /\ UNCHANGED idVars /\ phase' = "exited"
      BY <1>1, <2>1 DEF TypeOK
    <3> QED BY <1>1, <3>1, SelectIInv
  <2>2. CASE /\ \E c \in Configs : curConfigID' = c
             /\ updating' = TRUE /\ UNCHANGED <<phase, curRolloutID, selectedFrom>>
    BY <1>1, <1>3, <2>2, SelectIInv
  <2> QED BY <1>3, <2>1, <2>2 DEF StartFromConfigID
<1> QED BY <1>2, <1>3 DEF NewConfigManager

\* A tick selects another config, or clears the ids.
LEMMA CheckIInv ==
  ASSUME IInv, NEW ids \in LoadConfigFromRollouts \cup {NoIds}, CheckNewRollouts(ids)
  PROVE IInv' /\ snapshotFrom' >= snapshotFrom
<1>1. /\ phase = "running" /\ curRolloutID # ids[1]
      /\ curRolloutID' = ids[1] /\ curConfigID' = ids[2]
      /\ selectedFrom' = IF ids = NoIds THEN selectedFrom ELSE ids[1]
      /\ updating' = TRUE
      /\ UNCHANGED <<strategy, phase, rollouts, snapshot, snapshotFrom, fetchFailures>>
      /\ NoId \notin 1..Len(rollouts)
  BY NoIdNoRollout DEF IInv, CheckNewRollouts, MustUpdate
<1>2. Selects
  BY <1>1, NewIdsSelect
<1> QED BY <1>1, <1>2, SelectIInv

\* The config that is served now was selected after the one that was served before.
LEMMA UpdateSnapshotIInv ==
  ASSUME IInv, UpdateSnapshot PROVE IInv' /\ snapshotFrom' >= snapshotFrom
<1>1. /\ TypeOK /\ curConfigID \in Configs \ BadConfigs /\ curConfigID # NoId
      /\ snapshot' = curConfigID /\ snapshotFrom' = selectedFrom
      /\ updating' = FALSE /\ phase' = "running"
      /\ UNCHANGED <<strategy, rollouts, curRolloutID, curConfigID, selectedFrom, fetchFailures>>
  BY ConfigsAssumption DEF IInv, UpdateSnapshot, CanGenerate, idVars
<1>2. TypeOK'
  BY <1>1 DEF TypeOK
<1>3. AlwaysServing' /\ FreshStart'
  BY <1>1 DEF AlwaysServing, FreshStart
<1>4. SelectionSound'
  BY <1>1 DEF IInv, SelectionSound, MaxConfigs
<1>5. SnapshotHasMostTraffic'
  BY <1>1 DEF IInv, SelectionSound, MaxConfigs, SnapshotHasMostTraffic
<1>6. SnapshotBehind' /\ snapshotFrom' >= snapshotFrom
  BY <1>1 DEF IInv, TypeOK, SnapshotBehind
<1> QED BY <1>2, <1>3, <1>4, <1>5, <1>6 DEF IInv

\* A failed update leaves the snapshot alone, and stops a start.
LEMMA UpdateSnapshotFailsIInv ==
  ASSUME IInv, UpdateSnapshotFails PROVE IInv' /\ snapshotFrom' >= snapshotFrom
<1>1. /\ TypeOK /\ updating' = FALSE /\ phase' = PhaseAfterError
      /\ UNCHANGED <<strategy, rollouts, curRolloutID, curConfigID, selectedFrom, snapshot, snapshotFrom>>
  BY DEF IInv, UpdateSnapshotFails, idVars
<1>2. phase' \in {"running", "exited"} /\ (phase' = "running" => phase = "running")
  BY <1>1 DEF TypeOK, PhaseAfterError
<1>3. fetchFailures' \in 0..MaxFetchFailures
  BY <1>1, RolloutBoundsAssumption DEF TypeOK, UpdateSnapshotFails
<1>4. TypeOK'
  BY <1>1, <1>2, <1>3 DEF TypeOK
<1>5. AlwaysServing' /\ FreshStart' /\ SnapshotBehind'
  BY <1>1, <1>2 DEF IInv, AlwaysServing, FreshStart, SnapshotBehind
<1>6. SelectionSound' /\ SnapshotHasMostTraffic'
  BY <1>1 DEF IInv, SelectionSound, MaxConfigs, SnapshotHasMostTraffic
<1>7. snapshotFrom' >= snapshotFrom
  BY <1>1 DEF TypeOK
<1> QED BY <1>4, <1>5, <1>6, <1>7 DEF IInv

\* Every step keeps the invariant and moves the snapshot forward if at all.
LEMMA NextIInv == ASSUME IInv, [Next]_vars PROVE IInv' /\ snapshotFrom' >= snapshotFrom
<1>1. CASE CheckAnswered
  BY <1>1, CheckIInv DEF CheckAnswered
<1>2. CASE CheckFails
  BY <1>2, CheckIInv DEF CheckFails
<1>3. CASE UNCHANGED vars
  <2>1. TypeOK' /\ snapshotFrom' >= snapshotFrom
    BY <1>3 DEF IInv, TypeOK, vars, idVars
  <2>2. AlwaysServing' /\ FreshStart' /\ SnapshotBehind' /\ SelectionSound' /\ SnapshotHasMostTraffic'
    BY <1>3 DEF IInv, vars, idVars, AlwaysServing, FreshStart, SnapshotBehind, SelectionSound,
                MaxConfigs, SnapshotHasMostTraffic
  <2> QED BY <2>1, <2>2 DEF IInv
<1> QED BY <1>1, <1>2, <1>3, PublishIInv, NewConfigManagerIInv, UpdateSnapshotIInv,
           UpdateSnapshotFailsIInv DEF Next, Rest

\* The inductive invariant of every behaviour.
LEMMA IInvAlways == Spec => []IInv
<1>1. IInv /\ [Next]_vars => IInv'
  BY NextIInv
<1> QED BY <1>1, InitIInv, PTL DEF Spec

\* The variables of the config manager keep their types: a current rollout id is
\* always that of a published rollout.
THEOREM TypeCorrect == Spec => []TypeOK
<1>1. IInv => TypeOK
  BY DEF IInv
<1> QED BY <1>1, IInvAlways, PTL

\* AlwaysServing for any configs and failures: a config manager that runs has a
\* snapshot, and no failed update takes it away.
THEOREM ServingAlways == Spec => []AlwaysServing
<1>1. IInv => AlwaysServing
  BY DEF IInv
<1> QED BY <1>1, IInvAlways, PTL

\* SnapshotHasMostTraffic for any number of rollouts and any percentages: what is
\* served has the largest traffic of the rollout it was selected from.
THEOREM MostTrafficAlways == Spec => []SnapshotHasMostTraffic
<1>1. IInv => SnapshotHasMostTraffic
  BY DEF IInv
<1> QED BY <1>1, IInvAlways, PTL

\* NeverBackwards for any interleaving of rollouts, checks and fetches: an update
\* never replaces the snapshot by one selected from an older rollout.
THEOREM ForwardOnly == Spec => NeverBackwards
<1>1. IInv /\ [Next]_vars => [snapshotFrom' >= snapshotFrom]_vars
  BY NextIInv
<1> QED BY <1>1, IInvAlways, PTL DEF Spec, NeverBackwards

=============================================================================
