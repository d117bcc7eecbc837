--------------------------- MODULE ConfigManager ---------------------------
(***************************************************************************)
(* The config manager of the control plane: it starts with the service     *)
(* config of a file, of a fixed id, or of the newest rollout of the        *)
(* service, and in the last case keeps looking for newer rollouts.         *)
(*                                                                         *)
(* One goroutine does all of it, but the Service Management server         *)
(* (external) goes on publishing rollouts between its two calls: listing   *)
(* the rollouts and fetching the config that was selected.  Each call can  *)
(* fail.                                                                   *)
(***************************************************************************)
EXTENDS Naturals, Sequences

CONSTANTS
  Configs,            \* service config ids
  BadConfigs,         \* configs from which no Envoy configuration can be generated
  NoId,               \* "", no rollout or config id
  MaxRollouts,        \* bound on the rollouts published
  MaxFetchFailures    \* bound on the config fetches that fail

ASSUME ConfigsAssumption == BadConfigs \subseteq Configs /\ NoId \notin Configs
ASSUME RolloutBoundsAssumption == MaxRollouts \in Nat /\ MaxFetchFailures \in Nat
ASSUME NoIdIsNoNumber == NoId \notin 1..MaxRollouts

VARIABLES
  strategy,       \* "managed", "fixed" or "file"
  phase,          \* "starting", "running", "exited"
  rollouts,       \* published rollouts, the newest last: traffic of each config
  curRolloutID,   \* m.curRolloutID, a rollout's position in rollouts
  curConfigID,    \* m.curConfigID
  updating,       \* inside updateSnapshot: the config is being fetched
  snapshot,       \* the config in the snapshot cache
  snapshotFrom,   \* the rollouts published when that config was selected
  selectedFrom,   \* the same for curConfigID
  fetchFailures   \* config fetches that failed so far

idVars == <<curRolloutID, curConfigID, selectedFrom>>
vars == <<strategy, phase, rollouts, idVars, updating, snapshot, snapshotFrom, fetchFailures>>

\* Percentages of a rollout, in thirds of the traffic: they add up to all of
\* it, or the rollout has no traffic percent strategy.
One(c) == [x \in Configs |-> IF x = c THEN 1 ELSE 0]
Percentages ==
  {[x \in Configs |-> 0]} \cup
  {[x \in Configs |-> One(c)[x] + One(d)[x] + One(e)[x]] : c, d, e \in Configs}

TypeOK ==
  /\ strategy \in {"managed", "fixed", "file"}
  /\ phase \in {"starting", "running", "exited"}
  /\ rollouts \in Seq(Percentages) /\ Len(rollouts) <= MaxRollouts
  /\ curRolloutID \in 1..Len(rollouts) \cup {NoId}
  /\ curConfigID \in Configs \cup {NoId}
  /\ updating \in BOOLEAN
  /\ snapshot \in (Configs \ BadConfigs) \cup {NoId}
  /\ snapshotFrom \in 0..Len(rollouts) /\ selectedFrom \in 0..Len(rollouts)
  /\ fetchFailures \in 0..MaxFetchFailures

Init ==
  /\ strategy \in {"managed", "fixed", "file"}
  /\ phase = "starting"
  /\ rollouts = <<>>
  /\ curRolloutID = NoId /\ curConfigID = NoId
  /\ updating = FALSE
  /\ snapshot = NoId
  /\ snapshotFrom = 0 /\ selectedFrom = 0
  /\ fetchFailures = 0

\* The producer of the service deploys a new rollout.
Publish ==
  /\ Len(rollouts) < MaxRollouts
  /\ \E p \in Percentages : rollouts' = Append(rollouts, p)
  /\ UNCHANGED <<strategy, phase, idVars, updating, snapshot, snapshotFrom, fetchFailures>>

\* Mutant of MaxConfigs: any config with traffic.
PositiveConfigs(p) == {c \in Configs : p[c] > 0}

\* The config ids that the loop over the percentages can end with: the order
\* in which Go visits a map decides between equals.
MaxConfigs(p) == {c \in Configs : p[c] > 0 /\ \A d \in Configs : p[d] <= p[c]}

\* Mutant of NewestRollout: the order of the answer is not minded.
AnyRollout == 1..Len(rollouts)

\* Rollouts[0] of the answer is the newest.
NewestRollout == {n \in 1..Len(rollouts) : n = Len(rollouts)}

NoIds == <<NoId, NoId>>

\* What loadConfigFromRollouts can return when the server answers. An error is
\* returned with two empty ids.
LoadConfigFromRollouts ==
  IF rollouts = <<>> THEN {NoIds}
  ELSE UNION {IF n = curRolloutID THEN {<<curRolloutID, curConfigID>>}
              ELSE IF MaxConfigs(rollouts[n]) = {} THEN {NoIds}
              ELSE {<<n, c>> : c \in MaxConfigs(rollouts[n])}
              : n \in NewestRollout}

\* The managed start stops at an error. Otherwise it always finds new ids: the
\* current ones are still empty.
StartFromRollouts ==
  \E ids \in LoadConfigFromRollouts \cup {NoIds} :
    \/ /\ ids = NoIds
       /\ phase' = "exited"
       /\ UNCHANGED <<idVars, updating>>
    \/ /\ ids # NoIds
       /\ curRolloutID' = ids[1] /\ curConfigID' = ids[2]
       /\ selectedFrom' = ids[1]
       /\ updating' = TRUE
       /\ UNCHANGED phase

\* A flag, the metadata server or the file names the config; or it is missing.
StartFromConfigID ==
  \/ /\ phase' = "exited"
     /\ UNCHANGED <<idVars, updating>>
  \/ /\ \E c \in Configs : curConfigID' = c
     /\ updating' = TRUE
     /\ UNCHANGED <<phase, curRolloutID, selectedFrom>>

\* NewConfigManager, up to updateSnapshot.
NewConfigManager ==
  /\ phase = "starting" /\ ~updating
  /\ \/ strategy = "managed" /\ StartFromRollouts
     \/ strategy # "managed" /\ StartFromConfigID
  /\ UNCHANGED <<strategy, rollouts, snapshot, snapshotFrom, fetchFailures>>

\* Mutant of MustUpdate: only the first rollout is taken.
MustUpdateOnce(ids) == curConfigID = NoId

MustUpdate(ids) == curRolloutID # ids[1] /\ curConfigID # ids[2]

\* A tick of the rollout loop that got `ids`, up to updateSnapshot.
CheckNewRollouts(ids) ==
  /\ phase = "running" /\ strategy = "managed" /\ ~updating
  /\ MustUpdate(ids)
  /\ curRolloutID' = ids[1] /\ curConfigID' = ids[2]
  /\ selectedFrom' = IF ids = NoIds THEN selectedFrom ELSE ids[1]
  /\ updating' = TRUE
  /\ UNCHANGED <<strategy, phase, rollouts, snapshot, snapshotFrom, fetchFailures>>

CheckAnswered == \E ids \in LoadConfigFromRollouts : CheckNewRollouts(ids)

\* The rollouts or the access token for them cannot be fetched: the error is
\* logged and the two empty ids are compared like any others.
CheckFails == CheckNewRollouts(NoIds)

\* Mutant of PhaseAfterError: the error of the start is only logged.
StartIgnoresError == "running"

\* updateSnapshot returned an error: the start gives up, the loop goes on.
PhaseAfterError == IF phase = "starting" THEN "exited" ELSE phase

\* Mutant of CanGenerate: the errors of the generators are dropped.
CanGenerateAny(c) == c \in Configs

\* applyServiceConfig: the clusters and listeners can be generated.
CanGenerate(c) == c \in Configs \ BadConfigs

\* fetchConfig and applyServiceConfig succeed.
UpdateSnapshot ==
  /\ updating
  /\ CanGenerate(curConfigID)
  /\ snapshot' = curConfigID
  /\ snapshotFrom' = selectedFrom
  /\ updating' = FALSE
  /\ phase' = "running"
  /\ UNCHANGED <<strategy, rollouts, idVars, fetchFailures>>

\* The config cannot be fetched (there is none with an empty id), or nothing
\* can be generated from it: the cache keeps its snapshot.
UpdateSnapshotFails ==
  /\ updating
  /\ \/ /\ ~CanGenerate(curConfigID)
        /\ UNCHANGED fetchFailures
     \/ /\ CanGenerate(curConfigID)
        /\ fetchFailures < MaxFetchFailures
        /\ fetchFailures' = fetchFailures + 1
  /\ updating' = FALSE
  /\ phase' = PhaseAfterError
  /\ UNCHANGED <<strategy, rollouts, idVars, snapshot, snapshotFrom>>

\* No deadlock: the process has exited, or nothing new is published.
Rest ==
  /\ ~updating /\ phase # "starting" /\ Len(rollouts) = MaxRollouts
  /\ UNCHANGED vars

Next ==
  \/ Publish
  \/ NewConfigManager
  \/ CheckAnswered
  \/ CheckFails
  \/ UpdateSnapshot
  \/ UpdateSnapshotFails
  \/ Rest

\* The ticker keeps ticking and every call of the HTTP client ends (it has a
\* timeout); the server, asked again and again, sometimes answers.
Fairness ==
  /\ SF_vars(CheckAnswered)
  /\ WF_vars(UpdateSnapshot \/ UpdateSnapshotFails)

Spec == Init /\ [][Next]_vars /\ Fairness

-----------------------------------------------------------------------------
(* Properties *)

\* A running config manager always has a snapshot to serve: no failed update
\* takes the old one away, and the start does not go on without one.
AlwaysServing == phase = "running" => snapshot # NoId

\* A managed snapshot is a config with the largest traffic of some rollout, the
\* one that was the newest when it was selected ("retrieves the version id with
\* maximum traffic percentage in it").
SnapshotHasMostTraffic ==
  strategy = "managed" /\ snapshot # NoId =>
    /\ snapshotFrom > 0
    /\ \A c \in Configs : rollouts[snapshotFrom][c] <= rollouts[snapshotFrom][snapshot]

\* The snapshot never goes back to an older rollout, whatever fails and is
\* published between listing the rollouts and fetching the config.
NeverBackwards == [][snapshotFrom' >= snapshotFrom]_vars

\* The newest rollout, if it has good configs only, is the one served.
NewestServed ==
  phase = "running" /\ strategy = "managed" =>
    LET newest == rollouts[Len(rollouts)] IN
      (\E c \in Configs : newest[c] > 0) /\ (\A c \in BadConfigs : newest[c] = 0) =>
        \A c \in Configs : newest[c] <= newest[snapshot]

\* Once no more rollouts are published, the newest is served in the end: the
\* config manager "will fetches the new deployed service config and updates
\* envoy configurations, automatically and silently".
ConvergesDespiteFailures == <>[]NewestServed

\* The same as long as every config that was selected could be fetched.
Converges == ConvergesDespiteFailures \/ <>(fetchFailures > 0)

=============================================================================
