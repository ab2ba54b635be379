------------------------------ MODULE Releases ------------------------------
(***************************************************************************)
(* releases/store.js and service.js, observation/service.js, monitor.js,    *)
(* cycles.js and cycles-store.js: a channel selects a stable release and a  *)
(* canary; operators set channels, stop releases and roll back; persistent  *)
(* monitor cycles assess the selected release and may roll it back, and are *)
(* recovered from the receipt of the rollback when a host stopped midway.   *)
(*                                                                         *)
(* One channel.  The assessment of a cycle is known by the cycle; what      *)
(* collection finds is any verdict.  Registration, evaluation gates, sample *)
(* arithmetic, authorization and digests are left out: what they refuse is  *)
(* a run that raises.  Store transactions and queries are one step each.    *)
(*                                                                         *)
(* Operators ending in Mut are altered forms of the definition below them. *)
(* No action uses them; they show that a property can fail.                *)
(***************************************************************************)
EXTENDS Naturals, FiniteSets

CONSTANTS
  Release, Initial, Fallback,  \* releases; first stable one; fallback of the policy
  NoRelease,
  Cycle,                       \* request keys of monitor cycles
  Monitor,                     \* processes that run or recover cycles
  MaxRevision,                 \* bound: changes of the channel
  MaxMonitorMishaps            \* bound: stops of a monitor

ASSUME ReleasesAssumption ==
  /\ {Initial, Fallback} \subseteq Release /\ NoRelease \notin Release
  /\ MaxRevision \in Nat \ {0} /\ MaxMonitorMishaps \in Nat

VARIABLES
  channel,     \* iaic_release_channels
  disabled,    \* releases that are stopped
  rollbacks,   \* receipts: rollback events with evidence of an assessment
  cycles,      \* iaic_monitor_cycles
  monitor,     \* position of each process
  resolution,  \* one call of ReleaseManager.resolve, and what was stopped before it
  monitorMishaps

releaseVars == <<channel, disabled, rollbacks, cycles, monitor, resolution, monitorMishaps>>

Idle == [step |-> "idle"]
Revision == 1..MaxRevision

ReleaseTypeOK ==
  /\ channel \in [revision : Revision, stable : Release, canary : Release \cup {NoRelease}]
  /\ disabled \subseteq Release
  /\ rollbacks \subseteq [cycle : Cycle, revision : Revision, stopped : Release]
  /\ cycles \in [Cycle -> [state : {"absent", "started", "prepared", "completed"},
                           revision : Revision, release : Release, shouldStop : BOOLEAN,
                           willProtect : BOOLEAN, protected : BOOLEAN]]
  /\ monitor \in [Monitor -> {Idle} \cup
       [step : {"collect", "prepare", "protect", "receipt", "complete"}, cycle : Cycle, protected : BOOLEAN]]
  /\ resolution \in {Idle} \cup [step : {"select", "get", "resolved"}, stable : Release,
                                  canary : Release \cup {NoRelease}, stopped : SUBSET Release]
  /\ monitorMishaps \in Nat

ReleaseInit ==
  /\ \E canary \in (Release \cup {NoRelease}) \ {Initial} :
       channel = [revision |-> 1, stable |-> Initial, canary |-> canary]
  /\ disabled = {} /\ rollbacks = {} /\ monitorMishaps = 0
  /\ cycles = [c \in Cycle |-> [state |-> "absent", revision |-> 1, release |-> Initial,
                                shouldStop |-> FALSE, willProtect |-> FALSE, protected |-> FALSE]]
  /\ monitor = [m \in Monitor |-> Idle] /\ resolution = Idle
-----------------------------------------------------------------------------
(* PostgresReleaseStore, one transaction each *)

SelectableMut(r) == TRUE

Selectable(r) == r \notin disabled

Selected == {channel.stable, channel.canary}

SetChannel(stable, canary) ==
  /\ channel.revision < MaxRevision /\ canary # stable
  /\ Selectable(stable) /\ (canary # NoRelease => Selectable(canary))
  /\ channel' = [revision |-> channel.revision + 1, stable |-> stable, canary |-> canary]
  /\ UNCHANGED <<disabled, rollbacks, cycles, monitor, resolution, monitorMishaps>>

Stop(r) ==
  /\ disabled' = disabled \cup {r}
  /\ UNCHANGED <<channel, rollbacks, cycles, monitor, resolution, monitorMishaps>>

RollsBack(r, revision) ==
  /\ channel.revision = revision /\ revision < MaxRevision
  /\ r \in Selected /\ r # Fallback /\ Selectable(Fallback)

RollBack(c) ==
  /\ channel' = [revision |-> channel.revision + 1, stable |-> Fallback, canary |-> NoRelease]
  /\ disabled' = disabled \cup {cycles[c].release}
  /\ rollbacks' = rollbacks \cup {[cycle |-> c, revision |-> cycles[c].revision, stopped |-> cycles[c].release]}

Goes(m, step, c, protected) ==
  monitor' = [monitor EXCEPT ![m] = [step |-> step, cycle |-> c, protected |-> protected]]

Leaves(m) == monitor' = [monitor EXCEPT ![m] = Idle]

(* PersistentReleaseMonitor.run *)

\* begin, by the host that inserts the key; resolveTarget names the release.
BeginCycle(m, c) ==
  /\ monitor[m] = Idle /\ cycles[c].state = "absent"
  /\ cycles' = [cycles EXCEPT ![c].state = "started"]
  /\ Goes(m, "collect", c, FALSE)
  /\ UNCHANGED <<channel, disabled, rollbacks, resolution, monitorMishaps>>

\* resolveTarget, collect with its assessment, prepare; whether a bad one is to
\* protect is configured.  That the channel may change after its revision was
\* read shows between this step and protect.
CollectAndPrepare(m) ==
  /\ monitor[m].step = "collect"
  /\ LET c == monitor[m].cycle IN
       \E r \in Selected \ ({NoRelease} \cup disabled), shouldStop \in BOOLEAN, autoProtect \in BOOLEAN :
         /\ cycles' = [cycles EXCEPT ![c] = [@ EXCEPT !.state = "prepared", !.revision = channel.revision,
                         !.release = r, !.shouldStop = shouldStop, !.willProtect = autoProtect /\ shouldStop]]
         /\ Goes(m, IF autoProtect /\ shouldStop THEN "protect" ELSE "complete", c, FALSE)
  /\ UNCHANGED <<channel, disabled, rollbacks, resolution, monitorMishaps>>

\* protect, while the assessment is fresh and the channel as it was.
Protect(m) ==
  /\ monitor[m].step = "protect"
  /\ LET c == monitor[m].cycle IN
       /\ RollsBack(cycles[c].release, cycles[c].revision)
       /\ RollBack(c) /\ Goes(m, "complete", c, TRUE)
  /\ UNCHANGED <<cycles, resolution, monitorMishaps>>

\* protect by an operator who names the assessment.
ProtectByHand(c) ==
  /\ cycles[c].state \in {"prepared", "completed"} /\ cycles[c].shouldStop
  /\ RollsBack(cycles[c].release, cycles[c].revision)
  /\ RollBack(c)
  /\ UNCHANGED <<cycles, monitor, resolution, monitorMishaps>>

\* Stale, denied, refused by the store, or no target: the run raises.
RunRaises(m) ==
  /\ monitor[m].step \in {"collect", "protect"}
  /\ Leaves(m)
  /\ UNCHANGED <<channel, disabled, rollbacks, cycles, resolution, monitorMishaps>>

CompletesCycle(m) ==
  /\ monitor[m].step = "complete"
  /\ LET c == monitor[m].cycle
     IN  cycles' = IF cycles[c].state = "prepared"
                   THEN [cycles EXCEPT ![c] = [@ EXCEPT !.state = "completed", !.protected = monitor[m].protected]]
                   ELSE cycles
  /\ Leaves(m)
  /\ UNCHANGED <<channel, disabled, rollbacks, resolution, monitorMishaps>>

(* PersistentReleaseMonitor.recover, also for a run whose key was taken *)

RecoverCycle(m, c) ==
  /\ monitor[m] = Idle /\ cycles[c].state = "prepared"
  /\ Goes(m, IF cycles[c].willProtect THEN "receipt" ELSE "complete", c, FALSE)
  /\ UNCHANGED <<channel, disabled, rollbacks, cycles, resolution, monitorMishaps>>

ConfirmedMut(c) == TRUE

\* protectionResult: rollbackReceipt of the assessment and the revision.
Confirmed(c) == [cycle |-> c, revision |-> cycles[c].revision, stopped |-> cycles[c].release] \in rollbacks

ReadReceipt(m) ==
  /\ monitor[m].step = "receipt"
  /\ IF Confirmed(monitor[m].cycle) THEN Goes(m, "complete", monitor[m].cycle, TRUE) ELSE Leaves(m)
  /\ UNCHANGED <<channel, disabled, rollbacks, cycles, resolution, monitorMishaps>>

(* ReleaseManager.resolve: the channel, then the canary, then the one selected *)

Resolution(step, stable, canary) ==
  resolution' = [step |-> step, stable |-> stable, canary |-> canary,
                 stopped |-> IF step = "select" THEN disabled ELSE resolution.stopped]

ReadChannel ==
  /\ resolution.step \in {"idle", "resolved"}
  /\ Resolution("select", channel.stable, channel.canary)
  /\ UNCHANGED <<channel, disabled, rollbacks, cycles, monitor, monitorMishaps>>

\* The cohort may select the canary; a stopped one yields to the stable one.
SelectRelease ==
  /\ resolution.step = "select"
  /\ \E id \in {resolution.stable} \cup ({resolution.canary} \ ({NoRelease} \cup disabled)) :
       Resolution("get", id, NoRelease)
  /\ UNCHANGED <<channel, disabled, rollbacks, cycles, monitor, monitorMishaps>>

GetRelease ==
  /\ resolution.step = "get"
  /\ IF resolution.stable \in disabled THEN resolution' = Idle
     ELSE Resolution("resolved", resolution.stable, NoRelease)
  /\ UNCHANGED <<channel, disabled, rollbacks, cycles, monitor, monitorMishaps>>

MonitorDies(m) ==
  /\ monitor[m] # Idle /\ monitorMishaps < MaxMonitorMishaps
  /\ monitorMishaps' = monitorMishaps + 1
  /\ Leaves(m)
  /\ UNCHANGED <<channel, disabled, rollbacks, cycles, resolution>>

ReleaseNext ==
  \/ \E r \in Release : Stop(r) \/ \E canary \in Release \cup {NoRelease} : SetChannel(r, canary)
  \/ \E c \in Cycle : ProtectByHand(c) \/ \E m \in Monitor : BeginCycle(m, c) \/ RecoverCycle(m, c)
  \/ \E m \in Monitor : \/ CollectAndPrepare(m) \/ Protect(m) \/ RunRaises(m) \/ CompletesCycle(m)
                        \/ ReadReceipt(m) \/ MonitorDies(m)
  \/ ReadChannel \/ SelectRelease \/ GetRelease

ReleaseSpec == ReleaseInit /\ [][ReleaseNext]_releaseVars
-----------------------------------------------------------------------------
(* Property *)

\* A cycle that was to protect is completed only when its release was rolled
\* back, whoever did it and whoever completes it, and a cycle rolls back at
\* most once; a release that was rolled back is stopped, is never selected
\* again, and a resolution that began after it was stopped does not return it
\* (observation/cycles.js:10-36, releases/store.js:19-47, service.js:33-41).
ProtectionHolds ==
  /\ \A c \in Cycle :
       /\ cycles[c].state = "completed" /\ (cycles[c].willProtect \/ cycles[c].protected)
            => \E b \in rollbacks : b.cycle = c /\ b.stopped = cycles[c].release
       /\ Cardinality({b \in rollbacks : b.cycle = c}) <= 1
  /\ \A b \in rollbacks : b.stopped \in disabled /\ b.stopped \notin Selected
  /\ resolution.step = "resolved" => resolution.stable \notin resolution.stopped
=============================================================================
