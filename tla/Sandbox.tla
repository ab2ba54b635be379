------------------------------ MODULE Sandbox ------------------------------
(***************************************************************************)
(* execution/docker.js, journal.js and released-code.js: an execution is    *)
(* journalled, run as a container by a command line client, removed, and    *)
(* given a verdict; one whose host stopped is reconciled by inspection.     *)
(*                                                                         *)
(* Docker is external: the daemon makes and starts the container for its    *)
(* client, which can be killed at any moment while the daemon goes on with  *)
(* a request it has; "rm -f" that exits with 0 has removed the container.   *)
(* Each client command and each journal statement is one step.  Resource    *)
(* limits, output and the receipt's contents are left out.                  *)
(*                                                                         *)
(* Operators ending in Mut are altered forms of the definition below them. *)
(* No action uses them; they show that a property can fail.                *)
(***************************************************************************)
EXTENDS Naturals

CONSTANTS
  Execution,            \* executions, by the name of their container
  Inspector,            \* processes that reconcile
  MaxSandboxMishaps     \* bound: stops of a host, commands that fail

ASSUME SandboxAssumption == MaxSandboxMishaps \in Nat

VARIABLES
  journal,     \* iaic_execution_journal: status of each receipt
  container,   \* what the daemon has of each container
  client,      \* position of RecoverableDockerSandbox.execute
  resources,   \* executions whose materialized directory exists
  inspector,   \* position of each reconciliation
  sandboxMishaps

sandboxVars == <<journal, container, client, resources, inspector, sandboxMishaps>>

Verdicts == {"succeeded", "failed", "cancelled"}
Uninvolved == [step |-> "idle"]

SandboxTypeOK ==
  /\ journal \in [Execution -> {"absent", "started", "unknown"} \cup Verdicts]
  /\ container \in [Execution -> {"none", "requested", "refused", "created", "running", "exited", "removed"}]
  /\ client \in [Execution -> [step : {"new", "materialized", "run", "cleanup", "finish", "over"},
                               reason : {"none", "killed"}, code : {"zero", "other"}, removed : {"no", "yes"}]]
  /\ resources \subseteq Execution
  /\ inspector \in [Inspector -> {Uninvolved} \cup
       [step : {"inspect", "kill", "logs", "remove", "finish"}, execution : Execution,
        status : {"unknown"} \cup Verdicts]]
  /\ sandboxMishaps \in Nat

SandboxInit ==
  /\ journal = [e \in Execution |-> "absent"]
  /\ container = [e \in Execution |-> "none"]
  /\ client = [e \in Execution |-> [step |-> "new", reason |-> "none", code |-> "other", removed |-> "no"]]
  /\ resources = {}
  /\ inspector = [i \in Inspector |-> Uninvolved]
  /\ sandboxMishaps = 0
-----------------------------------------------------------------------------
SandboxMishap == sandboxMishaps < MaxSandboxMishaps /\ sandboxMishaps' = sandboxMishaps + 1

(* The daemon *)

\* What the client asked for may happen after the client was killed.
DaemonActs(e) ==
  /\ \/ /\ container[e] = "requested"
        /\ \E state \in {"created", "refused"} : container' = [container EXCEPT ![e] = state]
     \/ /\ container[e] = "created" /\ client[e].reason = "none"
        /\ container' = [container EXCEPT ![e] = "running"]
     \/ container[e] = "running" /\ container' = [container EXCEPT ![e] = "exited"]
  /\ UNCHANGED <<journal, client, resources, inspector, sandboxMishaps>>

Exists(e) == container[e] \in {"created", "running", "exited"}

(* ReleasedCode.run and DockerSandbox.execute *)

Materialize(e) ==
  /\ client[e].step = "new"
  /\ client' = [client EXCEPT ![e].step = "materialized"]
  /\ resources' = resources \cup {e}
  /\ UNCHANGED <<journal, container, inspector, sandboxMishaps>>

\* A second start under one name is refused.
JournalStarted(e) == [journal EXCEPT ![e] = "started"]

\* The start is on record before the client is spawned; an aborted signal ends it before that.
StartRun(e) ==
  /\ client[e].step = "materialized"
  /\ \/ /\ journal' = JournalStarted(e)
        /\ container' = [container EXCEPT ![e] = "requested"]
        /\ client' = [client EXCEPT ![e].step = "run"]
        /\ UNCHANGED resources
     \/ /\ client' = [client EXCEPT ![e].step = "over"]
        /\ resources' = resources \ {e}
        /\ UNCHANGED <<journal, container>>
  /\ UNCHANGED <<inspector, sandboxMishaps>>

\* The client closes by itself once its container has ended, whoever ended it,
\* or was refused.
ClientCloses(e) ==
  /\ client[e].step = "run" /\ container[e] \in {"exited", "removed", "refused"}
  /\ \E code \in {"zero", "other"} :
       /\ code = "zero" => container[e] = "exited"
       /\ client' = [client EXCEPT ![e] = [@ EXCEPT !.step = "cleanup", !.code = code]]
  /\ UNCHANGED <<journal, container, resources, inspector, sandboxMishaps>>

\* Cancelled, timed out or too much output.
ClientKilled(e) ==
  /\ client[e].step = "run"
  /\ client' = [client EXCEPT ![e] = [@ EXCEPT !.step = "cleanup", !.reason = "killed"]]
  /\ UNCHANGED <<journal, container, resources, inspector, sandboxMishaps>>

GoneMut(e) == TRUE

\* "No such container" proves it only to a client that ended by itself.
Gone(e) == client[e].reason = "none"

\* docker rm -f; it may fail or time out.
Cleanup(e) ==
  /\ client[e].step = "cleanup"
  /\ \/ /\ container' = [container EXCEPT ![e] = IF Exists(e) THEN "removed" ELSE @]
        /\ client' = [client EXCEPT ![e] =
             [@ EXCEPT !.step = "finish", !.removed = IF Exists(e) \/ Gone(e) THEN "yes" ELSE "no"]]
        /\ UNCHANGED sandboxMishaps
     \/ /\ client' = [client EXCEPT ![e].step = "finish"]
        /\ UNCHANGED container /\ SandboxMishap
  /\ UNCHANGED <<journal, resources, inspector>>

\* finish keeps the first terminal verdict.
Finished(e, status) == IF journal[e] \in {"started", "unknown"} THEN [journal EXCEPT ![e] = status] ELSE journal

RunStatus(e) ==
  IF client[e].removed = "no" THEN "unknown"
  ELSE IF client[e].reason = "killed" THEN "cancelled"
  ELSE IF client[e].code = "zero" THEN "succeeded" ELSE "failed"

FinishRun(e) ==
  /\ client[e].step = "finish"
  /\ journal' = Finished(e, RunStatus(e))
  /\ resources' = IF journal'[e] \in Verdicts THEN resources \ {e} ELSE resources
  /\ client' = [client EXCEPT ![e].step = "over"]
  /\ UNCHANGED <<container, inspector, sandboxMishaps>>

\* The host stops; the daemon does not.
HostStops(e) ==
  /\ client[e].step \notin {"new", "over"} /\ SandboxMishap
  /\ client' = [client EXCEPT ![e].step = "over"]
  /\ UNCHANGED <<journal, container, resources, inspector>>

(* RecoverableDockerSandbox.reconcile *)

Inspects(i, step, e, status) ==
  inspector' = [inspector EXCEPT ![i] = [step |-> step, execution |-> e, status |-> status]]

\* get, for an execution that has no terminal verdict.
StartReconcile(i, e) ==
  /\ inspector[i] = Uninvolved /\ journal[e] \in {"started", "unknown"}
  /\ Inspects(i, "inspect", e, "unknown")
  /\ UNCHANGED <<journal, container, client, resources, sandboxMishaps>>

\* docker inspect: a container that runs is left, or stopped when it expired or
\* the caller asks for that; none, or one that never started, proves nothing.
Inspect(i) ==
  /\ inspector[i].step = "inspect"
  /\ LET e == inspector[i].execution IN
       IF container[e] = "exited"
       THEN \E status \in {"succeeded", "failed"} : Inspects(i, "logs", e, status)
       ELSE IF container[e] = "running"
       THEN Inspects(i, "kill", e, "cancelled") \/ inspector' = [inspector EXCEPT ![i] = Uninvolved]
       ELSE Inspects(i, "finish", e, "unknown")
  /\ UNCHANGED <<journal, container, client, resources, sandboxMishaps>>

Kill(i) ==
  /\ inspector[i].step = "kill"
  /\ LET e == inspector[i].execution IN
       IF container[e] = "running"
       THEN container' = [container EXCEPT ![e] = "exited"] /\ Inspects(i, "logs", e, "cancelled")
       ELSE UNCHANGED container /\ Inspects(i, "finish", e, "unknown")
  /\ UNCHANGED <<journal, client, resources, sandboxMishaps>>

\* docker logs; without them there is no verdict.
ReadLogs(i) ==
  /\ inspector[i].step = "logs"
  /\ LET e == inspector[i].execution
         read == Exists(e)
     IN  Inspects(i, "remove", e, IF read THEN inspector[i].status ELSE "unknown")
  /\ UNCHANGED <<journal, container, client, resources, sandboxMishaps>>

\* docker rm -f of the container that was inspected; it may fail.
Remove(i) ==
  /\ inspector[i].step = "remove"
  /\ LET e == inspector[i].execution IN
       \/ /\ container' = [container EXCEPT ![e] = IF Exists(e) THEN "removed" ELSE @]
          /\ Inspects(i, "finish", e, IF Exists(e) THEN inspector[i].status ELSE "unknown")
          /\ UNCHANGED sandboxMishaps
       \/ UNCHANGED container /\ Inspects(i, "finish", e, "unknown") /\ SandboxMishap
  /\ UNCHANGED <<journal, client, resources>>

FinishReconcile(i) ==
  /\ inspector[i].step = "finish"
  /\ journal' = Finished(inspector[i].execution, inspector[i].status)
  /\ inspector' = [inspector EXCEPT ![i] = Uninvolved]
  /\ UNCHANGED <<container, client, resources, sandboxMishaps>>

SandboxNext ==
  \/ \E e \in Execution : \/ DaemonActs(e) \/ Materialize(e) \/ StartRun(e) \/ ClientCloses(e) \/ ClientKilled(e)
                          \/ Cleanup(e) \/ FinishRun(e) \/ HostStops(e)
                          \/ \E i \in Inspector : StartReconcile(i, e)
  \/ \E i \in Inspector : Inspect(i) \/ Kill(i) \/ ReadLogs(i) \/ Remove(i) \/ FinishReconcile(i)

SandboxSpec == SandboxInit /\ [][SandboxNext]_sandboxVars
-----------------------------------------------------------------------------
(* Property *)

\* A verdict is given only to an execution whose container is gone for good: it
\* neither exists nor can the daemon still make it, although the client was
\* killed, the host stopped, and several processes reconcile; and the files
\* that a container may read are kept until then (execution/docker.js:24-65,
\* journal.js:22-27, released-code.js:5-12).
VerdictMeansGone ==
  \A e \in Execution :
    /\ journal[e] \in Verdicts => container[e] \in {"removed", "refused"}
    /\ container[e] \in {"requested", "created", "running"} => e \in resources
=============================================================================
