---------------------------- MODULE Deployments ----------------------------
(***************************************************************************)
(* The Docker deployment of one request key, by processes that may stop     *)
(* between two commands: the container its name stands for, and, where the  *)
(* host composes it so, the durable activation that admits one start.       *)
(* Names and activations are per key, so keys share nothing.                *)
(***************************************************************************)
EXTENDS Naturals

CONSTANTS
  Deployer,
  Build,           \* configurations: image, command and environment
  NoContainer,
  MaxContainer,    \* bound: containers created
  MaxDeployments,  \* bound: calls begun
  MaxDeployMishaps \* bound: calls that break off, containers removed by hand

\* No container is none of those there may be, and no activation none of theirs.
ASSUME DeploymentsAssumption ==
  /\ MaxContainer \in Nat
  /\ NoContainer \notin [id : Nat, build : Build] \cup [id : Nat, build : Build, state : {"created", "running", "exited"}]

VARIABLES
  adapter,      \* how the host starts: "plain" or "recoverable"
  container,    \* what the name stands for
  lastContainer,
  activation,   \* the row that admitted a start
  deployers,    \* the calls under way
  startsSent,   \* how often a start of each container was sent
  deploysBegun, deployMishaps

deploymentVars == <<adapter, container, lastContainer, activation, deployers, startsSent,
                    deploysBegun, deployMishaps>>

ContainerId == 1..MaxContainer
NoDeploy == [step |-> "idle"]

DeploymentsInit ==
  /\ adapter \in {"plain", "recoverable"}
  /\ container = NoContainer /\ lastContainer = 0 /\ activation = NoContainer
  /\ deployers = [p \in Deployer |-> NoDeploy] /\ startsSent = [i \in ContainerId |-> 0]
  /\ deploysBegun = 0 /\ deployMishaps = 0

DeployMishap == deployMishaps < MaxDeployMishaps /\ deployMishaps' = deployMishaps + 1

DeployBecomes(p, call) == deployers' = [deployers EXCEPT ![p] = call]
DeployGoes(p, step) == DeployBecomes(p, [deployers[p] EXCEPT !.step = step])
DeployEnds(p) == DeployBecomes(p, NoDeploy)

\* Only what Docker holds may move; only the call itself.
DockerOnly == UNCHANGED <<adapter, activation, deploysBegun, deployMishaps>>
CallOnly == UNCHANGED <<adapter, container, lastContainer, activation, startsSent, deploysBegun, deployMishaps>>

\* raw: the container of the name, if its label and image are those of this configuration.
Bound(p) == container = NoContainer \/ container.build = deployers[p].build
-----------------------------------------------------------------------------
BeginDeploy(p, build) ==
  /\ deployers[p] = NoDeploy /\ deploysBegun < MaxDeployments /\ deploysBegun' = deploysBegun + 1
  /\ \E why \in IF adapter = "plain" THEN {"start"} ELSE {"deploy", "activate"} :
       DeployBecomes(p, [step |-> IF adapter = "plain" THEN "prior" ELSE "inspect", why |-> why,
                         build |-> build, receipt |-> NoContainer])
  /\ UNCHANGED <<adapter, container, lastContainer, activation, startsSent, deployMishaps>>

Inspect(p) ==
  /\ deployers[p].step = "inspect"
  /\ IF Bound(p) THEN DeployBecomes(p, [deployers[p] EXCEPT !.step = "activation", !.receipt = container])
     ELSE DeployEnds(p)
  /\ CallOnly

\* The activation is of this configuration, and of the container that was seen.
ActivationFits(call) ==
  activation # NoContainer =>
    /\ activation.build = call.build
    /\ call.receipt # NoContainer => call.receipt.id = activation.id

\* A consumed activation prevents recreating a container that is gone.
ReadActivation(p) ==
  LET call == deployers[p] IN
    /\ call.step = "activation"
    /\ IF ~ActivationFits(call) THEN DeployEnds(p)
       ELSE IF call.why = "deploy"
         THEN IF activation # NoContainer /\ call.receipt = NoContainer THEN DeployEnds(p) ELSE DeployGoes(p, "prior")
       ELSE IF call.receipt # NoContainer /\ call.receipt.state = "created" THEN DeployGoes(p, "claim")
       ELSE DeployEnds(p)
    /\ CallOnly

ToActivate(p) == DeployBecomes(p, [deployers[p] EXCEPT !.step = "inspect", !.why = "activate"])

\* A container that is there is not created again.
LookForPrior(p) ==
  /\ deployers[p].step = "prior"
  /\ IF ~Bound(p) \/ (container # NoContainer /\ adapter = "plain") THEN DeployEnds(p)
     ELSE IF container # NoContainer THEN ToActivate(p)
     ELSE DeployGoes(p, "create")
  /\ CallOnly

\* docker create: refused where the name is taken; its answer may be lost.
CreateContainer(p) ==
  /\ deployers[p].step = "create"
  /\ IF container # NoContainer \/ lastContainer = MaxContainer
       THEN DeployEnds(p) /\ UNCHANGED <<container, lastContainer>>
       ELSE /\ lastContainer' = lastContainer + 1
            /\ container' = [id |-> lastContainer + 1, build |-> deployers[p].build, state |-> "created"]
            /\ DeployGoes(p, "confirm") \/ DeployEnds(p)
  /\ UNCHANGED startsSent /\ DockerOnly

Created == container # NoContainer /\ container.state = "created"

ConfirmCreated(p) ==
  /\ deployers[p].step = "confirm"
  /\ IF ~Bound(p) \/ ~Created THEN DeployEnds(p)
     ELSE IF adapter = "plain" THEN DeployBecomes(p, [deployers[p] EXCEPT !.step = "start", !.receipt = container])
     ELSE ToActivate(p)
  /\ CallOnly

AdmitsMut(p) == activation = NoContainer \/ activation.id = deployers[p].receipt.id

\* Only the insert of the row admits a start.
Admits(p) == activation = NoContainer

ClaimActivation(p) ==
  /\ deployers[p].step = "claim"
  /\ activation' = IF activation = NoContainer
       THEN [id |-> deployers[p].receipt.id, build |-> deployers[p].build] ELSE activation
  /\ IF Admits(p) THEN DeployGoes(p, "again") ELSE DeployEnds(p)
  /\ UNCHANGED <<adapter, container, lastContainer, startsSent, deploysBegun, deployMishaps>>

\* The binding once more after the admission.
InspectAgain(p) ==
  /\ deployers[p].step = "again"
  /\ IF Bound(p) /\ Created /\ container.id = deployers[p].receipt.id
     THEN DeployGoes(p, "start") ELSE DeployEnds(p)
  /\ CallOnly

\* docker start of that container: performed or not, answered or not.
StartContainer(p) ==
  LET id == deployers[p].receipt.id IN
    /\ deployers[p].step = "start" /\ DeployEnds(p)
    /\ startsSent' = [startsSent EXCEPT ![id] = @ + 1]
    /\ container' \in {container} \cup
         (IF container # NoContainer /\ container.id = id THEN {[container EXCEPT !.state = "running"]} ELSE {})
    /\ UNCHANGED lastContainer /\ DockerOnly

StopDeployment(p) ==
  /\ deployers[p] = NoDeploy /\ container # NoContainer /\ container.state = "running"
  /\ container' = [container EXCEPT !.state = "exited"]
  /\ UNCHANGED <<lastContainer, deployers, startsSent>> /\ DockerOnly

DeployBreaks(p) ==
  /\ deployers[p] # NoDeploy /\ DeployMishap /\ DeployEnds(p)
  /\ UNCHANGED <<adapter, container, lastContainer, activation, startsSent, deploysBegun>>

RemoveContainer ==
  /\ container # NoContainer /\ DeployMishap /\ container' = NoContainer
  /\ UNCHANGED <<adapter, lastContainer, activation, deployers, startsSent, deploysBegun>>

DeploymentsNext ==
  \/ RemoveContainer
  \/ \E p \in Deployer :
       \/ \E build \in Build : BeginDeploy(p, build)
       \/ Inspect(p) \/ ReadActivation(p) \/ LookForPrior(p) \/ CreateContainer(p) \/ ConfirmCreated(p)
       \/ ClaimActivation(p) \/ InspectAgain(p) \/ StartContainer(p) \/ StopDeployment(p) \/ DeployBreaks(p)
-----------------------------------------------------------------------------
DeploymentsTypeOK ==
  /\ container # NoContainer => container.id \in 1..lastContainer /\ container.build \in Build
  /\ activation # NoContainer => adapter = "recoverable" /\ activation.id \in 1..lastContainer
  /\ \A p \in Deployer : deployers[p] # NoDeploy => deployers[p].build \in Build

\* Whatever processes stop, whatever is removed and deployed again: with activations a
\* request starts one workload ever, once, the one that its activation admitted.  Without
\* them that holds while no container was removed and created again: then two processes
\* may both confirm the second (developer/activation.js:36-50, deployment.js:45-63).
LaunchedOnce ==
  \A i \in ContainerId :
    /\ adapter = "recoverable" \/ lastContainer <= 1 => startsSent[i] <= 1
    /\ adapter = "recoverable" /\ startsSent[i] > 0 => activation # NoContainer /\ activation.id = i
=============================================================================
