------------------------------- MODULE Access -------------------------------
(***************************************************************************)
(* What the Tasks of one Agent identity may do: the registered definition,  *)
(* the identity of the Agent, a Mandate for each Task, the account behind   *)
(* the actor and the execution policy.  The Runtime reads each of them in a *)
(* query of its own, again and again, while owners change them.             *)
(***************************************************************************)
EXTENDS Naturals, Sequences

CONSTANTS
  Job,              \* Tasks bound to the Agent, each with the Mandate it names
  AgentTool,        \* the tools the Agent declares
  MaxDefinition,    \* revisions of the definition the application registers
  MaxActions,       \* actions a model puts in one answer (maxBatchCalls)
  MaxPerformed,     \* tools one Task performs (maxCalls)
  MaxAccessChanges  \* bound: changes of the definition, the Agent, Mandates, accounts, policy

\* An Agent declares tools.
ASSUME AccessAssumption == AgentTool # {}

\* Bounds are numbers; the definition that is registered at first has a revision.
ASSUME AccessBounds ==
  MaxDefinition \in Nat \ {0} /\ MaxActions \in Nat /\ MaxPerformed \in Nat /\ MaxAccessChanges \in Nat

VARIABLES
  definition,  \* AgentRegistry.definitions: the revision registered now
  agent,       \* iaic_agent_identities: the state, "absent" before the first binding
  mandates,    \* iaic_mandates: status and tools of the Mandate of each Task
  member,      \* AccountDirectory.current and the application's authorize: "yes" or "no"
  policy,      \* what ExecutionPolicy.decide answers: "allow" or "deny"
  jobs,        \* the Tasks, and where the Runtime is in them
  late,        \* tools each Task started since each of its authorities ended
  accessChanges

accessVars == <<definition, agent, mandates, member, policy, jobs, late, accessChanges>>

ChecksMut ==
  [admit  |-> <<"member", "mandate", "policy">>,
   resume |-> <<"member", "mandate", "agent", "policy">>,
   start  |-> <<"member", "mandate", "agent", "policy">>,
   turn   |-> <<>>,
   ask    |-> <<"member", "mandate", "agent", "policy">>,
   answer |-> <<"member", "mandate", "agent", "policy">>,
   act    |-> <<"tool">>,
   invoke |-> <<"member", "policy">>,
   ensure |-> <<>>, bind |-> <<>>, insert |-> <<>>, idle |-> <<>>]

\* The checks of each phase, in the order in which they are read.
Checks ==
  [admit  |-> <<"member", "mandate", "policy">>,
   resume |-> <<"member", "mandate", "agent", "policy">>,
   start  |-> <<"member", "mandate", "agent", "policy">>,
   turn   |-> <<"member", "mandate", "agent", "policy">>,
   ask    |-> <<"member", "mandate", "agent", "policy">>,
   answer |-> <<"member", "mandate", "agent", "policy">>,
   act    |-> <<"tool", "member", "mandate", "agent", "policy", "tool">>,
   invoke |-> <<"member", "policy">>,
   ensure |-> <<>>, bind |-> <<>>, insert |-> <<>>, idle |-> <<>>]

Authority == {"member", "mandate", "agent", "policy"}

NoJob == [status |-> "absent", phase |-> "idle", at |-> 1, bound |-> 0, seen |-> "absent",
          left |-> 0, tool |-> CHOOSE a \in AgentTool : TRUE, done |-> 0]

NoMandate == [status |-> "absent", tools |-> {}]

AccessInit ==
  /\ definition = 1 /\ agent = "absent" /\ member = "yes" /\ policy = "allow"
  /\ mandates = [j \in Job |-> NoMandate] /\ jobs = [j \in Job |-> NoJob]
  /\ late = [j \in Job |-> [k \in Authority |-> 0]] /\ accessChanges = 0
-----------------------------------------------------------------------------
(* Owners and operators change what Tasks rest on *)

AccessChange == accessChanges < MaxAccessChanges /\ accessChanges' = accessChanges + 1

\* grant: a request key binds its terms for good; a second grant changes nothing.
GrantMandate(j, tools) ==
  /\ mandates[j].status = "absent"
  /\ mandates' = [mandates EXCEPT ![j] = [status |-> "granted", tools |-> tools]]
  /\ UNCHANGED <<definition, agent, member, policy, jobs, accessChanges>>

\* revoke, and the clock that reaches expiresAt: both for good.
EndMandate(j) ==
  /\ AccessChange /\ mandates[j].status = "granted"
  /\ mandates' = [mandates EXCEPT ![j].status = "ended"]
  /\ UNCHANGED <<definition, agent, member, policy, jobs>>

\* setState under the revision the owner read; another's change refuses it.
SetAgent(state) ==
  /\ AccessChange /\ agent # "absent"
  /\ agent' = state
  /\ UNCHANGED <<definition, mandates, member, policy, jobs>>

\* register replaces the definition; an earlier one may come back under its hash.
RegisterDefinition(revision) ==
  /\ AccessChange /\ revision # definition
  /\ definition' = revision
  /\ UNCHANGED <<agent, mandates, member, policy, jobs>>

\* The account, its organization or its membership is suspended or restored.
ChangeMembership ==
  /\ AccessChange /\ member' = IF member = "yes" THEN "no" ELSE "yes"
  /\ UNCHANGED <<definition, agent, mandates, policy, jobs>>

ChangePolicy ==
  /\ AccessChange /\ policy' = IF policy = "allow" THEN "deny" ELSE "allow"
  /\ UNCHANGED <<definition, agent, mandates, member, jobs>>
-----------------------------------------------------------------------------
(* One check, as it is answered now *)

MandateHolds(j) == mandates[j].status = "granted"

\* AgentRegistry.check: the definition the Task was bound to, and an active Agent.
AgentHolds(j) == jobs[j].bound = definition /\ agent = "active"

CheckPasses(j, check) ==
  \/ check = "member" /\ member = "yes"
  \/ check = "mandate" /\ MandateHolds(j)
  \/ check = "tool" /\ MandateHolds(j) /\ jobs[j].tool \in mandates[j].tools
  \/ check = "agent" /\ AgentHolds(j)
  \/ check = "policy" /\ policy = "allow"

EntersPhase(j, phase) == [jobs[j] EXCEPT !.phase = phase, !.at = 1]

JobBecomes(j, job) ==
  /\ jobs' = [jobs EXCEPT ![j] = job]
  /\ UNCHANGED <<definition, mandates, member, policy, accessChanges>>

\* A refused admission or resume changes nothing; a refusal by the dispatcher
\* settles the call as failed and the loop goes on; any other interrupts the Task,
\* which keeps the rest of its batch.
Refused(j) ==
  CASE jobs[j].phase = "admit" -> NoJob
    [] jobs[j].phase = "resume" -> EntersPhase(j, "idle")
    [] jobs[j].phase = "invoke" -> [EntersPhase(j, "turn") EXCEPT !.done = @ + 1]
    [] OTHER -> [EntersPhase(j, "idle") EXCEPT !.status = "waiting"]

CheckAuthority(j) ==
  LET pending == Checks[jobs[j].phase] IN
    /\ jobs[j].at <= Len(pending)
    /\ JobBecomes(j, IF CheckPasses(j, pending[jobs[j].at]) THEN [jobs[j] EXCEPT !.at = @ + 1]
           ELSE Refused(j))
    /\ UNCHANGED agent

\* Every check of the phase has passed.
Passed(j, phase) == jobs[j].phase = phase /\ jobs[j].at > Len(Checks[phase])
-----------------------------------------------------------------------------
(* Admission: create, with AgentRegistry.bind *)

AskAdmission(j) ==
  /\ jobs[j] = NoJob /\ JobBecomes(j, EntersPhase(j, "admit")) /\ UNCHANGED agent

ReadDefinition(j) ==
  /\ Passed(j, "admit")
  /\ JobBecomes(j, [EntersPhase(j, "ensure") EXCEPT !.bound = definition])
  /\ UNCHANGED agent

\* The first binding creates the identity; then its state is read.
EnsureAgent(j) ==
  /\ jobs[j].phase = "ensure"
  /\ agent' = IF agent = "absent" THEN "active" ELSE agent
  /\ JobBecomes(j, [EntersPhase(j, "bind") EXCEPT !.seen = agent'])

\* A definition that changed meanwhile, or a paused Agent, refuses the admission.
BindAgent(j) ==
  /\ jobs[j].phase = "bind"
  /\ JobBecomes(j, IF jobs[j].bound = definition /\ jobs[j].seen = "active"
         THEN EntersPhase(j, "insert") ELSE NoJob)
  /\ UNCHANGED agent

InsertJob(j) ==
  /\ jobs[j].phase = "insert"
  /\ JobBecomes(j, [EntersPhase(j, "idle") EXCEPT !.status = "queued"])
  /\ UNCHANGED agent

\* transition: checked first, put back to the queue in another transaction.
AskResume(j) ==
  /\ jobs[j].status = "waiting" /\ jobs[j].phase = "idle"
  /\ JobBecomes(j, EntersPhase(j, "resume")) /\ UNCHANGED agent

ResumeJob(j) ==
  /\ Passed(j, "resume")
  /\ JobBecomes(j, [EntersPhase(j, "idle") EXCEPT !.status = "queued"])
  /\ UNCHANGED agent
-----------------------------------------------------------------------------
(* executeNext *)

ClaimJob(j) ==
  /\ jobs[j].status = "queued"
  /\ JobBecomes(j, [EntersPhase(j, "start") EXCEPT !.status = "running"])
  /\ UNCHANGED agent

MayPerformMut(j) == TRUE

\* remainingToolCalls: without any, a batch is refused and a call ends the Task's run.
MayPerform(j) == jobs[j].done < MaxPerformed

\* A turn goes on with the batch, asks the model, or stops at the limit of turns.
JobTurn(j) ==
  /\ Passed(j, "start") \/ Passed(j, "turn")
  /\ \/ jobs[j].phase = "start" /\ JobBecomes(j, EntersPhase(j, "turn"))
     \/ /\ jobs[j].phase = "turn" /\ jobs[j].left > 0
        /\ \E a \in AgentTool : JobBecomes(j, [EntersPhase(j, "act") EXCEPT !.tool = a])
     \/ /\ jobs[j].phase = "turn" /\ jobs[j].left = 0
        /\ \/ JobBecomes(j, EntersPhase(j, "ask"))
           \/ JobBecomes(j, [EntersPhase(j, "idle") EXCEPT !.status = "waiting"])
  /\ UNCHANGED agent

\* The model answers with a batch that fits, which is stored first; with what is
\* rejected, and asked again; or with one call, or an end.
ModelAnswers(j) ==
  /\ Passed(j, "ask")
  /\ \/ \E n \in 2..MaxActions : /\ n <= MaxPerformed - jobs[j].done
                                 /\ JobBecomes(j, [EntersPhase(j, "turn") EXCEPT !.left = n])
     \/ JobBecomes(j, EntersPhase(j, "turn"))
     \/ JobBecomes(j, EntersPhase(j, "answer"))
  /\ UNCHANGED agent

\* One call.
CallAnswered(j) ==
  /\ Passed(j, "answer") /\ MayPerform(j)
  /\ \E a \in AgentTool : JobBecomes(j, [EntersPhase(j, "act") EXCEPT !.tool = a])
  /\ UNCHANGED agent

\* finish, wait, delegate, the limit of calls; a finish that is not verified goes on.
EndJob(j) ==
  /\ Passed(j, "answer")
  /\ \/ \E status \in {"done", "waiting"} : JobBecomes(j, [EntersPhase(j, "idle") EXCEPT !.status = status])
     \/ JobBecomes(j, EntersPhase(j, "turn"))
  /\ UNCHANGED agent

\* The call is recorded, which takes it out of the batch, and given to the dispatcher.
PrepareTool(j) ==
  /\ Passed(j, "act")
  /\ JobBecomes(j, [EntersPhase(j, "invoke") EXCEPT !.left = IF @ > 0 THEN @ - 1 ELSE 0])
  /\ UNCHANGED agent

PerformTool(j) ==
  /\ Passed(j, "invoke")
  /\ JobBecomes(j, [EntersPhase(j, "turn") EXCEPT !.done = @ + 1])
  /\ UNCHANGED agent
-----------------------------------------------------------------------------
\* Counts the tools started since each authority ended; its return begins anew.
CountLate ==
  late' = [j \in Job |-> [k \in Authority |->
             IF CheckPasses(j, k)' THEN 0
             ELSE late[j][k] + IF Passed(j, "invoke") /\ jobs'[j].phase = "turn" THEN 1 ELSE 0]]

AccessNext ==
  /\ \/ \E j \in Job :
          \/ \E tools \in SUBSET AgentTool \ {{}} : GrantMandate(j, tools)
          \/ EndMandate(j)
          \/ AskAdmission(j) \/ CheckAuthority(j) \/ ReadDefinition(j) \/ EnsureAgent(j) \/ BindAgent(j) \/ InsertJob(j)
          \/ AskResume(j) \/ ResumeJob(j) \/ ClaimJob(j) \/ JobTurn(j) \/ ModelAnswers(j) \/ CallAnswered(j) \/ EndJob(j)
          \/ PrepareTool(j) \/ PerformTool(j)
     \/ \E state \in {"active", "paused"} : SetAgent(state)
     \/ \E revision \in 1..MaxDefinition : RegisterDefinition(revision)
     \/ ChangeMembership \/ ChangePolicy
  /\ CountLate

AccessSpec == AccessInit /\ [][AccessNext]_accessVars
-----------------------------------------------------------------------------
AccessTypeOK ==
  /\ definition \in 1..MaxDefinition
  /\ agent \in {"absent", "active", "paused"} /\ member \in {"yes", "no"} /\ policy \in {"allow", "deny"}
  /\ mandates \in [Job -> [status : {"absent", "granted", "ended"}, tools : SUBSET AgentTool]]
  /\ \A j \in Job :
       /\ jobs[j].status \in {"absent", "queued", "running", "waiting", "done"}
       /\ jobs[j].phase \in DOMAIN Checks /\ jobs[j].at \in 1..7
       /\ jobs[j].bound \in 0..MaxDefinition /\ jobs[j].seen \in {"absent", "active", "paused"}
       /\ jobs[j].left \in 0..MaxActions /\ jobs[j].tool \in AgentTool /\ jobs[j].done \in 0..MaxPerformed
  /\ late \in [Job -> [Authority -> Nat]] /\ accessChanges \in 0..MaxAccessChanges

\* However its authorities change between the checks, a Task starts at most one
\* more tool after any of them ended: the one already under way (runtime.js:171,
\* 298-299; identities/README.md "Pause prevents new admission once observed").
\* A tool in hand is one the Mandate names.
RevocationBites ==
  \A j \in Job :
    /\ \A k \in Authority : late[j][k] <= 1
    /\ jobs[j].phase = "invoke" => jobs[j].tool \in mandates[j].tools
=============================================================================
