---------------------------- MODULE RecordProofs ----------------------------
(***************************************************************************)
(* What the host's records promise its Tasks and users, for every value of  *)
(* their constants: authority that ends (Access), personal keys (Accounts), *)
(* the model of a Task (Routing), that no newer state is replaced by an     *)
(* older one (Subscriptions, Knowledge, Registry), that work asked for      *)
(* twice is done once (Channels, Deployments, Peers), and that what was     *)
(* approved stays bound to it (AccessProfiles, Papers, Evaluations, Peers). *)
(* Each section has its inductive invariant, a lemma for each kind of step  *)
(* and the theorem.                                                        *)
(***************************************************************************)
EXTENDS MCRecords, Sums, FiniteSetTheorems, TLAPS
-----------------------------------------------------------------------------
(* Access: an authority that ended stops its Tasks *)

AccessRow ==
  [status : {"absent", "queued", "running", "waiting", "done"}, phase : DOMAIN Checks, at : Nat,
   bound : Nat, seen : {"absent", "active", "paused"}, left : Nat, tool : AgentTool, done : Nat]

AccessRows ==
  /\ definition \in Nat /\ agent \in {"absent", "active", "paused"}
  /\ mandates \in [Job -> [status : {"absent", "granted", "ended"}, tools : SUBSET AgentTool]]
  /\ jobs \in [Job -> AccessRow]
  /\ late \in [Job -> [Authority -> Nat]]

\* Where the checks before a call stand when they have come past an authority.
CheckPlace == [member |-> 2, mandate |-> 3, agent |-> 4, policy |-> 5]

\* The Task has asked an authority since its last tool, and the tool in hand was
\* found in its Mandate.
Asked(j, k) == jobs[j].phase = "invoke" \/ (jobs[j].phase = "act" /\ jobs[j].at > CheckPlace[k])
Found(j) == jobs[j].phase = "invoke" \/ (jobs[j].phase = "act" /\ jobs[j].at > 1)

\* A tool late at most; none where an authority was asked again.
OnceLate(j) == \A k \in Authority : late[j][k] <= 1 /\ (Asked(j, k) => late[j][k] = 0)
Named(j) == Found(j) => jobs[j].tool \in mandates[j].tools /\ mandates[j].status # "absent"

AccessInv == AccessRows /\ \A j \in Job : OnceLate(j) /\ Named(j)

USE AccessAssumption

LEMMA NoJobRow == NoJob \in AccessRow /\ NoJob.phase = "idle"
<1>1. DOMAIN Checks = {"admit", "resume", "start", "turn", "ask", "answer", "act", "invoke",
                       "ensure", "bind", "insert", "idle"}
  BY DEF Checks
<1> DEFINE tool == CHOOSE a \in AgentTool : TRUE
<1>2. tool \in AgentTool
  BY AccessAssumption
<1> HIDE DEF tool
<1>3. NoJob = [status |-> "absent", phase |-> "idle", at |-> 1, bound |-> 0, seen |-> "absent",
               left |-> 0, tool |-> tool, done |-> 0]
  BY DEF NoJob, tool
<1>4. QED
  BY <1>1, <1>2, <1>3 DEF AccessRow

LEMMA InitiallyAllowed == AccessInit => AccessInv
<1> SUFFICES ASSUME AccessInit PROVE AccessInv
  OBVIOUS
<1>1. AccessRows
  BY NoJobRow DEF AccessInit, AccessRows, NoMandate
<1>2. \A j \in Job : jobs[j].phase = "idle" /\ \A k \in Authority : late[j][k] = 0
  BY NoJobRow DEF AccessInit
<1>3. QED
  BY <1>1, <1>2 DEF AccessInv, OnceLate, Named, Asked, Found

LEMMA PhaseNames ==
  DOMAIN Checks = {"admit", "resume", "start", "turn", "ask", "answer", "act", "invoke",
                   "ensure", "bind", "insert", "idle"}
  BY DEF Checks

\* Entering a phase keeps the rest of the row.
LEMMA EnteredRow ==
  ASSUME AccessRows, NEW j \in Job, NEW phase \in DOMAIN Checks
  PROVE  /\ EntersPhase(j, phase) \in AccessRow
         /\ EntersPhase(j, phase).phase = phase /\ EntersPhase(j, phase).at = 1
         /\ EntersPhase(j, phase).tool = jobs[j].tool
<1>1. jobs[j] \in AccessRow
  BY DEF AccessRows
<1>2. EntersPhase(j, phase) \in AccessRow
  BY <1>1 DEF EntersPhase, AccessRow
<1>3. QED
  BY <1>1, <1>2 DEF EntersPhase, AccessRow

\* The tools started since an authority ended, over a step.
LEMMA LateCounts ==
  ASSUME AccessRows, CountLate
  PROVE  /\ late' \in [Job -> [Authority -> Nat]]
         /\ \A j \in Job, k \in Authority :
              /\ late'[j][k] <= late[j][k] + 1
              /\ CheckPasses(j, k)' => late'[j][k] = 0
              /\ ~(Passed(j, "invoke") /\ jobs'[j].phase = "turn") => late'[j][k] <= late[j][k]
<1> DEFINE performed(j) == IF Passed(j, "invoke") /\ jobs'[j].phase = "turn" THEN 1 ELSE 0
           tells(j, k) == IF CheckPasses(j, k)' THEN 0 ELSE late[j][k] + performed(j)
<1>1. late' = [j \in Job |-> [k \in Authority |-> tells(j, k)]]
  BY DEF CountLate
<1>2. \A j \in Job : performed(j) \in {0, 1} /\ (~(Passed(j, "invoke") /\ jobs'[j].phase = "turn") => performed(j) = 0)
  OBVIOUS
<1>3. \A j \in Job, k \in Authority : late[j][k] \in Nat
  BY DEF AccessRows
<1>4. \A j \in Job, k \in Authority :
        (CheckPasses(j, k)' => tells(j, k) = 0) /\ (~CheckPasses(j, k)' => tells(j, k) = late[j][k] + performed(j))
  OBVIOUS
<1> HIDE DEF performed, tells
<1>5. \A j \in Job, k \in Authority : late'[j][k] = tells(j, k)
  BY <1>1
<1>6. \A j \in Job, k \in Authority : tells(j, k) \in Nat
  BY <1>2, <1>3, <1>4
<1>7. late' \in [Job -> [Authority -> Nat]]
  BY <1>1, <1>6
<1>8. ASSUME NEW j \in Job, NEW k \in Authority
      PROVE  /\ late'[j][k] <= late[j][k] + 1
             /\ CheckPasses(j, k)' => late'[j][k] = 0
             /\ ~(Passed(j, "invoke") /\ jobs'[j].phase = "turn") => late'[j][k] <= late[j][k]
  <2>1. late[j][k] \in Nat /\ performed(j) \in {0, 1} /\ late'[j][k] = tells(j, k)
    BY <1>2, <1>3, <1>5
  <2>2. QED
    BY <2>1, <1>2, <1>4
<1>9. QED
  BY <1>7, <1>8

\* What a step leaves of a Task whose row it does not touch.
LEMMA TaskRests ==
  ASSUME AccessInv, CountLate, NEW j \in Job, jobs'[j] = jobs[j],
         mandates[j].status # "absent" => mandates'[j].status # "absent" /\ mandates'[j].tools = mandates[j].tools
  PROVE  OnceLate(j)' /\ Named(j)'
<1>1. ~(Passed(j, "invoke") /\ jobs'[j].phase = "turn")
  BY DEF Passed
<1>2. \A k \in Authority : late'[j][k] <= late[j][k]
  BY <1>1, LateCounts DEF AccessInv
<1>3. \A k \in Authority : late'[j][k] \in Nat /\ late[j][k] \in Nat
  BY LateCounts DEF AccessInv, AccessRows
<1>4. QED
  BY <1>2, <1>3 DEF AccessInv, OnceLate, Named, Asked, Found

\* Only owners move.
LEMMA OwnersMove ==
  ASSUME AccessInv, CountLate, UNCHANGED jobs, definition' \in Nat, agent' \in {"absent", "active", "paused"},
         mandates' \in [Job -> [status : {"absent", "granted", "ended"}, tools : SUBSET AgentTool]],
         \A j \in Job : mandates[j].status # "absent" =>
           mandates'[j].status # "absent" /\ mandates'[j].tools = mandates[j].tools
  PROVE  AccessInv'
<1>1. AccessRows'
  BY LateCounts DEF AccessInv, AccessRows
<1>2. QED
  BY <1>1, TaskRests DEF AccessInv

\* A Task moves, and is then elsewhere than at the checks of a call.
LEMMA TaskMoves ==
  ASSUME AccessInv, CountLate, NEW j \in Job, NEW row \in AccessRow, JobBecomes(j, row),
         agent' \in {"absent", "active", "paused"}
  PROVE  /\ AccessRows' /\ jobs'[j] = row /\ mandates' = mandates /\ definition' = definition /\ member' = member
         /\ policy' = policy
         /\ \A i \in Job \ {j} : OnceLate(i)' /\ Named(i)'
<1>1. /\ jobs' \in [Job -> AccessRow] /\ jobs'[j] = row /\ \A i \in Job \ {j} : jobs'[i] = jobs[i]
      /\ UNCHANGED <<definition, mandates, member, policy>>
  BY DEF JobBecomes, AccessInv, AccessRows
<1>2. AccessRows'
  BY <1>1, LateCounts DEF AccessInv, AccessRows
<1>3. QED
  BY <1>1, <1>2, TaskRests

LEMMA TaskGoesElsewhere ==
  ASSUME AccessInv, CountLate, NEW j \in Job, NEW row \in AccessRow, JobBecomes(j, row),
         agent' \in {"absent", "active", "paused"}, row.phase # "invoke",
         row.phase = "act" => row.at = 1
  PROVE  AccessInv'
<1>1. /\ AccessRows' /\ jobs'[j] = row /\ \A i \in Job \ {j} : OnceLate(i)' /\ Named(i)'
  BY TaskMoves
<1>2. \A k \in Authority : late'[j][k] \in Nat /\ late[j][k] \in Nat
  BY <1>1 DEF AccessInv, AccessRows
<1>3. \A k \in Authority : ~Asked(j, k)' /\ CheckPlace[k] > 1
  BY <1>1 DEF Asked, CheckPlace, Authority
<1>4. ~Found(j)'
  BY <1>1 DEF Found
<1>5. ASSUME NEW k \in Authority PROVE late'[j][k] <= 1
  <2>1. CASE Passed(j, "invoke")
    <3>1. Asked(j, k)
      BY <2>1 DEF Passed, Asked
    <3>2. late[j][k] = 0 /\ late'[j][k] <= late[j][k] + 1
      BY <3>1, LateCounts DEF AccessInv, OnceLate
    <3>3. QED
      BY <3>2, <1>2
  <2>2. CASE ~Passed(j, "invoke")
    <3>1. late'[j][k] <= late[j][k] /\ late[j][k] <= 1
      BY <2>2, LateCounts DEF AccessInv, OnceLate
    <3>2. QED
      BY <3>1, <1>2
  <2>3. QED
    BY <2>1, <2>2
<1>6. QED
  BY <1>1, <1>3, <1>4, <1>5 DEF AccessInv, OnceLate, Named

\* One more check: of an authority, which then holds, or of the tool.
LEMMA CheckStep ==
  ASSUME AccessInv, CountLate, NEW j \in Job, CheckAuthority(j)
  PROVE  AccessInv'
<1> DEFINE pending == Checks[jobs[j].phase]
           onward == [jobs[j] EXCEPT !.at = @ + 1]
<1>0. AccessRows /\ jobs[j] \in AccessRow /\ agent' = agent /\ agent \in {"absent", "active", "paused"}
      /\ jobs[j].phase \in DOMAIN Checks /\ jobs[j].at \in Nat
  BY DEF AccessInv, AccessRows, AccessRow, CheckAuthority
<1>1. CASE CheckPasses(j, pending[jobs[j].at])
  <2>1. jobs[j].at <= Len(pending) /\ JobBecomes(j, onward)
    BY <1>1 DEF CheckAuthority
  <2>2. onward \in AccessRow /\ onward.phase = jobs[j].phase /\ onward.at = jobs[j].at + 1 /\ onward.tool = jobs[j].tool
        /\ onward.bound = jobs[j].bound
    BY <1>0 DEF AccessRow
  <2> HIDE DEF onward
  <2>3. CASE jobs[j].phase = "act"
    <3>1. /\ AccessRows' /\ jobs'[j] = onward /\ mandates' = mandates /\ definition' = definition /\ member' = member
          /\ policy' = policy /\ \A i \in Job \ {j} : OnceLate(i)' /\ Named(i)'
      BY <1>0, <2>1, <2>2, TaskMoves
    <3>2. \A k \in Authority : late'[j][k] <= late[j][k] /\ late'[j][k] \in Nat /\ late[j][k] \in Nat
      BY <2>3, <3>1, LateCounts DEF Passed, AccessInv, AccessRows
    <3>3. pending = <<"tool", "member", "mandate", "agent", "policy", "tool">>
      BY <2>3 DEF Checks
    <3>4. jobs[j].at \in 0..6
      BY <1>0, <2>1, <3>3
    <3>5. ASSUME NEW k \in Authority, Asked(j, k)'
          PROVE  late'[j][k] = 0
      <4>1. jobs[j].at >= CheckPlace[k]
        BY <1>0, <2>2, <2>3, <3>1, <3>5 DEF Asked, CheckPlace, Authority
      <4>2. CASE jobs[j].at = CheckPlace[k]
        <5>1. CheckPasses(j, k)
          BY <1>1, <3>3, <4>2 DEF CheckPlace, Authority
        <5>2. CheckPasses(j, k)'
          BY <5>1, <1>0, <2>2, <3>1 DEF CheckPasses, MandateHolds, AgentHolds, Authority
        <5>3. QED
          BY <5>2, <1>0, LateCounts
      <4>3. CASE jobs[j].at > CheckPlace[k]
        <5>1. late[j][k] = 0
          BY <2>3, <4>3 DEF AccessInv, OnceLate, Asked
        <5>2. QED
          BY <3>2, <5>1
      <4>4. QED
        BY <1>0, <4>1, <4>2, <4>3 DEF CheckPlace, Authority
    <3>6. OnceLate(j)'
      BY <3>2, <3>5 DEF AccessInv, OnceLate
    <3>7. ASSUME Found(j)'
          PROVE  jobs[j].tool \in mandates[j].tools /\ mandates[j].status # "absent"
      <4>1. CASE jobs[j].at = 0
        BY <3>7, <4>1, <2>2, <2>3, <3>1 DEF Found
      <4>2. CASE jobs[j].at = 1
        <5>1. CheckPasses(j, "tool")
          BY <1>1, <3>3, <4>2
        <5>2. QED
          BY <5>1 DEF CheckPasses, MandateHolds
      <4>3. CASE jobs[j].at > 1
        BY <2>3, <4>3 DEF AccessInv, Named, Found
      <4>4. QED
        BY <3>4, <4>1, <4>2, <4>3
    <3>8. Named(j)'
      BY <2>2, <3>1, <3>7 DEF Named
    <3>9. QED
      BY <3>1, <3>6, <3>8 DEF AccessInv
  <2>4. CASE jobs[j].phase # "act"
    <3>1. jobs[j].phase # "invoke" => AccessInv'
      BY <1>0, <2>1, <2>2, <2>4, TaskGoesElsewhere
    <3>2. CASE jobs[j].phase = "invoke"
      <4>1. /\ AccessRows' /\ jobs'[j] = onward /\ mandates' = mandates
            /\ \A i \in Job \ {j} : OnceLate(i)' /\ Named(i)'
        BY <1>0, <2>1, <2>2, TaskMoves
      <4>2. \A k \in Authority : late'[j][k] <= late[j][k] /\ late'[j][k] \in Nat /\ late[j][k] = 0
        BY <3>2, <4>1, <2>2, LateCounts DEF AccessInv, AccessRows, OnceLate, Asked
      <4>3. OnceLate(j)'
        BY <4>2 DEF OnceLate
      <4>4. Named(j)'
        BY <2>2, <3>2, <4>1 DEF AccessInv, Named, Found
      <4>5. QED
        BY <4>1, <4>3, <4>4 DEF AccessInv
    <3>3. QED
      BY <3>1, <3>2
  <2>5. QED
    BY <2>3, <2>4
<1>2. CASE ~CheckPasses(j, pending[jobs[j].at])
  <2>1. JobBecomes(j, Refused(j))
    BY <1>2 DEF CheckAuthority
  <2>2. Refused(j) \in AccessRow /\ Refused(j).phase \in {"idle", "turn"}
    <3>1. CASE jobs[j].phase = "admit"
      BY <3>1, NoJobRow DEF Refused
    <3>2. CASE jobs[j].phase = "resume"
      <4>1. Refused(j) = EntersPhase(j, "idle")
        BY <3>2 DEF Refused
      <4>2. QED
        BY <4>1, <1>0, EnteredRow, PhaseNames
    <3>3. CASE jobs[j].phase = "invoke"
      <4> DEFINE row == EntersPhase(j, "turn")
      <4>1. Refused(j) = [row EXCEPT !.done = @ + 1]
        BY <3>3 DEF Refused
      <4>2. row \in AccessRow /\ row.phase = "turn"
        BY <1>0, EnteredRow, PhaseNames
      <4> HIDE DEF row
      <4>3. QED
        BY <4>1, <4>2 DEF AccessRow
    <3>4. CASE jobs[j].phase \notin {"admit", "resume", "invoke"}
      <4> DEFINE row == EntersPhase(j, "idle")
      <4>1. Refused(j) = [row EXCEPT !.status = "waiting"]
        BY <3>4 DEF Refused
      <4>2. row \in AccessRow /\ row.phase = "idle"
        BY <1>0, EnteredRow, PhaseNames
      <4> HIDE DEF row
      <4>3. QED
        BY <4>1, <4>2 DEF AccessRow
    <3>5. QED
      BY <3>1, <3>2, <3>3, <3>4
  <2>3. QED
    BY <1>0, <2>1, <2>2, TaskGoesElsewhere
<1>3. QED
  BY <1>1, <1>2

\* A tool performed ends the checks that allowed it.
LEMMA EntersStep ==
  ASSUME AccessInv, CountLate, NEW j \in Job, NEW phase \in DOMAIN Checks \ {"invoke"},
         JobBecomes(j, EntersPhase(j, phase)), agent' \in {"absent", "active", "paused"}
  PROVE  AccessInv'
  BY EnteredRow, TaskGoesElsewhere DEF AccessInv

LEMMA AllowedStep == AccessInv /\ [AccessNext]_accessVars => AccessInv'
<1> SUFFICES ASSUME AccessInv, [AccessNext]_accessVars PROVE AccessInv'
  OBVIOUS
<1>0. AccessRows /\ definition \in Nat /\ agent \in {"absent", "active", "paused"}
  BY DEF AccessInv, AccessRows
<1>1. CASE UNCHANGED accessVars
  BY <1>1 DEF accessVars, AccessInv, AccessRows, OnceLate, Named, Asked, Found
<1>2. CASE AccessNext
  <2> USE <1>2
  <2>0. CountLate
    BY DEF AccessNext
  <2>1. ASSUME NEW j \in Job, NEW tools \in SUBSET AgentTool \ {{}}, GrantMandate(j, tools)
        PROVE  AccessInv'
    <3> DEFINE row == [status |-> "granted", tools |-> tools]
    <3>1. mandates' = [mandates EXCEPT ![j] = row] /\ row \in [status : {"absent", "granted", "ended"}, tools : SUBSET AgentTool]
          /\ mandates[j].status = "absent" /\ UNCHANGED <<definition, agent, jobs>>
      BY <2>1 DEF GrantMandate
    <3> HIDE DEF row
    <3>2. QED
      BY <1>0, <2>0, <3>1, OwnersMove DEF AccessRows
  <2>2. ASSUME NEW j \in Job, EndMandate(j)
        PROVE  AccessInv'
    <3>1. mandates' = [mandates EXCEPT ![j].status = "ended"] /\ UNCHANGED <<definition, agent, jobs>>
      BY <2>2 DEF EndMandate
    <3>2. /\ mandates' \in [Job -> [status : {"absent", "granted", "ended"}, tools : SUBSET AgentTool]]
          /\ \A i \in Job : mandates'[i].tools = mandates[i].tools
                            /\ (mandates[i].status # "absent" => mandates'[i].status # "absent")
      BY <1>0, <3>1 DEF AccessRows
    <3>3. QED
      BY <1>0, <2>0, <3>1, <3>2, OwnersMove
  <2>3. ASSUME \/ \E state \in {"active", "paused"} : SetAgent(state)
               \/ \E revision \in 1..MaxDefinition : RegisterDefinition(revision)
               \/ ChangeMembership \/ ChangePolicy
        PROVE  AccessInv'
    <3>1. UNCHANGED <<mandates, jobs>> /\ definition' \in Nat /\ agent' \in {"absent", "active", "paused"}
      BY <1>0, <2>3 DEF SetAgent, RegisterDefinition, ChangeMembership, ChangePolicy
    <3>2. QED
      BY <1>0, <2>0, <3>1, OwnersMove DEF AccessRows
  <2>4. ASSUME NEW j \in Job, AskAdmission(j)
        PROVE  AccessInv'
    BY <1>0, <2>0, <2>4, EntersStep, PhaseNames DEF AskAdmission
  <2>5. ASSUME NEW j \in Job, CheckAuthority(j)
        PROVE  AccessInv'
    BY <2>0, <2>5, CheckStep
  <2>6. ASSUME NEW j \in Job, ReadDefinition(j)
        PROVE  AccessInv'
    <3> DEFINE row == EntersPhase(j, "ensure")
    <3>1. row \in AccessRow /\ row.phase = "ensure" /\ [row EXCEPT !.bound = definition] \in AccessRow
      BY <1>0, EnteredRow, PhaseNames DEF AccessRow
    <3>2. JobBecomes(j, [row EXCEPT !.bound = definition]) /\ agent' = agent
      BY <2>6 DEF ReadDefinition
    <3> HIDE DEF row
    <3>3. [row EXCEPT !.bound = definition].phase = "ensure"
      BY <3>1 DEF AccessRow
    <3>4. QED
      BY <1>0, <2>0, <3>1, <3>2, <3>3, TaskGoesElsewhere
  <2>7. ASSUME NEW j \in Job, EnsureAgent(j)
        PROVE  AccessInv'
    <3> DEFINE row == EntersPhase(j, "bind")
    <3>0. agent' \in {"active", "paused"}
      BY <1>0, <2>7 DEF EnsureAgent
    <3>1. row \in AccessRow /\ row.phase = "bind" /\ [row EXCEPT !.seen = agent'] \in AccessRow
      BY <1>0, <3>0, EnteredRow, PhaseNames DEF AccessRow
    <3>2. JobBecomes(j, [row EXCEPT !.seen = agent'])
      BY <2>7 DEF EnsureAgent
    <3> HIDE DEF row
    <3>3. [row EXCEPT !.seen = agent'].phase = "bind"
      BY <3>1 DEF AccessRow
    <3>4. QED
      BY <2>0, <3>0, <3>1, <3>2, <3>3, TaskGoesElsewhere
  <2>8. ASSUME NEW j \in Job, BindAgent(j)
        PROVE  AccessInv'
    <3>1. JobBecomes(j, EntersPhase(j, "insert")) \/ JobBecomes(j, NoJob)
      BY <2>8 DEF BindAgent
    <3>2. agent' = agent
      BY <2>8 DEF BindAgent
    <3>3. JobBecomes(j, NoJob) => AccessInv'
      BY <1>0, <2>0, <3>2, NoJobRow, TaskGoesElsewhere
    <3>4. JobBecomes(j, EntersPhase(j, "insert")) => AccessInv'
      BY <1>0, <2>0, <3>2, EntersStep, PhaseNames
    <3>5. QED
      BY <3>1, <3>3, <3>4
  <2>9. ASSUME NEW j \in Job, NEW phase \in DOMAIN Checks \ {"invoke"},
               NEW status \in {"queued", "running", "waiting", "done"}, agent' = agent,
               JobBecomes(j, [EntersPhase(j, phase) EXCEPT !.status = status])
        PROVE  AccessInv'
    <3> DEFINE row == EntersPhase(j, phase)
    <3>1. row \in AccessRow /\ row.phase = phase /\ row.at = 1
      BY <1>0, EnteredRow
    <3> DEFINE next == [row EXCEPT !.status = status]
    <3>2. JobBecomes(j, next)
      BY <2>9
    <3> HIDE DEF row
    <3>3. next \in AccessRow /\ next.phase = phase /\ next.at = 1
      BY <3>1 DEF AccessRow
    <3> HIDE DEF next
    <3>4. QED
      BY <1>0, <2>0, <2>9, <3>2, <3>3, TaskGoesElsewhere
  <2>10. ASSUME NEW j \in Job, InsertJob(j) \/ ResumeJob(j) \/ ClaimJob(j)
         PROVE  AccessInv'
    BY <2>9, <2>10, PhaseNames DEF InsertJob, ResumeJob, ClaimJob
  <2>11. ASSUME NEW j \in Job, AskResume(j)
         PROVE  AccessInv'
    BY <1>0, <2>0, <2>11, EntersStep, PhaseNames DEF AskResume
  <2>12. ASSUME NEW j \in Job, NEW a \in AgentTool, agent' = agent,
                JobBecomes(j, [EntersPhase(j, "act") EXCEPT !.tool = a])
         PROVE  AccessInv'
    <3> DEFINE row == EntersPhase(j, "act")
               next == [row EXCEPT !.tool = a]
    <3>1. row \in AccessRow /\ row.phase = "act" /\ row.at = 1
      BY <1>0, EnteredRow, PhaseNames
    <3>2. JobBecomes(j, next)
      BY <2>12
    <3> HIDE DEF row
    <3>3. next \in AccessRow /\ next.phase = "act" /\ next.at = 1
      BY <3>1 DEF AccessRow
    <3> HIDE DEF next
    <3>4. QED
      BY <1>0, <2>0, <2>12, <3>2, <3>3, TaskGoesElsewhere
  <2>13. ASSUME NEW j \in Job, JobTurn(j)
         PROVE  AccessInv'
    <3>1. agent' = agent
      BY <2>13 DEF JobTurn
    <3>2. \/ JobBecomes(j, EntersPhase(j, "turn"))
          \/ \E a \in AgentTool : JobBecomes(j, [EntersPhase(j, "act") EXCEPT !.tool = a])
          \/ JobBecomes(j, EntersPhase(j, "ask"))
          \/ JobBecomes(j, [EntersPhase(j, "idle") EXCEPT !.status = "waiting"])
      BY <2>13 DEF JobTurn
    <3>3. JobBecomes(j, EntersPhase(j, "turn")) \/ JobBecomes(j, EntersPhase(j, "ask")) => AccessInv'
      BY <1>0, <2>0, <3>1, EntersStep, PhaseNames
    <3>4. QED
      BY <2>9, <2>12, <3>1, <3>2, <3>3, PhaseNames
  <2>14. ASSUME NEW j \in Job, ModelAnswers(j)
         PROVE  AccessInv'
    <3>1. agent' = agent
      BY <2>14 DEF ModelAnswers
    <3>2. JobBecomes(j, EntersPhase(j, "turn")) \/ JobBecomes(j, EntersPhase(j, "answer")) => AccessInv'
      BY <1>0, <2>0, <3>1, EntersStep, PhaseNames
    <3>3. ASSUME NEW n \in 2..MaxActions, JobBecomes(j, [EntersPhase(j, "turn") EXCEPT !.left = n])
          PROVE  AccessInv'
      <4> DEFINE row == EntersPhase(j, "turn")
                 next == [row EXCEPT !.left = n]
      <4>1. row \in AccessRow /\ row.phase = "turn" /\ n \in Nat
        BY <1>0, EnteredRow, PhaseNames
      <4>2. JobBecomes(j, next)
        BY <3>3
      <4> HIDE DEF row
      <4>3. next \in AccessRow /\ next.phase = "turn"
        BY <4>1 DEF AccessRow
      <4> HIDE DEF next
      <4>4. QED
        BY <1>0, <2>0, <3>1, <4>2, <4>3, TaskGoesElsewhere
    <3>4. QED
      BY <2>14, <3>2, <3>3 DEF ModelAnswers
  <2>15. ASSUME NEW j \in Job, CallAnswered(j)
         PROVE  AccessInv'
    BY <2>12, <2>15 DEF CallAnswered
  <2>16. ASSUME NEW j \in Job, EndJob(j)
         PROVE  AccessInv'
    <3>1. agent' = agent
      BY <2>16 DEF EndJob
    <3>2. \/ \E status \in {"done", "waiting"} : JobBecomes(j, [EntersPhase(j, "idle") EXCEPT !.status = status])
          \/ JobBecomes(j, EntersPhase(j, "turn"))
      BY <2>16 DEF EndJob
    <3>3. JobBecomes(j, EntersPhase(j, "turn")) => AccessInv'
      BY <1>0, <2>0, <3>1, EntersStep, PhaseNames
    <3>4. QED
      BY <2>9, <3>1, <3>2, <3>3, PhaseNames
  <2>17. ASSUME NEW j \in Job, PrepareTool(j)
         PROVE  AccessInv'
    <3> DEFINE row == EntersPhase(j, "invoke")
               next == [row EXCEPT !.left = IF @ > 0 THEN @ - 1 ELSE 0]
    <3>1. row \in AccessRow /\ row.phase = "invoke" /\ row.tool = jobs[j].tool
      BY <1>0, EnteredRow, PhaseNames
    <3>2. JobBecomes(j, next) /\ agent' = agent /\ jobs[j].phase = "act" /\ jobs[j].at > Len(Checks["act"])
      BY <2>17 DEF PrepareTool, Passed
    <3> HIDE DEF row
    <3>3. next \in AccessRow /\ next.phase = "invoke" /\ next.tool = jobs[j].tool
      BY <3>1 DEF AccessRow
    <3> HIDE DEF next
    <3>4. /\ AccessRows' /\ jobs'[j] = next /\ mandates' = mandates
          /\ \A i \in Job \ {j} : OnceLate(i)' /\ Named(i)'
      BY <1>0, <2>0, <3>2, <3>3, TaskMoves
    <3>5. jobs[j].at > 6 /\ jobs[j].at \in Nat
      BY <1>0, <3>2 DEF Checks, AccessRows, AccessRow
    <3>6. \A k \in Authority : Asked(j, k)
      BY <3>2, <3>5 DEF Asked, CheckPlace, Authority
    <3>7. \A k \in Authority : late'[j][k] <= late[j][k] /\ late'[j][k] \in Nat /\ late[j][k] = 0
      BY <1>0, <2>0, <3>2, <3>4, <3>6, LateCounts DEF AccessInv, OnceLate, AccessRows, Passed
    <3>8. OnceLate(j)'
      BY <3>7 DEF OnceLate
    <3>9. Named(j)'
      BY <3>2, <3>3, <3>4, <3>5 DEF AccessInv, Named, Found
    <3>10. QED
      BY <3>4, <3>8, <3>9 DEF AccessInv
  <2>18. ASSUME NEW j \in Job, PerformTool(j)
         PROVE  AccessInv'
    <3> DEFINE row == EntersPhase(j, "turn")
               next == [row EXCEPT !.done = @ + 1]
    <3>1. row \in AccessRow /\ row.phase = "turn"
      BY <1>0, EnteredRow, PhaseNames
    <3>2. JobBecomes(j, next) /\ agent' = agent
      BY <2>18 DEF PerformTool
    <3> HIDE DEF row
    <3>3. next \in AccessRow /\ next.phase = "turn"
      BY <3>1 DEF AccessRow
    <3> HIDE DEF next
    <3>4. QED
      BY <1>0, <2>0, <3>2, <3>3, TaskGoesElsewhere
  <2>19. QED
    BY <2>1, <2>2, <2>3, <2>4, <2>5, <2>6, <2>7, <2>8, <2>10, <2>11, <2>13, <2>14, <2>15, <2>16, <2>17, <2>18
       DEF AccessNext
<1>3. QED
  BY <1>1, <1>2

\* However mandates, Agents, accounts and policies change between the checks, no Task
\* starts a second tool on an authority that has ended (runtime.js:171, 298-299).
THEOREM RevocationsBite == AccessSpec => []RevocationBites
<1>1. AccessInv => RevocationBites
  BY DEF AccessInv, OnceLate, Named, Found, RevocationBites
<1>2. QED
  BY <1>1, InitiallyAllowed, AllowedStep, PTL DEF AccessSpec

HIDE AccessAssumption
-----------------------------------------------------------------------------
(* Accounts: a key that ended stays ended *)

CallRow ==
  [op : {"idle", "put", "issue", "rotate", "access"},
   step : {"begin", "write", "current", "allowed", "fresh", "again", "insert"},
   key : Nat, request : KeyRequest \cup {NoOne}, entity : Entity \cup {NoOne}, expected : Nat, late : {"no", "yes"}]

Issued == {x \in PersonalKey : personalKeys[x].state # "absent"}

KeyRows ==
  /\ rows \in [Entity -> [state : {"active", "inactive"}, revision : Nat]]
  /\ personalKeys \in [PersonalKey -> [state : {"absent", "live", "expired", "revoked"}, root : Nat]]
  /\ keyCalls \in [Caller -> CallRow]

\* Keys are issued in the order of their numbers, and replace keys issued before.
InOrder ==
  \A x \in Issued : /\ \A y \in 1..x : y \in Issued
                    /\ personalKeys[x].root \in Issued

\* Of a key and all that replaced it, one is not revoked, live or expired.
Current(k) == personalKeys[k].state \in {"live", "expired"}
OneCurrent ==
  \A k, other \in PersonalKey :
    Current(k) /\ Current(other) /\ personalKeys[k].root = personalKeys[other].root => k = other

\* Ended since it was issued: for good.
Ended(k) == k \in PersonalKey /\ personalKeys[k].state \in {"expired", "revoked"}

\* A sign-in is about an issued key, and the one that was answered late is found out.
Sign(c) ==
  /\ keyCalls[c].op = "rotate" => keyCalls[c].key \in PersonalKey
  /\ keyCalls[c].op = "access" => /\ keyCalls[c].key \in Issued
                                  /\ keyCalls[c].late = "yes" => keyCalls[c].step = "fresh" /\ Ended(keyCalls[c].key)

KeysInv == KeyRows /\ InOrder /\ OneCurrent /\ \A c \in Caller : Sign(c)

USE AccountsAssumption

LEMMA NoCallRow ==
  /\ NoCall \in CallRow /\ NoCall.op = "idle" /\ NoCall.late = "no"
  BY DEF NoCall, CallRow

LEMMA InitiallyNoKeys == AccountsInit => KeysInv
  BY NoCallRow DEF AccountsInit, KeysInv, KeyRows, InOrder, OneCurrent, Sign, Issued, Current, NoKey, PersonalKey

\* The next number is the first that is not issued.
LEMMA NextKey ==
  ASSUME KeyRows, InOrder, NEW k \in PersonalKey, k = Cardinality(Issued) + 1
  PROVE  k \notin Issued /\ \A y \in 1..(k - 1) : y \in Issued
<1>1. Issued \subseteq 1..MaxKeys /\ IsFiniteSet(1..MaxKeys)
  BY FS_Interval DEF Issued, PersonalKey
<1>2. IsFiniteSet(Issued) /\ Cardinality(Issued) \in Nat
  BY <1>1, FS_Subset, FS_CardinalityType
<1>3. k \in Nat /\ k >= 1
  BY <1>2
<1>4. k \notin Issued
  <2> SUFFICES ASSUME k \in Issued PROVE FALSE
    OBVIOUS
  <2>1. 1..k \subseteq Issued
    BY DEF InOrder
  <2>2. Cardinality(1..k) = k
    BY <1>3, FS_Interval
  <2>3. Cardinality(1..k) <= Cardinality(Issued)
    BY <1>2, <2>1, FS_Subset
  <2>4. QED
    BY <1>2, <2>2, <2>3
<1>5. ASSUME NEW y \in 1..(k - 1), y \notin Issued
      PROVE  FALSE
  <2>1. y \in Nat /\ 1 <= y /\ y <= k - 1
    BY <1>3, <1>5
  <2>2. Issued \subseteq 1..(y - 1)
    <3> SUFFICES ASSUME NEW x \in Issued PROVE x \in 1..(y - 1)
      OBVIOUS
    <3>1. x \in Nat /\ x >= 1
      BY <1>1
    <3>2. y \notin 1..x
      BY <1>5 DEF InOrder
    <3>3. QED
      BY <2>1, <3>1, <3>2
  <2>3. IsFiniteSet(1..(y - 1)) /\ Cardinality(1..(y - 1)) = y - 1
    <3> DEFINE z == y - 1
    <3>1. z \in Nat /\ z \in Int /\ 1 \in Int
      BY <2>1
    <3> HIDE DEF z
    <3>2. IsFiniteSet(1..z) /\ Cardinality(1..z) = IF 1 > z THEN 0 ELSE z - 1 + 1
      BY <3>1, FS_Interval
    <3>3. (IF 1 > z THEN 0 ELSE z - 1 + 1) = z
      BY <3>1
    <3>4. QED
      BY <3>2, <3>3 DEF z
  <2>4. Cardinality(Issued) <= y - 1
    BY <2>2, <2>3, FS_Subset
  <2>5. QED
    BY <1>2, <2>1, <2>4
<1>6. QED
  BY <1>4, <1>5

\* A call that moves on without the keys: its sign-in, if it still is one, is the same.
LEMMA CallMoves ==
  ASSUME KeysInv, NEW c \in Caller, NEW call \in CallRow, CallBecomes(c, call), UNCHANGED personalKeys,
         rows' \in [Entity -> [state : {"active", "inactive"}, revision : Nat]],
         call.op = "rotate" => call.key \in PersonalKey,
         call.op = "access" => /\ call.key \in Issued
                               /\ call.late = "yes" => call.step = "fresh" /\ Ended(call.key)
  PROVE  KeysInv'
<1>1. keyCalls' \in [Caller -> CallRow] /\ keyCalls'[c] = call /\ \A d \in Caller \ {c} : keyCalls'[d] = keyCalls[d]
  BY DEF CallBecomes, KeysInv, KeyRows
<1>2. Issued' = Issued /\ \A k : Ended(k)' <=> Ended(k)
  BY DEF Issued, Ended
<1>3. \A d \in Caller : Sign(d)'
  BY <1>1, <1>2 DEF KeysInv, Sign
<1>4. QED
  BY <1>1, <1>2, <1>3 DEF KeysInv, KeyRows, InOrder, OneCurrent, Current

\* Keys that move on: issued stays issued, ended stays ended.
LEMMA SignsStay ==
  ASSUME KeysInv, keyCalls' \in [Caller -> CallRow], Issued \subseteq Issued', \A k : Ended(k) => Ended(k)',
         \A c \in Caller : keyCalls'[c].op \in {"access", "rotate"} => keyCalls'[c] = keyCalls[c]
  PROVE  \A c \in Caller : Sign(c)'
  BY DEF KeysInv, Sign

\* The fields of a call that goes on to another step.
LEMMA StepRow ==
  ASSUME KeysInv, NEW c \in Caller,
         NEW step \in {"begin", "write", "current", "allowed", "fresh", "again", "insert"}
  PROVE  LET call == [keyCalls[c] EXCEPT !.step = step]
         IN  /\ call \in CallRow /\ call.step = step /\ call.op = keyCalls[c].op
             /\ call.key = keyCalls[c].key /\ call.late = keyCalls[c].late
  BY DEF KeysInv, KeyRows, CallRow

\* Steps of calls other than sign-ins, where the keys do not move.
LEMMA OtherCalls ==
  ASSUME KeysInv, NEW c \in Caller, UNCHANGED personalKeys,
         rows' \in [Entity -> [state : {"active", "inactive"}, revision : Nat]],
         \/ EndsCall(c)
         \/ \E step \in {"begin", "write", "current", "allowed", "fresh", "again", "insert"} :
              GoesTo(c, step) /\ (keyCalls[c].op = "access" => keyCalls[c].late = "no")
  PROVE  KeysInv'
<1>1. CASE EndsCall(c)
  BY <1>1, NoCallRow, CallMoves DEF EndsCall
<1>2. ASSUME NEW step \in {"begin", "write", "current", "allowed", "fresh", "again", "insert"},
             GoesTo(c, step), keyCalls[c].op = "access" => keyCalls[c].late = "no"
      PROVE  KeysInv'
  <2> DEFINE call == [keyCalls[c] EXCEPT !.step = step]
  <2>1. /\ call \in CallRow /\ call.step = step /\ call.op = keyCalls[c].op
        /\ call.key = keyCalls[c].key /\ call.late = keyCalls[c].late
    BY StepRow
  <2>2. CallBecomes(c, call)
    BY <1>2 DEF GoesTo
  <2> HIDE DEF call
  <2>3. /\ call.op = "access" => call.key \in Issued /\ call.late = "no"
        /\ call.op = "rotate" => call.key \in PersonalKey
    BY <1>2, <2>1 DEF KeysInv, Sign
  <2>4. QED
    BY <2>1, <2>2, <2>3, CallMoves
<1>3. QED
  BY <1>1, <1>2

\* A call begins.
LEMMA BeginStep ==
  ASSUME KeysInv, NEW c \in Caller, NEW call \in CallRow, BeginsCall(c, call), call.late = "no",
         call.op = "access" => call.key \in Issued, call.op = "rotate" => call.key \in PersonalKey
  PROVE  KeysInv'
  BY CallMoves DEF BeginsCall, KeysInv, KeyRows

\* The same rows of keys but for one that ends.
LEMMA KeyEnds ==
  ASSUME KeysInv, NEW k \in PersonalKey, NEW state \in {"expired", "revoked"}, k \in Issued,
         personalKeys[k].state = "revoked" => state = "revoked",
         personalKeys[k].state = "expired" \/ personalKeys[k].state = "live",
         personalKeys' = [personalKeys EXCEPT ![k].state = state], UNCHANGED <<rows, keyCalls>>
  PROVE  KeysInv'
<1>1. /\ personalKeys'[k].state = state /\ \A x \in PersonalKey : personalKeys'[x].root = personalKeys[x].root
      /\ \A x \in PersonalKey \ {k} : personalKeys'[x] = personalKeys[x]
      /\ personalKeys' \in [PersonalKey -> [state : {"absent", "live", "expired", "revoked"}, root : Nat]]
  BY DEF KeysInv, KeyRows
<1>2. KeyRows'
  BY <1>1 DEF KeysInv, KeyRows
<1>3. Issued' = Issued
  BY <1>1 DEF Issued
<1>4. InOrder'
  BY <1>1, <1>3 DEF KeysInv, InOrder, Issued
<1>5. \A x \in PersonalKey : Current(x)' => Current(x)
  BY <1>1 DEF Current
<1>6. OneCurrent'
  BY <1>1, <1>5 DEF KeysInv, OneCurrent
<1>7. \A x : Ended(x) => Ended(x)'
  BY <1>1 DEF Ended
<1>8. \A c \in Caller : Sign(c)'
  BY <1>2, <1>3, <1>7, SignsStay DEF KeyRows
<1>9. QED
  BY <1>2, <1>4, <1>6, <1>8 DEF KeysInv

\* The insert: a new key under the next number, and the end of the one it replaces.
LEMMA InsertStep ==
  ASSUME KeysInv, NEW c \in Caller, InsertKey(c)
  PROVE  KeysInv' /\ \A x : Ended(x) => Ended(x)'
<1> DEFINE old == keyCalls[c].key
           rotates == keyCalls[c].op = "rotate"
<1>0. UNCHANGED rows /\ keyCalls[c].op \in {"issue", "rotate"} /\ EndsCall(c) /\ old \in Nat
  BY DEF InsertKey, KeysInv, KeyRows, CallRow
<1>1. CASE ~(Replaceable(c) /\ keyCalls[c].request \notin usedRequests)
  <2>1. UNCHANGED personalKeys
    BY <1>1 DEF InsertKey
  <2>2. QED
    BY <1>0, <2>1, OtherCalls DEF KeysInv, KeyRows, Ended
<1>2. CASE Replaceable(c) /\ keyCalls[c].request \notin usedRequests
  <2>1. PICK k \in PersonalKey :
          /\ k = Cardinality({x \in PersonalKey : personalKeys[x].state # "absent"}) + 1
          /\ personalKeys' = [x \in PersonalKey |->
                CASE x = k -> [state |-> "live", root |-> IF rotates THEN personalKeys[old].root ELSE k]
                  [] x # k /\ rotates /\ x = old -> [personalKeys[x] EXCEPT !.state = "revoked"]
                  [] OTHER -> personalKeys[x]]
    BY <1>2 DEF InsertKey
  <2>2. k \notin Issued /\ \A y \in 1..(k - 1) : y \in Issued
    BY <2>1, NextKey DEF KeysInv, Issued
  <2>3. rotates => old \in PersonalKey /\ Current(old) /\ old # k
    BY <1>0, <1>2, <2>2 DEF Replaceable, KeysInv, Sign, Current, Issued
  <2>4. personalKeys'[k] = [state |-> "live", root |-> IF rotates THEN personalKeys[old].root ELSE k]
    BY <2>1
  <2>5. rotates => personalKeys'[old] = [personalKeys[old] EXCEPT !.state = "revoked"]
    BY <2>1, <2>3
  <2>6. \A x \in PersonalKey : x # k /\ ~(rotates /\ x = old) => personalKeys'[x] = personalKeys[x]
    BY <2>1
  <2>7. DOMAIN personalKeys' = PersonalKey /\ personalKeys' = [x \in PersonalKey |-> personalKeys'[x]]
    BY <2>1
  <2> HIDE DEF old, rotates
  <2>8. \A x \in PersonalKey : personalKeys[x].root \in Nat /\ personalKeys[x].state \in {"absent", "live", "expired", "revoked"}
    BY DEF KeysInv, KeyRows
  <2>9. /\ rotates => /\ personalKeys'[old].state = "revoked" /\ personalKeys'[old].root = personalKeys[old].root
                      /\ personalKeys'[old] \in [state : {"absent", "live", "expired", "revoked"}, root : Nat]
        /\ personalKeys'[k].state = "live" /\ k \in Nat /\ personalKeys'[k].root = IF rotates THEN personalKeys[old].root ELSE k
        /\ personalKeys'[k] \in [state : {"absent", "live", "expired", "revoked"}, root : Nat]
    BY <2>3, <2>4, <2>5, <2>8 DEF KeysInv, KeyRows, PersonalKey
  <2>10. KeyRows'
    <3>1. \A x \in PersonalKey : personalKeys'[x] \in [state : {"absent", "live", "expired", "revoked"}, root : Nat]
      BY <2>6, <2>9 DEF KeysInv, KeyRows
    <3>2. keyCalls' \in [Caller -> CallRow]
      BY <1>0, NoCallRow DEF EndsCall, CallBecomes, KeysInv, KeyRows
    <3>3. QED
      BY <1>0, <2>7, <3>1, <3>2 DEF KeysInv, KeyRows
  <2>11. Issued' = Issued \cup {k}
    BY <2>3, <2>6, <2>9 DEF Issued, Current
  <2>12. InOrder'
    <3>1. \A x \in Issued : personalKeys'[x].root = personalKeys[x].root
      BY <2>2, <2>6, <2>9 DEF Issued
    <3>2. personalKeys'[k].root \in Issued'
      <4>1. CASE rotates
        BY <4>1, <2>3, <2>9, <2>11 DEF KeysInv, InOrder, Issued, Current
      <4>2. CASE ~rotates
        BY <4>2, <2>9, <2>11
      <4>3. QED
        BY <4>1, <4>2
    <3>3. \A y \in 1..k : y \in Issued'
      <4> SUFFICES ASSUME NEW y \in 1..k PROVE y \in Issued'
        OBVIOUS
      <4>1. y = k \/ y \in 1..(k - 1)
        BY <2>9
      <4>2. QED
        BY <4>1, <2>2, <2>11
    <3>4. \A x \in Issued : (\A y \in 1..x : y \in Issued) /\ personalKeys[x].root \in Issued
      BY DEF KeysInv, InOrder
    <3> SUFFICES ASSUME NEW x \in Issued'
                 PROVE  (\A y \in 1..x : y \in Issued') /\ personalKeys'[x].root \in Issued'
      BY DEF InOrder
    <3>5. CASE x = k
      BY <3>2, <3>3, <3>5
    <3>6. CASE x \in Issued
      BY <3>1, <3>4, <3>6, <2>11
    <3>7. QED
      BY <2>11, <3>5, <3>6
  <2>13. OneCurrent'
    <3>1. \A x \in PersonalKey \ {k} : Current(x)' => /\ Current(x) /\ personalKeys'[x].root = personalKeys[x].root
                                                     /\ x \in Issued /\ (rotates => x # old)
      BY <2>6, <2>9 DEF Current, Issued
    <3>2. ASSUME NEW x \in PersonalKey \ {k}, Current(x)', personalKeys'[x].root = personalKeys'[k].root
          PROVE  FALSE
      <4>1. CASE rotates
        BY <4>1, <2>3, <2>9, <3>1, <3>2 DEF KeysInv, OneCurrent
      <4>2. CASE ~rotates
        BY <4>2, <2>2, <2>9, <3>1, <3>2 DEF KeysInv, InOrder
      <4>3. QED
        BY <4>1, <4>2
    <3>3. QED
      BY <3>1, <3>2 DEF KeysInv, OneCurrent
  <2>14. \A x : Ended(x) => Ended(x)'
    BY <2>2, <2>6, <2>9 DEF Ended, Issued
  <2>15. \A d \in Caller : Sign(d)'
    <3>1. \A d \in Caller : keyCalls'[d].op \in {"access", "rotate"} => keyCalls'[d] = keyCalls[d]
      BY <1>0, NoCallRow DEF EndsCall, CallBecomes, KeysInv, KeyRows
    <3>2. QED
      BY <2>10, <2>11, <2>14, <3>1, SignsStay DEF KeyRows
  <2>16. QED
    BY <2>10, <2>12, <2>13, <2>14, <2>15 DEF KeysInv
<1>3. QED
  BY <1>1, <1>2

\* The actions, one by one: the invariant is kept, and no key comes back.
LEMMA KeysStep == KeysInv /\ [AccountsNext]_accountVars => KeysInv' /\ \A x : Ended(x) => Ended(x)'
<1> SUFFICES ASSUME KeysInv, [AccountsNext]_accountVars
             PROVE  KeysInv' /\ \A x : Ended(x) => Ended(x)'
  OBVIOUS
<1>0. /\ rows \in [Entity -> [state : {"active", "inactive"}, revision : Nat]]
      /\ \A c \in Caller : keyCalls[c] \in CallRow
      /\ UNCHANGED personalKeys => \A x : Ended(x) => Ended(x)'
  BY DEF KeysInv, KeyRows, Ended
<1>1. CASE UNCHANGED accountVars
  BY <1>0, <1>1 DEF accountVars, KeysInv, KeyRows, InOrder, OneCurrent, Sign, Issued, Current, Ended
<1>2. ASSUME NEW e \in Entity, NEW state \in {"active", "inactive"}, NEW expected \in Nat, PutRow(e, state, expected)
      PROVE  rows' \in [Entity -> [state : {"active", "inactive"}, revision : Nat]]
  <2> DEFINE row == [state |-> state, revision |-> expected + 1]
  <2>1. row \in [state : {"active", "inactive"}, revision : Nat] /\ (rows' = [rows EXCEPT ![e] = row] \/ rows' = rows)
    BY <1>2 DEF PutRow
  <2> HIDE DEF row
  <2>2. QED
    BY <1>0, <2>1
<1>3. ASSUME NEW c \in Caller, NEW e \in Entity, NEW expected \in 0..rows[e].revision, CallDirectory(c, e, expected)
      PROVE  KeysInv' /\ UNCHANGED personalKeys
  <2> DEFINE call == [NoCall EXCEPT !.op = "put", !.entity = e, !.expected = expected]
  <2>1. BeginsCall(c, call) /\ UNCHANGED personalKeys
    BY <1>3 DEF CallDirectory, BeginsCall
  <2>2. call \in CallRow /\ call.op = "put" /\ call.late = "no"
    <3>1. expected \in Nat
      BY <1>0
    <3>2. QED
      BY <3>1, NoCallRow DEF CallRow
  <2> HIDE DEF call
  <2>3. QED
    BY <2>1, <2>2, BeginStep
<1>4. ASSUME NEW c \in Caller, Permitted(c)
      PROVE  KeysInv' /\ UNCHANGED personalKeys
  BY <1>0, <1>4, OtherCalls DEF Permitted, AtStep
<1>5. ASSUME NEW c \in Caller, PutByMember(c)
      PROVE  KeysInv' /\ UNCHANGED personalKeys
  <2>1. PICK state \in {"active", "inactive"} : PutRow(keyCalls[c].entity, state, keyCalls[c].expected)
    BY <1>5 DEF PutByMember
  <2>2. EndsCall(c) /\ UNCHANGED personalKeys
    BY <1>5 DEF PutByMember
  <2>3. rows' \in [Entity -> [state : {"active", "inactive"}, revision : Nat]]
    <3> DEFINE e == keyCalls[c].entity
               row == [state |-> state, revision |-> keyCalls[c].expected + 1]
    <3>1. row \in [state : {"active", "inactive"}, revision : Nat]
      BY <1>0 DEF CallRow
    <3>2. rows' = [rows EXCEPT ![e] = row] \/ rows' = rows
      BY <2>1 DEF PutRow
    <3> HIDE DEF e, row
    <3>3. QED
      BY <1>0, <3>1, <3>2
  <2>4. QED
    BY <2>2, <2>3, OtherCalls
<1>6. ASSUME NEW e \in Entity, NEW state \in {"active", "inactive"}, PutByHost(e, state)
      PROVE  KeysInv' /\ UNCHANGED personalKeys
  <2>1. PutRow(e, state, rows[e].revision) /\ rows[e].revision \in Nat /\ UNCHANGED <<personalKeys, keyCalls>>
    BY <1>0, <1>6 DEF PutByHost
  <2>2. rows' \in [Entity -> [state : {"active", "inactive"}, revision : Nat]]
    BY <1>2, <2>1
  <2>3. QED
    BY <2>1, <2>2 DEF KeysInv, KeyRows, InOrder, OneCurrent, Sign, Issued, Current, Ended
<1>7. ASSUME PolicyChanges
      PROVE  KeysInv' /\ UNCHANGED personalKeys
  BY <1>7 DEF PolicyChanges, KeysInv, KeyRows, InOrder, OneCurrent, Sign, Issued, Current, Ended
<1>8. ASSUME NEW c \in Caller, NEW r \in KeyRequest, CallIssue(c, r)
      PROVE  KeysInv' /\ UNCHANGED personalKeys
  <2> DEFINE call == [NoCall EXCEPT !.op = "issue", !.request = r]
  <2>1. BeginsCall(c, call) /\ UNCHANGED personalKeys
    BY <1>8 DEF CallIssue, BeginsCall
  <2>2. call \in CallRow /\ call.op = "issue" /\ call.late = "no"
    BY DEF NoCall, CallRow
  <2> HIDE DEF call
  <2>3. QED
    BY <2>1, <2>2, BeginStep
<1>9. ASSUME NEW c \in Caller, NEW k \in PersonalKey, NEW r \in KeyRequest, CallRotate(c, k, r)
      PROVE  KeysInv' /\ UNCHANGED personalKeys
  <2> DEFINE call == [NoCall EXCEPT !.op = "rotate", !.key = k, !.request = r]
  <2>1. BeginsCall(c, call) /\ UNCHANGED personalKeys
    BY <1>9 DEF CallRotate, BeginsCall
  <2>2. call \in CallRow /\ call.op = "rotate" /\ call.key = k /\ call.late = "no"
    <3>1. k \in Nat
      BY DEF PersonalKey
    <3>2. QED
      BY <3>1, NoCallRow DEF CallRow
  <2> HIDE DEF call
  <2>3. QED
    BY <2>1, <2>2, BeginStep
<1>10. ASSUME NEW c \in Caller, ManageKeys(c) \/ ReadAllowed(c)
       PROVE  KeysInv' /\ UNCHANGED personalKeys
  BY <1>0, <1>10, OtherCalls DEF ManageKeys, ReadAllowed
<1>11. ASSUME NEW c \in Caller, InsertKey(c)
       PROVE  KeysInv' /\ \A x : Ended(x) => Ended(x)'
  BY <1>11, InsertStep
<1>12. ASSUME NEW c \in Caller, NEW k \in PersonalKey, SignIn(c, k)
       PROVE  KeysInv' /\ UNCHANGED personalKeys
  <2> DEFINE call == [NoCall EXCEPT !.op = "access", !.key = k]
  <2>1. BeginsCall(c, call) /\ UNCHANGED personalKeys /\ k \in Issued
    BY <1>12 DEF SignIn, BeginsCall, Issued
  <2>2. call \in CallRow /\ call.op = "access" /\ call.key = k /\ call.late = "no"
    <3>1. k \in Nat
      BY DEF PersonalKey
    <3>2. QED
      BY <3>1, NoCallRow DEF CallRow
  <2> HIDE DEF call
  <2>3. QED
    BY <2>1, <2>2, BeginStep
<1>13. ASSUME NEW c \in Caller, ReadKey(c) \/ ReadMember(c)
       PROVE  KeysInv' /\ UNCHANGED personalKeys
  <2>1. keyCalls[c].op = "access" /\ keyCalls[c].late = "no" /\ UNCHANGED <<rows, personalKeys>>
    BY <1>0, <1>13 DEF ReadKey, ReadMember, AtStep, KeysInv, Sign, CallRow
  <2>2. QED
    BY <1>0, <1>13, <2>1, OtherCalls DEF ReadKey, ReadMember
<1>14. ASSUME NEW c \in Caller, AskCapabilities(c)
       PROVE  KeysInv' /\ UNCHANGED personalKeys
  <2>1. keyCalls[c].op = "access" /\ UNCHANGED <<rows, personalKeys>> /\ keyCalls[c].key \in Issued
    BY <1>14 DEF AskCapabilities, AtStep, KeysInv, Sign
  <2>2. EndsCall(c) => KeysInv'
    BY <1>0, <2>1, OtherCalls
  <2> DEFINE returned == IF KeyWorks(keyCalls[c].key) THEN "no" ELSE "yes"
             call == [keyCalls[c] EXCEPT !.step = "fresh", !.late = returned]
  <2>3. CallBecomes(c, call) \/ EndsCall(c)
    BY <1>14 DEF AskCapabilities
  <2>4. returned \in {"no", "yes"} /\ (returned = "yes" => Ended(keyCalls[c].key))
    BY <2>1 DEF KeyWorks, Ended, Issued, KeysInv, KeyRows
  <2> HIDE DEF returned
  <2>5. call \in CallRow /\ call.op = "access" /\ call.step = "fresh" /\ call.late = returned /\ call.key = keyCalls[c].key
    BY <1>0, <2>1, <2>4 DEF CallRow
  <2> HIDE DEF call
  <2>6. QED
    BY <1>0, <2>1, <2>2, <2>3, <2>4, <2>5, CallMoves
<1>15. ASSUME NEW c \in Caller, ReadAgain(c)
       PROVE  KeysInv' /\ UNCHANGED personalKeys
  <2>1. keyCalls[c].op = "access" /\ UNCHANGED <<rows, personalKeys>>
    BY <1>15 DEF ReadAgain, AtStep
  <2>2. KeyWorks(keyCalls[c].key) => keyCalls[c].late = "no"
    BY <1>0, <2>1 DEF KeyWorks, KeysInv, Sign, Ended, CallRow
  <2>3. (GoesTo(c, "again") /\ KeyWorks(keyCalls[c].key)) \/ EndsCall(c)
    BY <1>15 DEF ReadAgain, StillWorks
  <2>4. QED
    BY <1>0, <2>1, <2>2, <2>3, OtherCalls
<1>16. ASSUME NEW c \in Caller, Authenticates(c) \/ Rejects(c)
       PROVE  KeysInv' /\ UNCHANGED personalKeys
  BY <1>0, <1>16, OtherCalls DEF Authenticates, Rejects
<1>17. ASSUME NEW k \in PersonalKey, RevokeKey(k) \/ KeyExpires(k)
       PROVE  KeysInv' /\ \A x : Ended(x) => Ended(x)'
  <2>1. PICK state \in {"expired", "revoked"} :
          /\ personalKeys[k].state \in {"live", "expired"} /\ UNCHANGED <<rows, keyCalls>>
          /\ personalKeys' = [personalKeys EXCEPT ![k].state = state]
    BY <1>17 DEF RevokeKey, KeyExpires
  <2>2. k \in Issued
    BY <2>1 DEF Issued
  <2>3. KeysInv'
    BY <2>1, <2>2, KeyEnds
  <2>4. \A x : Ended(x) => Ended(x)'
    BY <2>1 DEF Ended, KeysInv, KeyRows
  <2>5. QED
    BY <2>3, <2>4
<1>18. QED
  BY <1>0, <1>1, <1>3, <1>4, <1>5, <1>6, <1>7, <1>8, <1>9, <1>10, <1>11, <1>12, <1>13, <1>14, <1>15, <1>16, <1>17
     DEF AccountsNext

\* Whoever signs in, rotates and revokes at once: a key that ended is not signed in with,
\* does not come back, and of all that replaced each other one works
\* (personal-keys.js:52-56, personal-key-store.js:18-20).
THEOREM KeysAreHonest == AccountsSpec => KeysHonest
<1>1. ASSUME KeysInv, [AccountsNext]_accountVars
      PROVE  [ /\ \A c \in Caller : Authenticates(c) => keyCalls[c].late = "no"
               /\ \A k \in PersonalKey : personalKeys[k].state \in {"revoked", "expired"} => personalKeys'[k].state # "live"
               /\ \A k, other \in PersonalKey :
                    KeyWorks(k) /\ KeyWorks(other) /\ personalKeys[k].root = personalKeys[other].root
                      => k = other ]_accountVars
  <2>1. \A c \in Caller : Authenticates(c) => keyCalls[c].late = "no"
    BY <1>1 DEF Authenticates, AtStep, KeysInv, KeyRows, CallRow, Sign
  <2>2. \A k \in PersonalKey : personalKeys[k].state \in {"revoked", "expired"} => personalKeys'[k].state # "live"
    BY <1>1, KeysStep DEF Ended
  <2>3. \A k, other \in PersonalKey :
          KeyWorks(k) /\ KeyWorks(other) /\ personalKeys[k].root = personalKeys[other].root => k = other
    BY <1>1 DEF KeysInv, OneCurrent, Current, KeyWorks
  <2>4. QED
    BY <2>1, <2>2, <2>3
<1>2. QED
  BY <1>1, InitiallyNoKeys, KeysStep, PTL DEF AccountsSpec, KeysHonest

HIDE AccountsAssumption
-----------------------------------------------------------------------------
(* Routing: a Task is called under the model it has *)

RouteSteps == {"idle", "policy", "profiles", "probe", "target", "policyCheck", "profilesCheck",
               "gateway", "policyCall", "profilesCall", "key", "provider"}

ModelRow == [id : Profile \cup {NoProfile}, revision : Nat]

RouteRow == [step : RouteSteps, goal : {"none", "create", "execute"}, task : RoutedTask \cup {"none"},
             session : {"none", "held", "lost"}, ids : Seq(Profile), model : ModelRow]

RoutedStates == {"none", "queued", "running", "waiting", "ended"}

RouteRows ==
  /\ deployed \in [Router -> [Profile -> Nat]]
  /\ routePolicy \in Seq(Profile) \ {<<>>}
  /\ routes \in [Router -> RouteRow]
  /\ identities \in [RoutedTask -> ModelRow]
  /\ taskStates \in [RoutedTask -> RoutedStates]

Calling == {"policyCall", "profilesCall", "key", "provider"}

\* A gateway stands for a model as this host runs it.
Built(w) ==
  /\ routes[w].step \in {"policyCheck", "profilesCheck", "gateway"} \cup Calling
  /\ routes[w].model.id \in Platform
  => deployed[w][routes[w].model.id] = routes[w].model.revision

\* Which steps belong to an admission, and which to an execution.
Shaped(w) ==
  /\ routes[w].step \in Calling \/ routes[w].session # "none" => routes[w].goal = "execute"
  /\ routes[w].step = "probe" => routes[w].goal = "create"
  /\ routes[w].step \in {"profiles", "probe"} => routes[w].ids # <<>>

\* An executor that has a Task resolves the model of its row, which nobody changes.
Executes(w) == routes[w].session = "held" =>
  /\ routes[w].task \in RoutedTask /\ taskStates[routes[w].task] = "running"
  /\ routes[w].model = identities[routes[w].task]

OneExecutor == \A w, v \in Router : routes[w].session = "held" /\ routes[v].session = "held" => w = v

\* What the checks of a call found held at some moment since it began.
Held(w) ==
  /\ routes[w].step = "profilesCall" /\ (\E i \in DOMAIN routes[w].ids : routes[w].ids[i] = routes[w].model.id)
       => "policy" \in holding[w]
  /\ routes[w].step \in {"key", "provider"} => "policy" \in holding[w]
  /\ routes[w].step = "provider" => "key" \in holding[w]
  /\ routes[w].step \in Calling => "model" \in holding[w]
  /\ holding[w] \subseteq {"policy", "key", "model"}

RouteSound(w) == Built(w) /\ Shaped(w) /\ Held(w) /\ Executes(w)

RouteInv == RouteRows /\ OneExecutor /\ \A w \in Router : RouteSound(w)

LEMMA NoRouteRow ==
  /\ NoModel \in ModelRow
  /\ NoRoute \in RouteRow /\ NoRoute.step = "idle" /\ NoRoute.model = NoModel /\ NoRoute.goal = "none"
  /\ NoRoute.session = "none"
  BY DEF NoRoute, NoModel, RouteRow, ModelRow, RouteSteps

LEMMA OrdersAreSequences == Orders \subseteq Seq(Profile) \ {<<>>}
<1> SUFFICES ASSUME NEW s \in Orders PROVE s \in Seq(Profile) \ {<<>>}
  OBVIOUS
<1>1. PICK n \in 1..Cardinality(Profile) : s \in [1..n -> Profile]
  BY DEF Orders
<1>2. n \in Nat \ {0}
  BY <1>1
<1>3. QED
  BY <1>1, <1>2

LEMMA PoliciesAreSequences == RoutingPolicy \subseteq Seq(Profile) \ {<<>>}
  BY RoutingBounds, OrdersAreSequences

LEMMA InitiallyRouted == RoutingInit => RouteInv
<1> SUFFICES ASSUME RoutingInit PROVE RouteInv
  OBVIOUS
<1>1. RouteRows
  BY NoRouteRow, PoliciesAreSequences DEF RoutingInit, RouteRows, RoutedStates
<1>2. \A w \in Router : routes[w] = NoRoute /\ holding[w] = {}
  BY DEF RoutingInit
<1>3. \A w \in Router : RouteSound(w)
  BY <1>2, NoRouteRow DEF RouteSound, Built, Shaped, Held, Executes, Calling
<1>4. OneExecutor
  BY <1>2, NoRouteRow DEF OneExecutor
<1>5. QED
  BY <1>1, <1>3, <1>4 DEF RouteInv

\* The history of a call over a step.
Holds == holding' = [w \in Router |-> HoldsThrough(w)]

LEMMA HoldsOn ==
  ASSUME Holds, NEW w \in Router, holding[w] \subseteq {"policy", "key", "model"}
  PROVE  /\ holding'[w] \subseteq {"policy", "key", "model"}
         /\ routes'[w].step \in Calling /\ (routes'[w].step = "policyCall" => routes[w].step = "policyCall")
              => holding[w] \cup HeldNow(w)' \subseteq holding'[w]
         /\ routes'[w].step \in Calling => HeldNow(w)' \subseteq holding'[w]
<1>1. holding'[w] = HoldsThrough(w)
  BY DEF Holds
<1>2. HeldNow(w)' \subseteq {"policy", "key", "model"}
  BY DEF HeldNow
<1>3. QED
  BY <1>1, <1>2 DEF HoldsThrough, Calling

\* The row of the Task that a host executes stays as it is.
RowStays(v) == routes[v].session = "held" =>
  /\ identities'[routes[v].task] = identities[routes[v].task]
  /\ taskStates'[routes[v].task] = taskStates[routes[v].task]

\* A host whose route rests, and that runs on.
LEMMA RouteRests ==
  ASSUME RouteInv, Holds, NEW v \in Router, routes'[v] = routes[v], deployed'[v] = deployed[v], RowStays(v)
  PROVE  RouteSound(v)'
<1>1. Built(v) /\ Shaped(v) /\ Held(v) /\ Executes(v)
  BY DEF RouteInv, RouteSound
<1>2. holding'[v] \subseteq {"policy", "key", "model"} /\ (routes[v].step \in Calling => holding[v] \subseteq holding'[v])
  BY <1>1, HoldsOn DEF Held
<1>3. Held(v)'
  BY <1>1, <1>2 DEF Held, Calling
<1>4. Built(v)' /\ Shaped(v)'
  BY <1>1 DEF Built, Shaped
<1>5. Executes(v)'
  BY <1>1 DEF Executes, RowStays
<1>6. QED
  BY <1>3, <1>4, <1>5 DEF RouteSound

RowsTyped == identities' \in [RoutedTask -> ModelRow] /\ taskStates' \in [RoutedTask -> RoutedStates]

\* A step of the route of one host.
LEMMA RouteMoves ==
  ASSUME RouteInv, Holds, NEW w \in Router, NEW row \in RouteRow, RouteBecomes(w, row), RowsTyped,
         \A v \in Router \ {w} : RowStays(v),
         row.session = "held" => routes[w].session = "held" \/ \A v \in Router : routes[v].session # "held",
         RouteRows' /\ routes'[w] = row => RouteSound(w)'
  PROVE  RouteInv'
<1>1. /\ routes' \in [Router -> RouteRow] /\ routes'[w] = row /\ \A v \in Router \ {w} : routes'[v] = routes[v]
      /\ UNCHANGED <<deployed, routePolicy>>
  BY DEF RouteBecomes, RouteInv, RouteRows
<1>2. RouteRows'
  BY <1>1 DEF RouteInv, RouteRows, RowsTyped
<1>3. \A v \in Router \ {w} : RouteSound(v)'
  BY <1>1, RouteRests
<1>4. OneExecutor'
  <2>1. OneExecutor
    BY DEF RouteInv
  <2>2. QED
    BY <1>1, <2>1 DEF OneExecutor
<1>5. QED
  BY <1>1, <1>2, <1>3, <1>4 DEF RouteInv

\* Before there is a gateway.
LEMMA EarlyStep ==
  ASSUME RouteInv, Holds, NEW w \in Router, NEW row \in RouteRow, RouteBecomes(w, row), RowsTyped,
         \A v \in Router \ {w} : RowStays(v),
         row.session = "held" => routes[w].session = "held" \/ \A v \in Router : routes[v].session # "held",
         row.step \in {"idle", "policy", "profiles", "probe", "target"},
         row.session # "none" => row.goal = "execute",
         row.step = "probe" => row.goal = "create",
         row.step \in {"profiles", "probe"} => row.ids # <<>>,
         row.session = "held" => row.task \in RoutedTask /\ taskStates'[row.task] = "running"
                                 /\ row.model = identities'[row.task]
  PROVE  RouteInv'
<1>1. holding'[w] \subseteq {"policy", "key", "model"}
  BY HoldsOn DEF RouteInv, RouteSound, Held
<1>2. ASSUME routes'[w] = row PROVE RouteSound(w)'
  <2>1. Built(w)' /\ Shaped(w)'
    BY <1>2 DEF Built, Shaped, Calling
  <2>2. Held(w)'
    BY <1>1, <1>2 DEF Held, Calling
  <2>3. Executes(w)'
    BY <1>2 DEF Executes
  <2>4. QED
    BY <2>1, <2>2, <2>3 DEF RouteSound
<1>3. QED
  BY <1>2, RouteMoves

LEMMA RowsRest ==
  ASSUME RouteInv, UNCHANGED <<identities, taskStates>>
  PROVE  RowsTyped /\ \A v \in Router : RowStays(v)
  BY DEF RouteInv, RouteRows, RowsTyped, RowStays

\* The route is given up: a Task that is executed is left in some state.
LEMMA GivesStep ==
  ASSUME RouteInv, Holds, NEW w \in Router, NEW state \in RoutedStates, GivesRouteFor(w, state), UNCHANGED identities
  PROVE  RouteInv'
<1>1. RouteBecomes(w, NoRoute) /\ taskStates' = IF routes[w].session = "held"
                                     THEN [taskStates EXCEPT ![routes[w].task] = state] ELSE taskStates
  BY DEF GivesRouteFor
<1>2. RowsTyped
  BY <1>1 DEF RouteInv, RouteRows, RowsTyped
<1>3. ASSUME NEW v \in Router \ {w} PROVE RowStays(v)
  <2>1. routes[v].session = "held" => routes[w].session # "held"
    BY DEF RouteInv, OneExecutor
  <2>2. QED
    BY <1>1, <2>1 DEF RowStays
<1>4. QED
  BY <1>1, <1>2, <1>3, NoRouteRow, EarlyStep

LEMMA GivesUpStep ==
  ASSUME RouteInv, Holds, NEW w \in Router, GivesRoute(w), UNCHANGED identities
  PROVE  RouteInv'
  BY GivesStep DEF GivesRoute, RoutedStates

\* One step onward: with the gateway as it stands.
LEMMA OnwardStep ==
  ASSUME RouteInv, Holds, NEW w \in Router, NEW step \in RouteSteps, RouteStep(w, step),
         UNCHANGED <<identities, taskStates>>,
         routes[w].step # "idle",
         step \in {"policyCheck", "profilesCheck", "gateway"} \cup Calling =>
           routes[w].step \in {"policyCheck", "profilesCheck", "gateway"} \cup Calling \/
           (routes[w].model.id \in Platform => deployed[w][routes[w].model.id] = routes[w].model.revision),
         step \in Calling => routes[w].goal = "execute" /\ "model" \in holding'[w],
         step \notin {"profiles", "probe", "profilesCall"},
         step \in {"key", "provider"} => "policy" \in holding'[w],
         step = "provider" => "key" \in holding'[w]
  PROVE  RouteInv'
<1> DEFINE row == [routes[w] EXCEPT !.step = step, !.ids = <<>>]
<1>1. row \in RouteRow /\ row.step = step /\ row.goal = routes[w].goal /\ row.task = routes[w].task
      /\ row.session = routes[w].session /\ row.model = routes[w].model
  <2>1. routes[w] \in RouteRow /\ <<>> \in Seq(Profile)
    BY DEF RouteInv, RouteRows
  <2>2. QED
    BY <2>1 DEF RouteRow
<1>2. RouteBecomes(w, row)
  BY DEF RouteStep
<1> HIDE DEF row
<1>3. ASSUME RouteRows', routes'[w] = row
      PROVE  RouteSound(w)'
  <2>1. Built(w) /\ Shaped(w) /\ Held(w) /\ Executes(w)
    BY DEF RouteInv, RouteSound
  <2>2. Built(w)'
    BY <1>1, <1>2, <1>3, <2>1 DEF Built, RouteBecomes
  <2>3. Shaped(w)'
    BY <1>1, <1>3, <2>1 DEF Shaped
  <2>4. holding'[w] \subseteq {"policy", "key", "model"}
    BY <2>1, HoldsOn DEF Held
  <2>5. Held(w)'
    BY <1>1, <1>3, <2>4 DEF Held
  <2>6. Executes(w)'
    BY <1>1, <1>3, <2>1 DEF Executes
  <2>7. QED
    BY <2>2, <2>3, <2>5, <2>6 DEF RouteSound
<1>4. QED
  BY <1>1, <1>2, <1>3, RowsRest, RouteMoves

\* The policy is read: first, for the check of a gateway, and for a call.
LEMMA PolicyStep ==
  ASSUME RouteInv, Holds, NEW w \in Router, ReadPolicy(w)
  PROVE  RouteInv'
<1> DEFINE at == routes[w].step
           step == CASE at = "policy" -> "profiles" [] at = "policyCheck" -> "profilesCheck" [] OTHER -> "profilesCall"
           row == [routes[w] EXCEPT !.ids = routePolicy, !.step = step]
<1>1. at \in {"policy", "policyCheck", "policyCall"} /\ RouteBecomes(w, row)
      /\ UNCHANGED <<identities, taskStates, routePolicy>>
  BY DEF ReadPolicy, RouteBecomes
<1>2. /\ at = "policy" => step = "profiles"
      /\ at = "policyCheck" => step = "profilesCheck"
      /\ at = "policyCall" => step = "profilesCall"
  OBVIOUS
<1> HIDE DEF step
<1>3. step \in RouteSteps
  BY <1>1, <1>2 DEF RouteSteps
<1>4. row \in RouteRow /\ row.step = step /\ row.goal = routes[w].goal /\ row.ids = routePolicy
      /\ row.model = routes[w].model /\ row.task = routes[w].task /\ row.session = routes[w].session
      /\ routePolicy # <<>>
  BY <1>3 DEF RouteInv, RouteRows, RouteRow
<1> HIDE DEF row
<1>5. Built(w) /\ Shaped(w) /\ Held(w) /\ Executes(w)
  BY DEF RouteInv, RouteSound
<1>6. RowsTyped /\ \A v \in Router : RowStays(v)
  BY <1>1, RowsRest
<1>7. CASE at = "policy"
  <2>1. row.session = "held" => row.task \in RoutedTask /\ taskStates'[row.task] = "running"
                                /\ row.model = identities'[row.task]
    BY <1>1, <1>4, <1>5 DEF Executes
  <2>2. row.session # "none" => row.goal = "execute"
    BY <1>4, <1>5 DEF Shaped
  <2>3. QED
    BY <1>1, <1>2, <1>4, <1>6, <1>7, <2>1, <2>2, EarlyStep
<1>8. CASE at # "policy"
  <2>1. ASSUME RouteRows', routes'[w] = row
        PROVE  RouteSound(w)'
    <3>1. UNCHANGED deployed
      BY <1>1 DEF RouteBecomes
    <3>2. Built(w)' /\ Shaped(w)'
      BY <1>1, <1>2, <1>4, <1>5, <1>8, <2>1, <3>1 DEF Built, Shaped, Calling
    <3>3. holding'[w] \subseteq {"policy", "key", "model"}
          /\ (step = "profilesCall" => holding[w] \cup HeldNow(w)' \subseteq holding'[w])
      BY <1>4, <1>5, <2>1, HoldsOn DEF Held, Calling
    <3>4. (\E i \in DOMAIN routePolicy : routePolicy[i] = row.model.id) => "policy" \in HeldNow(w)'
      BY <1>1, <2>1 DEF HeldNow
    <3>5. Held(w)'
      <4>1. step = "profilesCall" => "model" \in holding[w]
        BY <1>1, <1>2, <1>5, <1>8 DEF Held, Calling
      <4>2. QED
        BY <1>1, <1>2, <1>4, <1>8, <2>1, <3>3, <3>4, <4>1 DEF Held, Calling
    <3>6. Executes(w)'
      BY <1>1, <1>4, <1>5, <2>1 DEF Executes
    <3>7. QED
      BY <3>2, <3>5, <3>6 DEF RouteSound
  <2>2. QED
    BY <1>1, <1>4, <1>6, <2>1, RouteMoves
<1>9. QED
  BY <1>7, <1>8

\* What the users, the owners of Tasks and the supervisors of hosts do.
OwnersAct ==
  \/ \E w \in Router : \E p \in Profile :
       SelectProfile(w, p) \/ \E revision \in 1..MaxEndpoint : RestartHost(w, p, revision)
  \/ \E p \in Own : RevokeOwn(p)
  \/ \E order \in RoutingPolicy : ChangeRoutePolicy(order)
  \/ \E t \in RoutedTask :
       \/ RecoverRouted(t) \/ ResumeRouted(t)
       \/ \E model \in [id : Profile, revision : 1..MaxEndpoint] : SwitchModel(t, model)
  \/ \E w \in Router : LoseRouteSession(w)

\* Tasks that no executor has change their rows.
LEMMA RowsChange ==
  ASSUME RouteInv, Holds, NEW t \in RoutedTask, \A w \in Router : ~HasTask(w, t),
         UNCHANGED <<deployed, routePolicy, routes>>, RowsTyped,
         \A u \in RoutedTask \ {t} : identities'[u] = identities[u] /\ taskStates'[u] = taskStates[u]
  PROVE  RouteInv'
<1>1. \A v \in Router : RowStays(v)
  BY DEF RowStays, HasTask, RouteInv, RouteSound, Executes
<1>2. \A v \in Router : RouteSound(v)'
  BY <1>1, RouteRests
<1>3. QED
  BY <1>2 DEF RouteInv, RouteRows, RowsTyped, OneExecutor

LEMMA OwnersStep ==
  ASSUME RouteInv, Holds, OwnersAct
  PROVE  RouteInv'
<1>1. ASSUME UNCHANGED <<routes, deployed, identities, taskStates>>, routePolicy' \in Seq(Profile) \ {<<>>}
      PROVE  RouteInv'
  <2>1. \A v \in Router : RouteSound(v)'
    BY <1>1, RowsRest, RouteRests
  <2>2. QED
    BY <1>1, <2>1 DEF RouteInv, RouteRows, OneExecutor
<1>2. routePolicy \in Seq(Profile) \ {<<>>}
  BY DEF RouteInv, RouteRows
<1>3. ASSUME NEW w \in Router, NEW p \in Profile, SelectProfile(w, p) PROVE RouteInv'
  BY <1>1, <1>2, <1>3 DEF SelectProfile, RoutingAlone
<1>4. ASSUME NEW p \in Own, RevokeOwn(p) PROVE RouteInv'
  BY <1>1, <1>2, <1>4 DEF RevokeOwn, RoutingAlone
<1>5. ASSUME NEW order \in RoutingPolicy, ChangeRoutePolicy(order) PROVE RouteInv'
  BY <1>1, <1>5, PoliciesAreSequences DEF ChangeRoutePolicy, RoutingAlone
<1>6. ASSUME NEW w \in Router, NEW p \in Profile, NEW revision \in 1..MaxEndpoint, RestartHost(w, p, revision)
      PROVE  RouteInv'
  <2>1. /\ deployed' = [deployed EXCEPT ![w][p] = revision] /\ revision \in Nat
        /\ routes' = [routes EXCEPT ![w] = NoRoute] /\ UNCHANGED <<identities, taskStates, routePolicy>>
    BY <1>6 DEF RestartHost
  <2>2. RouteRows'
    BY <2>1, NoRouteRow DEF RouteInv, RouteRows
  <2>3. \A v \in Router \ {w} : routes'[v] = routes[v] /\ deployed'[v] = deployed[v]
    BY <2>1 DEF RouteInv, RouteRows
  <2>4. \A v \in Router \ {w} : RouteSound(v)'
    BY <2>1, <2>3, RowsRest, RouteRests
  <2>5. routes'[w] = NoRoute
    BY <2>1 DEF RouteInv, RouteRows
  <2>6. holding'[w] \subseteq {"policy", "key", "model"}
    BY HoldsOn DEF RouteInv, RouteSound, Held
  <2>7. RouteSound(w)'
    BY <2>5, <2>6, NoRouteRow DEF RouteSound, Built, Shaped, Held, Executes, Calling
  <2>8. OneExecutor'
    BY <2>3, <2>5, NoRouteRow DEF RouteInv, OneExecutor
  <2>9. QED
    BY <2>2, <2>4, <2>7, <2>8 DEF RouteInv
<1>7. ASSUME NEW t \in RoutedTask, RecoverRouted(t) \/ ResumeRouted(t) PROVE RouteInv'
  <2>1. PICK from, to \in {"queued", "running", "waiting"} : TaskBecomesState(t, from, to)
    BY <1>7 DEF RecoverRouted, ResumeRouted
  <2>2. \A w \in Router : ~HasTask(w, t)
    <3>1. CASE RecoverRouted(t)
      BY <3>1 DEF RecoverRouted
    <3>2. CASE ResumeRouted(t)
      BY <3>2 DEF ResumeRouted, TaskBecomesState, HasTask, RouteInv, RouteSound, Executes
    <3>3. QED
      BY <1>7, <3>1, <3>2
  <2>3. UNCHANGED <<deployed, routePolicy, routes, identities>> /\ taskStates' = [taskStates EXCEPT ![t] = to]
    BY <2>1 DEF TaskBecomesState
  <2>4. RowsTyped /\ \A u \in RoutedTask \ {t} : identities'[u] = identities[u] /\ taskStates'[u] = taskStates[u]
    BY <2>1, <2>3 DEF RouteInv, RouteRows, RowsTyped, RoutedStates
  <2>5. QED
    BY <2>2, <2>3, <2>4, RowsChange
<1>8. ASSUME NEW t \in RoutedTask, NEW model \in [id : Profile, revision : 1..MaxEndpoint], SwitchModel(t, model)
      PROVE  RouteInv'
  <2>1. /\ taskStates[t] = "waiting" /\ identities' = [identities EXCEPT ![t] = model]
        /\ UNCHANGED <<deployed, routePolicy, routes, taskStates>>
    BY <1>8 DEF SwitchModel
  <2>2. \A w \in Router : ~HasTask(w, t)
    BY <2>1 DEF HasTask, RouteInv, RouteSound, Executes
  <2>3. model \in ModelRow
    BY DEF ModelRow
  <2>4. RowsTyped /\ \A u \in RoutedTask \ {t} : identities'[u] = identities[u] /\ taskStates'[u] = taskStates[u]
    BY <2>1, <2>3 DEF RouteInv, RouteRows, RowsTyped
  <2>5. QED
    BY <2>1, <2>2, <2>4, RowsChange
<1>9. ASSUME NEW w \in Router, LoseRouteSession(w) PROVE RouteInv'
  <2> DEFINE row == [routes[w] EXCEPT !.session = "lost"]
  <2>1. /\ routes[w].session = "held" /\ routes' = [routes EXCEPT ![w].session = "lost"]
        /\ UNCHANGED <<deployed, routePolicy, identities, taskStates>>
    BY <1>9 DEF LoseRouteSession
  <2>2. row \in RouteRow /\ row.step = routes[w].step /\ row.goal = routes[w].goal /\ row.task = routes[w].task
        /\ row.session = "lost" /\ row.model = routes[w].model /\ row.ids = routes[w].ids
    BY DEF RouteInv, RouteRows, RouteRow
  <2>3. routes'[w] = row /\ routes' \in [Router -> RouteRow] /\ \A v \in Router \ {w} : routes'[v] = routes[v]
    BY <2>1, <2>2 DEF RouteInv, RouteRows
  <2> HIDE DEF row
  <2>4. Built(w) /\ Shaped(w) /\ Held(w)
    BY DEF RouteInv, RouteSound
  <2>5. holding'[w] \subseteq {"policy", "key", "model"} /\ (routes[w].step \in Calling => holding[w] \subseteq holding'[w])
    BY <2>2, <2>3, <2>4, HoldsOn DEF Held
  <2>6. Held(w)'
    BY <2>2, <2>3, <2>4, <2>5 DEF Held, Calling
  <2>7. Built(w)' /\ Shaped(w)' /\ Executes(w)'
    BY <2>1, <2>2, <2>3, <2>4 DEF Built, Shaped, Executes
  <2>8. \A v \in Router \ {w} : RouteSound(v)'
    BY <2>1, <2>3, RowsRest, RouteRests
  <2>9. OneExecutor'
    BY <2>2, <2>3 DEF RouteInv, OneExecutor
  <2>10. RouteRows'
    BY <2>1, <2>3 DEF RouteInv, RouteRows
  <2>11. QED
    BY <2>6, <2>7, <2>8, <2>9, <2>10 DEF RouteInv, RouteSound
<1>10. QED
  BY <1>3, <1>4, <1>5, <1>6, <1>7, <1>8, <1>9 DEF OwnersAct

\* The first profile that answers is the model of the new Task.
LEMMA ProbeStep ==
  ASSUME RouteInv, Holds, NEW w \in Router, ProbeProfile(w)
  PROVE  RouteInv'
<1>1. /\ routes[w] \in RouteRow /\ routes[w].step = "probe" /\ routes[w].ids # <<>> /\ UNCHANGED identities
      /\ routes[w].goal = "create" /\ routes[w].session = "none"
  BY DEF ProbeProfile, RouteInv, RouteRows, RouteSound, Shaped
<1>2. CASE GivesRoute(w)
  BY <1>1, <1>2, GivesUpStep
<1>3. CASE Len(routes[w].ids) > 1 /\ RouteBecomes(w, [routes[w] EXCEPT !.ids = Tail(@)]) /\ UNCHANGED taskStates
  <2> DEFINE row == [routes[w] EXCEPT !.ids = Tail(@)]
  <2>1. Tail(routes[w].ids) \in Seq(Profile) \ {<<>>}
    <3> DEFINE ids == routes[w].ids
               rest == Tail(ids)
    <3>1. ids \in Seq(Profile) /\ Len(ids) > 1
      BY <1>1, <1>3 DEF RouteRow
    <3> HIDE DEF ids
    <3>2. rest \in Seq(Profile) /\ Len(rest) = Len(ids) - 1 /\ Len(ids) \in Nat
      BY <3>1
    <3> HIDE DEF rest
    <3>3. Len(rest) # Len(<<>>)
      BY <3>1, <3>2
    <3>4. QED
      BY <3>2, <3>3 DEF ids, rest
  <2>2. row \in RouteRow /\ row.step = "probe" /\ row.goal = "create" /\ row.ids = Tail(routes[w].ids)
        /\ row.session = "none"
    BY <1>1, <2>1 DEF RouteRow
  <2>3. RouteBecomes(w, row)
    BY <1>3
  <2> HIDE DEF row
  <2>4. QED
    BY <1>1, <1>3, <2>1, <2>2, <2>3, RowsRest, EarlyStep
<1>4. CASE /\ RouteBecomes(w, [routes[w] EXCEPT !.step = "target", !.ids = <<>>, !.model = ModelOf(w, PrimaryOf(w))])
           /\ UNCHANGED taskStates
  <2> DEFINE p == routes[w].ids[1]
             row == [routes[w] EXCEPT !.step = "target", !.ids = <<>>, !.model = ModelOf(w, PrimaryOf(w))]
  <2>1. p \in Profile
    BY <1>1 DEF RouteRow
  <2>2. ModelOf(w, p) \in ModelRow
    BY <2>1 DEF ModelOf, ModelRow, RouteInv, RouteRows
  <2>3. row \in RouteRow /\ row.step = "target" /\ row.goal = "create" /\ row.session = "none"
    <3>1. <<>> \in Seq(Profile) /\ "target" \in RouteSteps /\ ModelOf(w, PrimaryOf(w)) \in ModelRow
      BY <2>2 DEF RouteSteps, PrimaryOf
    <3>2. QED
      BY <1>1, <3>1 DEF RouteRow
  <2>4. RouteBecomes(w, row)
    BY <1>4
  <2> HIDE DEF row
  <2>5. QED
    BY <1>1, <1>4, <2>3, <2>4, RowsRest, EarlyStep
<1>5. QED
  BY <1>2, <1>3, <1>4 DEF ProbeProfile

\* A Task is taken or created: no executor has one, or none has this one.
LEMMA TakeStep ==
  ASSUME RouteInv, Holds, NEW w \in Router, NEW t \in RoutedTask, TakeTask(w, t)
  PROVE  RouteInv'
<1> DEFINE row == [NoRoute EXCEPT !.step = "policy", !.goal = "execute", !.task = t,
                                  !.session = "held", !.model = identities[t]]
<1>1. /\ \A u \in RoutedTask : taskStates[u] # "running"
      /\ taskStates' = [taskStates EXCEPT ![t] = "running"] /\ UNCHANGED identities /\ RouteBecomes(w, row)
  BY DEF TakeTask
<1>2. row \in RouteRow /\ row.step = "policy" /\ row.goal = "execute" /\ row.task = t /\ row.session = "held"
      /\ row.model = identities[t]
  <2>1. NoRoute \in RouteRow /\ identities[t] \in ModelRow /\ "policy" \in RouteSteps
    BY NoRouteRow DEF RouteSteps, RouteInv, RouteRows
  <2>2. QED
    BY <2>1 DEF RouteRow
<1> HIDE DEF row
<1>3. \A v \in Router : routes[v].session # "held"
  BY <1>1 DEF RouteInv, RouteSound, Executes
<1>4. RowsTyped /\ (\A v \in Router : RowStays(v)) /\ taskStates'[t] = "running"
  BY <1>1, <1>3 DEF RouteInv, RouteRows, RowsTyped, RowStays, RoutedStates
<1>5. QED
  BY <1>1, <1>2, <1>3, <1>4, EarlyStep

LEMMA AdmitStep ==
  ASSUME RouteInv, Holds, NEW w \in Router, AdmitTask(w)
  PROVE  RouteInv'
<1> DEFINE t == routes[w].task
<1>1. RouteBecomes(w, NoRoute)
  BY DEF AdmitTask
<1>2. CASE taskStates[t] = "none" /\ t \in RoutedTask
  <2>1. identities' = [identities EXCEPT ![t] = routes[w].model] /\ taskStates' = [taskStates EXCEPT ![t] = "queued"]
    BY <1>2 DEF AdmitTask
  <2>2. routes[w].model \in ModelRow
    BY DEF RouteInv, RouteRows, RouteRow
  <2>3. RowsTyped
    BY <2>1, <2>2 DEF RouteInv, RouteRows, RowsTyped, RoutedStates
  <2>4. \A v \in Router : RowStays(v)
    BY <1>2, <2>1 DEF RowStays, RouteInv, RouteRows, RouteSound, Executes
  <2>5. QED
    BY <1>1, <2>3, <2>4, NoRouteRow, EarlyStep
<1>3. CASE ~(taskStates[t] = "none" /\ t \in RoutedTask)
  <2>1. UNCHANGED <<identities, taskStates>>
    BY <1>3 DEF AdmitTask, RouteInv, RouteRows
  <2>2. QED
    BY <1>1, <2>1, RowsRest, NoRouteRow, EarlyStep
<1>4. QED
  BY <1>2, <1>3

\* One host moves along its route.
LEMMA TaskRouteStep ==
  ASSUME RouteInv, Holds, NEW w \in Router,
         \/ ReadPolicy(w) \/ ReadProfiles(w) \/ ProbeProfile(w) \/ BuildGateway(w)
         \/ CheckProfiles(w) \/ AdmitTask(w) \/ BeginCall(w) \/ ReadOwnKey(w) \/ CallProvider(w) \/ DropsGateway(w)
  PROVE  RouteInv'
<1>0. /\ routes[w] \in RouteRow /\ Built(w) /\ Shaped(w) /\ Held(w) /\ Executes(w)
  BY DEF RouteInv, RouteRows, RouteSound
<1>1. holding'[w] \subseteq {"policy", "key", "model"}
      /\ (routes'[w].step \in Calling /\ routes'[w].step # "policyCall" => holding[w] \cup HeldNow(w)' \subseteq holding'[w])
      /\ (routes'[w].step \in Calling => HeldNow(w)' \subseteq holding'[w])
  BY <1>0, HoldsOn DEF Held
<1>2. \A step : RouteStep(w, step) => /\ routes'[w].step = step /\ routes'[w].model = routes[w].model
                                      /\ routes'[w].task = routes[w].task
                                      /\ UNCHANGED <<ownKeys, deployed>>
  BY <1>0 DEF RouteStep, RouteBecomes, RouteInv, RouteRows, RouteRow
<1>3. CASE ReadPolicy(w)
  BY <1>3, PolicyStep
<1>4. CASE ReadProfiles(w)
  <2>1. routes[w].step = "profiles" /\ UNCHANGED identities
    BY <1>4 DEF ReadProfiles
  <2>2. CASE /\ routes[w].goal = "create" /\ RouteBecomes(w, [routes[w] EXCEPT !.step = "probe"])
             /\ UNCHANGED taskStates
    <3> DEFINE row == [routes[w] EXCEPT !.step = "probe"]
    <3>1. row \in RouteRow /\ row.step = "probe" /\ row.goal = "create" /\ row.ids = routes[w].ids
          /\ row.session = routes[w].session
      BY <1>0, <2>2 DEF RouteRow, RouteSteps
    <3>2. row.ids # <<>> /\ row.session = "none"
      BY <1>0, <2>1, <2>2, <3>1 DEF Shaped
    <3>3. RouteBecomes(w, row)
      BY <2>2
    <3> HIDE DEF row
    <3>4. QED
      BY <2>1, <2>2, <3>1, <3>2, <3>3, RowsRest, EarlyStep
  <2>3. CASE RouteStep(w, "target") /\ UNCHANGED taskStates
    BY <2>1, <2>3, OnwardStep DEF RouteSteps, Calling
  <2>4. QED
    BY <1>4, <2>1, <2>2, <2>3, GivesUpStep DEF ReadProfiles
<1>5. CASE ProbeProfile(w)
  BY <1>5, ProbeStep
<1>6. CASE BuildGateway(w)
  <2>1. routes[w].step = "target" /\ UNCHANGED identities
    BY <1>6 DEF BuildGateway
  <2>2. CASE Usable(w, routes[w].model.id) /\ ModelOf(w, routes[w].model.id) = routes[w].model
    <3>1. routes[w].model.id \in Platform => deployed[w][routes[w].model.id] = routes[w].model.revision
      <4>1. routes[w].model.revision = IF routes[w].model.id \in Own THEN 1 ELSE deployed[w][routes[w].model.id]
        BY <2>2 DEF ModelOf
      <4>2. QED
        BY <2>2, <4>1 DEF Usable
    <3>2. RouteStep(w, "policyCheck") /\ UNCHANGED taskStates
      BY <1>6, <2>2 DEF BuildGateway
    <3>3. QED
      BY <2>1, <3>1, <3>2, OnwardStep DEF RouteSteps, Calling
  <2>3. QED
    BY <1>6, <2>1, <2>2, GivesUpStep DEF BuildGateway
<1>7. CASE CheckProfiles(w)
  <2>1. routes[w].step \in {"profilesCheck", "profilesCall"} /\ UNCHANGED identities
    BY <1>7 DEF CheckProfiles
  <2>2. CASE StillAuthorized(w)
    <3>1. UNCHANGED taskStates
      BY <1>7, <2>2 DEF CheckProfiles
    <3>2. CASE routes[w].step = "profilesCheck"
      <4>1. RouteStep(w, "gateway")
        BY <1>7, <2>2, <3>2 DEF CheckProfiles
      <4>2. QED
        BY <2>1, <3>1, <3>2, <4>1, OnwardStep DEF RouteSteps, Calling
    <3>3. CASE routes[w].step = "profilesCall"
      <4>1. RouteStep(w, "key")
        BY <1>7, <2>2, <3>3 DEF CheckProfiles
      <4>2. routes[w].goal = "execute"
        BY <1>0, <3>3 DEF Shaped, Calling
      <4>3. "policy" \in holding[w] /\ "model" \in holding[w]
        BY <1>0, <2>2, <3>3 DEF Held, StillAuthorized, Authorized, Calling
      <4>4. "policy" \in holding'[w] /\ "model" \in holding'[w]
        BY <1>1, <1>2, <4>1, <4>3 DEF Calling
      <4>5. QED
        BY <2>1, <3>1, <3>3, <4>1, <4>2, <4>4, OnwardStep DEF RouteSteps, Calling
    <3>4. QED
      BY <2>1, <3>2, <3>3
  <2>3. QED
    BY <1>7, <2>1, <2>2, GivesUpStep DEF CheckProfiles
<1>8. CASE AdmitTask(w)
  BY <1>8, AdmitStep
<1>9. CASE BeginCall(w)
  <2>1. /\ routes[w].step = "gateway" /\ routes[w].goal = "execute" /\ routes[w].session = "held"
        /\ RouteStep(w, "policyCall") /\ UNCHANGED <<identities, taskStates>>
    BY <1>9 DEF BeginCall
  <2>2. routes[w].task \in RoutedTask /\ routes[w].model = identities[routes[w].task]
    BY <1>0, <2>1 DEF Executes
  <2>3. "model" \in HeldNow(w)'
    BY <1>2, <2>1, <2>2 DEF HeldNow
  <2>4. "model" \in holding'[w]
    BY <1>1, <1>2, <2>1, <2>3 DEF Calling
  <2>5. QED
    BY <2>1, <2>4, OnwardStep DEF RouteSteps, Calling
<1>10. CASE ReadOwnKey(w)
  <2>1. /\ routes[w].step = "key" /\ UNCHANGED identities
        /\ routes[w].goal = "execute" /\ "policy" \in holding[w] /\ "model" \in holding[w]
    BY <1>0, <1>10 DEF ReadOwnKey, Shaped, Held, Calling
  <2>2. CASE Usable(w, routes[w].model.id)
    <3>1. RouteStep(w, "provider") /\ UNCHANGED taskStates
      BY <1>10, <2>2 DEF ReadOwnKey
    <3>2. "key" \in HeldNow(w)'
      BY <1>2, <2>2, <3>1 DEF Usable, HeldNow
    <3>3. "key" \in holding'[w] /\ "policy" \in holding'[w] /\ "model" \in holding'[w]
      BY <1>1, <1>2, <2>1, <3>1, <3>2 DEF Calling
    <3>4. QED
      BY <2>1, <3>1, <3>3, OnwardStep DEF RouteSteps, Calling
  <2>3. QED
    BY <1>10, <2>1, <2>2, GivesUpStep DEF ReadOwnKey
<1>11. CASE CallProvider(w)
  <2>1. routes[w].step = "provider" /\ RouteStep(w, "gateway") /\ UNCHANGED <<identities, taskStates>>
    BY <1>11 DEF CallProvider
  <2>2. QED
    BY <2>1, OnwardStep DEF RouteSteps, Calling
<1>12. CASE DropsGateway(w)
  BY <1>12, GivesStep DEF DropsGateway, RoutedStates
<1>13. QED
  BY <1>3, <1>4, <1>5, <1>6, <1>7, <1>8, <1>9, <1>10, <1>11, <1>12

LEMMA ResolveStep ==
  ASSUME RouteInv, Holds, NEW w \in Router, NEW t \in RoutedTask, ResolveRoute(w, t)
  PROVE  RouteInv'
<1> DEFINE row == [NoRoute EXCEPT !.step = "policy", !.goal = "create", !.task = t]
<1>1. RouteBecomes(w, row) /\ UNCHANGED <<identities, taskStates>>
  BY DEF ResolveRoute
<1>2. row \in RouteRow /\ row.step = "policy" /\ row.goal = "create" /\ row.session = "none"
  BY NoRouteRow DEF RouteRow, RouteSteps
<1> HIDE DEF row
<1>3. QED
  BY <1>1, <1>2, RowsRest, EarlyStep

LEMMA RouteInvStep == RouteInv /\ [RoutingNext]_routingVars => RouteInv'
<1> SUFFICES ASSUME RouteInv, [RoutingNext]_routingVars PROVE RouteInv'
  OBVIOUS
<1>1. CASE UNCHANGED routingVars
  BY <1>1 DEF routingVars, RouteInv, RouteRows, OneExecutor, RouteSound, Built, Shaped, Held, Executes
<1>2. CASE RoutingNext
  <2>1. Holds
    BY <1>2 DEF RoutingNext, Holds
  <2>2. CASE OwnersAct
    BY <2>1, <2>2, OwnersStep
  <2>3. ASSUME NEW w \in Router, NEW t \in RoutedTask, ResolveRoute(w, t) \/ TakeTask(w, t) PROVE RouteInv'
    BY <2>1, <2>3, ResolveStep, TakeStep
  <2>4. QED
    BY <1>2, <2>1, <2>2, <2>3, TaskRouteStep DEF RoutingNext, OwnersAct
<1>3. QED
  BY <1>1, <1>2

\* The model of a Task changes while no executor has the Task.
LEMMA ModelStays ==
  ASSUME RouteInv, [RoutingNext]_routingVars, NEW t \in RoutedTask, identities'[t] # identities[t], NEW w \in Router
  PROVE  ~HasTask(w, t)
<1>0. taskStates[t] # "running" => ~HasTask(w, t)
  BY DEF RouteInv, RouteSound, Executes, HasTask
<1>1. CASE UNCHANGED routingVars
  BY SMTT(40), <1>1 DEF routingVars
<1>2. CASE RoutingNext
  <2>1. ASSUME NEW v \in Router, AdmitTask(v)
        PROVE  ~HasTask(w, t)
    <3>1. CASE taskStates[routes[v].task] = "none"
      <4>1. identities' = [identities EXCEPT ![routes[v].task] = routes[v].model]
        BY <2>1, <3>1 DEF AdmitTask
      <4>2. routes[v].task = t
        BY <4>1 DEF RouteInv, RouteRows
      <4>3. QED
        BY <1>0, <3>1, <4>2
    <3>2. CASE taskStates[routes[v].task] # "none"
      BY <2>1, <3>2 DEF AdmitTask
    <3>3. QED
      BY <3>1, <3>2
  <2>2. ASSUME NEW u \in RoutedTask, NEW model \in [id : Profile, revision : 1..MaxEndpoint], SwitchModel(u, model)
        PROVE  ~HasTask(w, t)
    <3>1. identities' = [identities EXCEPT ![u] = model] /\ taskStates[u] = "waiting"
      BY <2>2 DEF SwitchModel
    <3>2. u = t
      BY <3>1 DEF RouteInv, RouteRows
    <3>3. QED
      BY <1>0, <3>1, <3>2
  <2>3. ~UNCHANGED identities
    OBVIOUS
  <2>4. QED
    BY ZenonT(60), <1>2, <2>1, <2>2, <2>3 DEF RoutingNext, SelectProfile, RestartHost, RevokeOwn, ChangeRoutePolicy,
       RoutingAlone, RecoverRouted, ResumeRouted, TaskBecomesState, LoseRouteSession, ResolveRoute, TakeTask, ReadPolicy,
       ReadProfiles, ProbeProfile, BuildGateway, CheckProfiles, BeginCall, ReadOwnKey, CallProvider, DropsGateway
<1>3. QED
  BY <1>1, <1>2

\* Whoever switches models, restarts hosts and loses sessions: an executor that has a Task
\* calls the Task's own model, one that lost it calls at most a model the Task had since
\* the call began, and no call is made whose profile was out of the policy, or whose key
\* was revoked, ever since the call began (assistants/model-routing.js:43-52,
\* credentials/user-models.js:63-71, tasks/store.js:144-159).
THEOREM ModelsAreKept == RoutingSpec => TaskKeepsModel
<1>1. ASSUME RouteInv, [RoutingNext]_routingVars
      PROVE  [ /\ \A t \in RoutedTask : identities'[t] # identities[t] => \A w \in Router : ~HasTask(w, t)
               /\ \A w \in Router : CallProvider(w) =>
                    /\ holding[w] = {"policy", "key", "model"}
                    /\ routes[w].session = "held" => routes[w].model = identities[routes[w].task]
                    /\ routes[w].model.id \in Platform =>
                         deployed[w][routes[w].model.id] = routes[w].model.revision ]_routingVars
  <2>1. ASSUME NEW w \in Router, CallProvider(w)
        PROVE  /\ holding[w] = {"policy", "key", "model"}
               /\ routes[w].session = "held" => routes[w].model = identities[routes[w].task]
               /\ routes[w].model.id \in Platform =>
                    deployed[w][routes[w].model.id] = routes[w].model.revision
    <3>1. routes[w].step = "provider"
      BY <2>1 DEF CallProvider
    <3>2. Built(w) /\ Held(w) /\ Executes(w)
      BY <1>1 DEF RouteInv, RouteSound
    <3>3. QED
      BY <3>1, <3>2 DEF Built, Held, Executes, Calling
  <2>2. QED
    BY <1>1, <2>1, ModelStays
<1>2. QED
  BY <1>1, InitiallyRouted, RouteInvStep, PTL DEF RoutingSpec, TaskKeepsModel

-----------------------------------------------------------------------------
(* Subscriptions: the latest of the sources is what is installed *)

SubscriptionRow ==
  [revision : Nat, sequence : Nat, state : {"none", "active", "ended"}, source : SourceEvent \cup {NoSource}]
BoundRow == [payload : SourceFacts, result : SubscriptionRow]
Application == [step : {"resolved"}, source : SourceEvent, payload : SourceFacts, expected : Nat]

SubscriptionRows ==
  /\ sourceFacts \in [SourceEvent -> SourceFacts]
  /\ subscriptions \in [Scope -> SubscriptionRow]
  /\ boundSources \in [SourceEvent -> {NotBound} \cup BoundRow]
  /\ applying \in [Applier -> {Unresolved} \cup Application]

\* What holds of a scope by itself: the three parts are inductive with the types.
LatestOf(s) ==
  /\ \A o \in AppliedTo(s) : boundSources[o].payload.sequence <= subscriptions[s].sequence
  /\ AppliedTo(s) # {} => /\ subscriptions[s].source \in AppliedTo(s)
                          /\ boundSources[subscriptions[s].source].result = subscriptions[s]
  /\ \A r \in 1..subscriptions[s].revision : \E o \in AppliedTo(s) : boundSources[o].result.revision = r

SubscriptionInv == SubscriptionRows /\ \A s \in Scope : LatestOf(s)

LEMMA FreshSubscriptions == SubscriptionsInit => SubscriptionInv
<1> SUFFICES ASSUME SubscriptionsInit PROVE SubscriptionInv
  OBVIOUS
<1>1. SubscriptionRows
  <2>1. NoSubscription \in SubscriptionRow
    BY DEF NoSubscription, SubscriptionRow
  <2>2. QED
    BY <2>1 DEF SubscriptionsInit, SubscriptionRows
<1>2. ASSUME NEW s \in Scope PROVE LatestOf(s)
  BY DEF SubscriptionsInit, LatestOf, AppliedTo, NoSubscription
<1>3. QED
  BY <1>1, <1>2 DEF SubscriptionInv

\* What is installed under a scope has a later position than all that was.
LEMMA InstallStep ==
  ASSUME SubscriptionInv, NEW a \in Applier, InstallSubscription(a)
  PROVE  SubscriptionInv'
<1> DEFINE call == applying[a]
           next == [revision |-> call.expected + 1, sequence |-> call.payload.sequence,
                    state |-> call.payload.state, source |-> call.source]
           bound == [payload |-> call.payload, result |-> next]
<1>1. SubscriptionRows /\ \A x \in Scope : LatestOf(x)
  BY DEF SubscriptionInv
<1>2. call \in Application
  BY <1>1 DEF InstallSubscription, SubscriptionRows
<1>3. /\ call.source \in SourceEvent /\ call.payload \in SourceFacts /\ call.expected \in Nat
      /\ call.payload.scope \in Scope /\ call.payload.sequence \in Nat /\ call.payload.sequence > 0
      /\ call.payload.state \in {"active", "ended"}
  BY <1>2 DEF Application, SourceFacts
<1> PICK s \in Scope : s = call.payload.scope
  BY <1>3
<1>4. next \in SubscriptionRow
  BY <1>3 DEF SubscriptionRow
<1>5. bound \in BoundRow /\ bound.payload = call.payload /\ bound.result = next
  BY <1>3, <1>4 DEF BoundRow
<1>6. Unresolved \notin Application /\ NotBound \notin BoundRow
  BY DEF Unresolved, Application, NotBound, BoundRow, SourceFacts
<1>7. applying' = [applying EXCEPT ![a] = Unresolved] /\ UNCHANGED sourceFacts
  BY DEF InstallSubscription
<1>8. CASE ~(boundSources[call.source] = NotBound /\ Installable(a))
  <2>1. UNCHANGED <<subscriptions, boundSources>>
    BY <1>8 DEF InstallSubscription
  <2>2. SubscriptionRows'
    BY <1>1, <1>7, <2>1 DEF SubscriptionRows
  <2>3. ASSUME NEW x \in Scope PROVE LatestOf(x)'
    BY <1>1, <2>1 DEF LatestOf, AppliedTo
  <2>4. QED
    BY <2>2, <2>3 DEF SubscriptionInv
<1>9. CASE boundSources[call.source] = NotBound /\ Installable(a)
  <2>1. /\ subscriptions' = [subscriptions EXCEPT ![s] = next]
        /\ boundSources' = [boundSources EXCEPT ![call.source] = bound]
    BY <1>9 DEF InstallSubscription
  <2>2. subscriptions[s].revision = call.expected /\ call.payload.sequence > subscriptions[s].sequence
    BY <1>9 DEF Installable
  <2>3. next.revision = call.expected + 1 /\ next.sequence = call.payload.sequence /\ next.source = call.source
    OBVIOUS
  <2> HIDE DEF next, bound, call
  <2>4. SubscriptionRows'
    BY <1>1, <1>3, <1>4, <1>5, <1>7, <2>1 DEF SubscriptionRows
  <2>5. /\ subscriptions'[s] = next /\ \A x \in Scope : x # s => subscriptions'[x] = subscriptions[x]
        /\ boundSources'[call.source] = bound
        /\ \A o \in SourceEvent : o # call.source => boundSources'[o] = boundSources[o]
    BY <1>1, <1>3, <2>1 DEF SubscriptionRows
  <2>6. bound # NotBound /\ bound.payload.scope = s
    BY <1>5, <1>6
  <2>7. AppliedTo(s)' = AppliedTo(s) \cup {call.source} /\ call.source \notin AppliedTo(s)
    BY <1>3, <1>9, <2>5, <2>6 DEF AppliedTo, call
  <2>8. ASSUME NEW x \in Scope, x # s PROVE LatestOf(x)'
    <3>1. AppliedTo(x)' = AppliedTo(x) /\ call.source \notin AppliedTo(x)
      BY <1>3, <1>9, <2>5, <2>6, <2>8 DEF AppliedTo, call
    <3>2. \A o \in AppliedTo(x) : boundSources'[o] = boundSources[o]
      BY <2>5, <3>1 DEF AppliedTo
    <3>3. subscriptions'[x] = subscriptions[x]
      BY <2>5, <2>8
    <3>4. QED
      BY <1>1, <3>1, <3>2, <3>3 DEF LatestOf
  <2>9. LatestOf(s)'
    <3>1. \A o \in AppliedTo(s) : boundSources'[o] = boundSources[o] /\ boundSources[o] \in BoundRow
      BY <1>1, <2>5, <2>7 DEF AppliedTo, SubscriptionRows
    <3>2. LatestOf(s) /\ subscriptions[s] \in SubscriptionRow
      BY <1>1, <1>3 DEF SubscriptionRows
    <3>3. \A o \in AppliedTo(s)' : boundSources'[o].payload.sequence <= subscriptions'[s].sequence
      <4>1. ASSUME NEW o \in AppliedTo(s) PROVE boundSources[o].payload.sequence < call.payload.sequence
        <5>1. boundSources[o].payload.sequence \in Int /\ subscriptions[s].sequence \in Int
          BY <3>1, <3>2, <4>1 DEF BoundRow, SourceFacts, SubscriptionRow
        <5>2. QED
          BY <1>3, <2>2, <3>2, <5>1 DEF LatestOf
      <4>2. ASSUME NEW o \in AppliedTo(s) PROVE boundSources[o].payload.sequence \in Int
        BY <3>1 DEF BoundRow, SourceFacts
      <4>3. QED
        BY <1>3, <1>5, <2>3, <2>5, <2>7, <3>1, <4>1, <4>2
    <3>4. subscriptions'[s].source \in AppliedTo(s)' /\ boundSources'[subscriptions'[s].source].result = subscriptions'[s]
      BY <1>5, <2>3, <2>5, <2>7
    <3>5. ASSUME NEW r \in 1..subscriptions'[s].revision
          PROVE  \E o \in AppliedTo(s)' : boundSources'[o].result.revision = r
      <4>1. subscriptions'[s].revision = subscriptions[s].revision + 1 /\ subscriptions[s].revision \in Nat
        BY <1>3, <2>2, <2>3, <2>5
      <4>2. CASE r \in 1..subscriptions[s].revision
        BY <2>7, <3>1, <3>2, <4>2 DEF LatestOf
      <4>3. CASE r = subscriptions[s].revision + 1
        BY <1>5, <2>2, <2>3, <2>5, <2>7, <4>3
      <4>4. QED
        BY <4>1, <4>2, <4>3
    <3>6. QED
      BY <3>3, <3>4, <3>5 DEF LatestOf
  <2>10. QED
    BY <2>4, <2>8, <2>9 DEF SubscriptionInv
<1>10. QED
  BY <1>8, <1>9

LEMMA SubscriptionsStep == SubscriptionInv /\ [SubscriptionsNext]_subscriptionVars => SubscriptionInv'
<1> SUFFICES ASSUME SubscriptionInv, [SubscriptionsNext]_subscriptionVars PROVE SubscriptionInv'
  OBVIOUS
<1>1. SubscriptionRows /\ \A s \in Scope : LatestOf(s)
  BY DEF SubscriptionInv
<1>2. ASSUME SubscriptionRows', UNCHANGED <<subscriptions, boundSources>> PROVE SubscriptionInv'
  <2>1. ASSUME NEW s \in Scope PROVE LatestOf(s)'
    BY <1>1, <1>2 DEF LatestOf, AppliedTo
  <2>2. QED
    BY <1>2, <2>1 DEF SubscriptionInv
<1>3. CASE UNCHANGED subscriptionVars
  BY <1>1, <1>2, <1>3 DEF subscriptionVars, SubscriptionRows
<1>4. ASSUME NEW o \in SourceEvent, NEW restated \in SourceFacts, FactsChange(o, restated)
      PROVE  SubscriptionInv'
  BY <1>1, <1>2, <1>4 DEF FactsChange, SubscriptionRows
<1>5. ASSUME NEW a \in Applier, NEW o \in SourceEvent,
             NEW expected \in 0..subscriptions[sourceFacts[o].scope].revision, ResolveSource(a, o, expected)
      PROVE  SubscriptionInv'
  <2>1. expected \in Nat
    BY <1>5
  <2>2. [step |-> "resolved", source |-> o, payload |-> sourceFacts[o], expected |-> expected] \in Application
    BY <1>1, <2>1 DEF SubscriptionRows, Application
  <2>3. QED
    BY <1>1, <1>2, <1>5, <2>2 DEF ResolveSource, SubscriptionRows
<1>6. ASSUME NEW a \in Applier, GivesUp(a) PROVE SubscriptionInv'
  BY <1>1, <1>2, <1>6 DEF GivesUp, SubscriptionRows
<1>7. QED
  BY <1>3, <1>4, <1>5, <1>6, InstallStep DEF SubscriptionsNext

LEMMA LatestIsInstalled == SubscriptionInv => LatestSourceRules
  BY DEF SubscriptionInv, LatestOf, LatestSourceRules

-----------------------------------------------------------------------------
(* Knowledge: the catalogue goes forward *)

Snapshot == [version : Nat, text : {"a", "b"}, expires : {"never", "dated"}]
SourceRow == [revision : Nat, chunks : {NoChunks} \cup Snapshot, due : {"no", "yes"}]
ToResolve == [step : {"resolve"}, expected : Nat, since : Nat]
ToReplace == [step : {"replace"}, expected : Nat, since : Nat, snapshot : Snapshot]
ToExpire == [step : {"expire"}, expected : Nat]
IngestionRow == {NoIngestion} \cup ToResolve \cup ToReplace \cup ToExpire
Install == [of : Snapshot, since : Nat, after : Nat]

KnowledgeRows ==
  /\ upstream \in Snapshot /\ source \in SourceRow /\ erasures \in Nat
  /\ ingestions \in [Ingestor -> IngestionRow] /\ ingested \in Seq(Install)

Newest == IF ingested = <<>> THEN 0 ELSE ingested[Len(ingested)].of.version

\* A call whose revision is still the current one was begun after the last erasure, and
\* has read no older version than the one installed last.
CallFits(call, revision, erased, version, newest) ==
  /\ call \in ToResolve \cup ToReplace =>
       call.expected <= revision /\ (call.expected = revision => call.since = erased)
  /\ call \in ToReplace =>
       call.snapshot.version <= version /\ (call.expected = revision => newest <= call.snapshot.version)

Fits(p) == CallFits(ingestions[p], source.revision, erasures, upstream.version, Newest)

\* What was installed last came from upstream and is there until it is erased.
NewestStands ==
  /\ Newest <= upstream.version
  /\ ingested # <<>> => LET last == ingested[Len(ingested)] IN
       last.after <= erasures /\ (last.after = erasures => source.chunks = last.of)

KnowledgeInv ==
  /\ KnowledgeRows /\ NewestStands /\ KnowledgeForward
  /\ \A p \in Ingestor : Fits(p)

LEMMA NoIngestionRow ==
  /\ NoIngestion \in IngestionRow /\ NoIngestion \notin ToResolve \cup ToReplace
  /\ ToResolve \cap ToReplace = {} /\ ToExpire \cap (ToResolve \cup ToReplace) = {}
  BY DEF NoIngestion, IngestionRow, ToResolve, ToReplace, ToExpire

LEMMA NewestIsVersion == KnowledgeRows => Newest \in Nat
<1> SUFFICES ASSUME KnowledgeRows PROVE Newest \in Nat
  OBVIOUS
<1>1. CASE ingested = <<>>
  BY <1>1 DEF Newest
<1>2. CASE ingested # <<>>
  <2>1. ingested[Len(ingested)] \in Install
    BY <1>2 DEF KnowledgeRows
  <2>2. QED
    BY <1>2, <2>1 DEF Newest, Install, Snapshot
<1>3. QED
  BY <1>1, <1>2

LEMMA NothingIngested == KnowledgeInit => KnowledgeInv
<1> SUFFICES ASSUME KnowledgeInit PROVE KnowledgeInv
  OBVIOUS
<1>1. KnowledgeRows
  BY NoIngestionRow DEF KnowledgeInit, KnowledgeRows, Snapshot, SourceRow
<1>2. Newest = 0 /\ NewestStands /\ KnowledgeForward
  BY DEF KnowledgeInit, Newest, NewestStands, KnowledgeForward
<1>3. ASSUME NEW p \in Ingestor PROVE Fits(p)
  BY NoIngestionRow DEF KnowledgeInit, Fits, CallFits
<1>4. QED
  BY <1>1, <1>2, <1>3 DEF KnowledgeInv

\* A step that installs nothing: the row moves to a new revision where it moves, and the
\* calls that are not about to end fit as they did.
LEMMA NothingInstalled ==
  ASSUME KnowledgeInv, KnowledgeRows', UNCHANGED ingested,
         source.revision <= source'.revision, upstream.version <= upstream'.version, erasures <= erasures',
         source.revision = source'.revision => erasures = erasures',
         erasures = erasures' => source'.chunks = source.chunks,
         NEW p, \A q \in Ingestor : q # p => ingestions'[q] = ingestions[q],
         p \in Ingestor => \/ ingestions'[p] = ingestions[p]
                           \/ CallFits(ingestions'[p], source'.revision, erasures', upstream'.version, Newest)
  PROVE  KnowledgeInv'
<1>1. KnowledgeRows /\ NewestStands /\ KnowledgeForward /\ \A q \in Ingestor : Fits(q)
  BY DEF KnowledgeInv
<1>2. Newest' = Newest
  BY DEF Newest
<1>3. /\ source.revision \in Nat /\ source'.revision \in Nat /\ erasures \in Nat /\ erasures' \in Nat
      /\ upstream.version \in Nat /\ upstream'.version \in Nat /\ Newest \in Nat
  BY <1>1, NewestIsVersion DEF KnowledgeRows, SourceRow, Snapshot
<1>4. NewestStands'
  <2>1. Newest' <= upstream'.version
    BY <1>1, <1>2, <1>3 DEF NewestStands
  <2>2. ASSUME ingested # <<>>
        PROVE  LET last == ingested[Len(ingested)] IN
                 last.after <= erasures' /\ (last.after = erasures' => source'.chunks = last.of)
    <3>1. ingested[Len(ingested)] \in Install
      BY <1>1, <2>2 DEF KnowledgeRows
    <3>2. ingested[Len(ingested)].after \in Nat
      BY <3>1 DEF Install
    <3>3. QED
      BY <1>1, <1>3, <2>2, <3>2 DEF NewestStands
  <2>3. QED
    BY <2>1, <2>2 DEF NewestStands
<1>5. KnowledgeForward'
  BY <1>1 DEF KnowledgeForward
<1>6. ASSUME NEW q \in Ingestor PROVE Fits(q)'
  <2>1. CASE ingestions'[q] = ingestions[q]
    <3>1. ingestions[q] \in IngestionRow
      BY <1>1 DEF KnowledgeRows
    <3>2. CallFits(ingestions[q], source.revision, erasures, upstream.version, Newest)
      BY <1>1 DEF Fits
    <3>3. CallFits(ingestions[q], source'.revision, erasures', upstream'.version, Newest)
      BY <1>3, <3>1, <3>2 DEF CallFits, ToResolve, ToReplace, Snapshot
    <3>4. QED
      BY <1>2, <2>1, <3>3 DEF Fits
  <2>2. CASE ingestions'[q] # ingestions[q]
    BY <1>2, <2>2 DEF Fits
  <2>3. QED
    BY <2>1, <2>2
<1>7. QED
  BY <1>4, <1>5, <1>6 DEF KnowledgeInv

LEMMA ReplaceInstalls ==
  ASSUME KnowledgeInv, NEW p \in Ingestor, ReplaceSource(p)
  PROVE  KnowledgeInv'
<1> DEFINE call == ingestions[p]
           row == [revision |-> source.revision + 1, chunks |-> call.snapshot, due |-> "no"]
           install == [of |-> call.snapshot, since |-> call.since, after |-> erasures]
<1>1. KnowledgeRows /\ NewestStands /\ KnowledgeForward /\ \A q \in Ingestor : Fits(q)
  BY DEF KnowledgeInv
<1>2. call.step = "replace" /\ call \in IngestionRow
  BY <1>1 DEF ReplaceSource, KnowledgeRows
<1>3. call \in ToReplace
  BY <1>2 DEF IngestionRow, NoIngestion, ToResolve, ToReplace, ToExpire
<1>4. /\ ingestions' = [ingestions EXCEPT ![p] = NoIngestion] /\ UNCHANGED <<upstream, erasures>>
  BY DEF ReplaceSource, IngestionBecomes
<1>5. /\ ingestions' \in [Ingestor -> IngestionRow] /\ ingestions'[p] = NoIngestion
      /\ \A q \in Ingestor : q # p => ingestions'[q] = ingestions[q]
  BY <1>1, <1>4, NoIngestionRow DEF KnowledgeRows
<1>6. \A r, e, v, n : CallFits(NoIngestion, r, e, v, n)
  BY NoIngestionRow DEF CallFits
<1>7. CASE Repeated(call) \/ ~MayReplace(call) \/ source.revision >= MaxIngested
  <2>1. UNCHANGED <<source, ingested>>
    BY <1>7 DEF ReplaceSource
  <2>2. KnowledgeRows'
    BY <1>1, <1>4, <1>5, <2>1 DEF KnowledgeRows
  <2>3. source.revision \in Nat /\ upstream.version \in Nat /\ erasures \in Nat
    BY <1>1 DEF KnowledgeRows, SourceRow, Snapshot
  <2>4. QED
    BY <1>4, <1>5, <1>6, <2>1, <2>2, <2>3, NothingInstalled
<1>8. CASE ~(Repeated(call) \/ ~MayReplace(call) \/ source.revision >= MaxIngested)
  <2>1. source' = row /\ ingested' = Append(ingested, install)
    BY <1>8 DEF ReplaceSource
  <2>2. /\ call.expected = source.revision
        /\ source.chunks # NoChunks => source.chunks.version # call.snapshot.version \/ source.chunks.text = call.snapshot.text
    BY <1>8 DEF MayReplace, Ingested
  <2>3. /\ source.revision \in Nat /\ upstream.version \in Nat /\ erasures \in Nat /\ Newest \in Nat
        /\ call.snapshot \in Snapshot /\ call.snapshot.version \in Nat
    BY <1>1, <1>3, NewestIsVersion DEF KnowledgeRows, SourceRow, Snapshot, ToReplace
  <2>4. call.since = erasures /\ call.snapshot.version <= upstream.version /\ Newest <= call.snapshot.version
    BY <1>1, <1>3, <2>2 DEF Fits, CallFits
  <2>5. install \in Install /\ row \in SourceRow
    BY <2>3, <2>4 DEF Install, SourceRow
  <2>6. /\ install.of = call.snapshot /\ install.since = erasures /\ install.after = erasures
        /\ row.revision = source.revision + 1 /\ row.chunks = call.snapshot
    BY <2>4
  <2> HIDE DEF install, row, call
  <2>7. /\ ingested' \in Seq(Install) /\ Len(ingested') = Len(ingested) + 1 /\ ingested' # <<>>
        /\ ingested'[Len(ingested) + 1] = install /\ Len(ingested) \in Nat
        /\ \A n \in 1..Len(ingested) : ingested'[n] = ingested[n]
    BY <1>1, <2>1, <2>5 DEF KnowledgeRows
  <2>8. KnowledgeRows'
    BY <1>1, <1>4, <1>5, <2>1, <2>5, <2>7 DEF KnowledgeRows
  <2>9. Newest' = call.snapshot.version /\ source'.revision = source.revision + 1
    BY <2>1, <2>6, <2>7 DEF Newest
  <2>10. NewestStands'
    BY <1>4, <2>1, <2>3, <2>4, <2>6, <2>7, <2>9 DEF NewestStands
  <2>11. KnowledgeForward'
    <3>1. ASSUME NEW n \in 1..Len(ingested') PROVE ingested'[n].since = ingested'[n].after
      BY <1>1, <2>6, <2>7, <3>1 DEF KnowledgeForward
    <3>2. ASSUME NEW n \in 2..Len(ingested')
          PROVE  /\ ingested'[n - 1].of.version <= ingested'[n].of.version
                 /\ ingested'[n - 1].of.version = ingested'[n].of.version /\ ingested'[n - 1].after = ingested'[n].after
                      => ingested'[n - 1].of.text = ingested'[n].of.text
      <4>1. CASE n \in 2..Len(ingested)
        <5>1. ingested'[n] = ingested[n] /\ ingested'[n - 1] = ingested[n - 1]
          BY <2>7, <4>1
        <5>2. QED
          BY <1>1, <4>1, <5>1 DEF KnowledgeForward
      <4>2. CASE n = Len(ingested) + 1
        <5>1. ingested # <<>> /\ n - 1 = Len(ingested) /\ n - 1 \in 1..Len(ingested)
          BY <2>7, <3>2, <4>2
        <5>2. ingested'[n] = install /\ ingested'[n - 1] = ingested[Len(ingested)] /\ ingested[Len(ingested)] \in Install
          BY <1>1, <2>7, <4>2, <5>1 DEF KnowledgeRows
        <5>3. ingested[Len(ingested)].of.version = Newest
          BY <5>1 DEF Newest
        <5>4. ingested[Len(ingested)].after = erasures => source.chunks = ingested[Len(ingested)].of
          BY <1>1, <5>1 DEF NewestStands
        <5>5. ingested[Len(ingested)].of # NoChunks
          BY <5>2, KnowledgeAssumption DEF Install, Snapshot
        <5>6. QED
          BY <2>2, <2>4, <2>6, <5>2, <5>3, <5>4, <5>5
      <4>3. QED
        BY <2>7, <3>2, <4>1, <4>2
    <3>3. QED
      BY <3>1, <3>2 DEF KnowledgeForward
  <2>12. ASSUME NEW q \in Ingestor PROVE Fits(q)'
    <3>1. CASE q = p
      BY <1>5, <1>6, <3>1 DEF Fits
    <3>2. CASE q # p
      <4>1. ingestions'[q] = ingestions[q] /\ ingestions[q] \in IngestionRow
        BY <1>1, <1>5, <3>2 DEF KnowledgeRows
      <4>2. CallFits(ingestions[q], source.revision, erasures, upstream.version, Newest)
        BY <1>1 DEF Fits
      <4>3. CallFits(ingestions[q], source.revision + 1, erasures, upstream.version, call.snapshot.version)
        BY <2>3, <4>1, <4>2 DEF CallFits, ToResolve, ToReplace, Snapshot
      <4>4. QED
        BY <1>4, <2>9, <4>1, <4>3 DEF Fits
    <3>3. QED
      BY <3>1, <3>2
  <2>13. QED
    BY <2>8, <2>10, <2>11, <2>12 DEF KnowledgeInv
<1>9. QED
  BY <1>7, <1>8

LEMMA KnowledgeStep == KnowledgeInv /\ [KnowledgeNext]_knowledgeVars => KnowledgeInv'
<1> SUFFICES ASSUME KnowledgeInv, [KnowledgeNext]_knowledgeVars PROVE KnowledgeInv'
  OBVIOUS
<1>1. KnowledgeRows /\ NewestStands /\ \A q \in Ingestor : Fits(q)
  BY DEF KnowledgeInv
<1>2. /\ source.revision \in Nat /\ upstream.version \in Nat /\ erasures \in Nat
      /\ upstream \in Snapshot /\ source \in SourceRow
  BY <1>1 DEF KnowledgeRows, SourceRow, Snapshot
<1>3. CASE UNCHANGED knowledgeVars
  <2>1. KnowledgeRows' /\ UNCHANGED <<upstream, source, ingestions, erasures, ingested>>
    BY <1>1, <1>3 DEF knowledgeVars, KnowledgeRows
  <2>2. QED
    BY <1>2, <2>1, NothingInstalled
<1>4. CASE UpstreamChanges
  <2>1. UNCHANGED <<source, ingestions, erasures, ingested>>
    BY <1>4 DEF UpstreamChanges
  <2>2. upstream' \in Snapshot /\ upstream.version <= upstream'.version
    <3>1. CASE upstream' = [upstream EXCEPT !.version = @ + 1, !.text = "a"]
      <4>1. upstream' = [version |-> upstream.version + 1, text |-> "a", expires |-> upstream.expires]
        BY <1>2, <3>1 DEF Snapshot
      <4>2. QED
        BY <1>2, <4>1 DEF Snapshot
    <3>2. CASE upstream' = [upstream EXCEPT !.text = "b"]
      BY <1>2, <3>2 DEF Snapshot
    <3>3. CASE upstream' = [upstream EXCEPT !.expires = "dated"]
      BY <1>2, <3>3 DEF Snapshot
    <3>4. QED
      BY <1>4, <3>1, <3>2, <3>3 DEF UpstreamChanges
  <2>3. KnowledgeRows'
    BY <1>1, <2>1, <2>2 DEF KnowledgeRows
  <2>4. QED
    BY <1>2, <2>1, <2>2, <2>3, NothingInstalled
<1>5. CASE WithdrawSource
  <2>1. UNCHANGED <<upstream, ingestions, ingested>> /\ source' = Erased /\ erasures' = erasures + 1
    BY <1>5 DEF WithdrawSource
  <2>2. source' \in SourceRow /\ source'.revision = source.revision + 1
    BY <1>2, <2>1 DEF Erased, SourceRow
  <2>3. KnowledgeRows'
    BY <1>1, <1>2, <2>1, <2>2 DEF KnowledgeRows
  <2>4. QED
    BY <1>2, <2>1, <2>2, <2>3, NothingInstalled
<1>6. CASE ExpiryPasses
  <2>1. UNCHANGED <<upstream, ingestions, erasures, ingested>> /\ source' = [source EXCEPT !.due = "yes"]
    BY <1>6 DEF ExpiryPasses
  <2>2. source' \in SourceRow /\ source'.revision = source.revision /\ source'.chunks = source.chunks
    BY <1>2, <2>1 DEF SourceRow
  <2>3. KnowledgeRows'
    BY <1>1, <2>1, <2>2 DEF KnowledgeRows
  <2>4. QED
    BY <1>2, <2>1, <2>2, <2>3, NothingInstalled
<1>7. ASSUME NEW p \in Ingestor, NEW call \in IngestionRow, ingestions' = [ingestions EXCEPT ![p] = call],
             UNCHANGED <<upstream, source, erasures, ingested>>,
             CallFits(call, source.revision, erasures, upstream.version, Newest)
      PROVE  KnowledgeInv'
  <2>1. /\ ingestions' \in [Ingestor -> IngestionRow] /\ ingestions'[p] = call
        /\ \A q \in Ingestor : q # p => ingestions'[q] = ingestions[q]
    BY <1>1, <1>7 DEF KnowledgeRows
  <2>2. KnowledgeRows'
    BY <1>1, <1>7, <2>1 DEF KnowledgeRows
  <2>3. QED
    BY <1>2, <1>7, <2>1, <2>2, NothingInstalled
<1>8. \A r, e, v, n : CallFits(NoIngestion, r, e, v, n)
  BY NoIngestionRow DEF CallFits
<1>9. ASSUME NEW p \in Ingestor, BeginSync(p) PROVE KnowledgeInv'
  <2>1. PICK expected \in 0..source.revision :
          IngestBegins(p, [step |-> "resolve", expected |-> expected, since |-> erasures])
    BY <1>9 DEF BeginSync
  <2> DEFINE call == [step |-> "resolve", expected |-> expected, since |-> erasures]
  <2>2. call \in ToResolve /\ call \notin ToReplace /\ call \in IngestionRow
    BY <1>2, <2>1 DEF ToResolve, ToReplace, IngestionRow
  <2>3. CallFits(call, source.revision, erasures, upstream.version, Newest)
    BY <1>2, <2>1, <2>2 DEF CallFits
  <2>4. ingestions' = [ingestions EXCEPT ![p] = call] /\ UNCHANGED <<upstream, source, erasures, ingested>>
    BY <2>1 DEF IngestBegins, IngestionBecomes
  <2> HIDE DEF call
  <2>5. QED
    BY <1>7, <2>2, <2>3, <2>4
<1>10. ASSUME NEW p \in Ingestor, ResolveUpstream(p) PROVE KnowledgeInv'
  <2> DEFINE was == ingestions[p]
             call == [step |-> "replace", expected |-> was.expected, since |-> was.since, snapshot |-> upstream]
  <2>1. was.step = "resolve" /\ was \in IngestionRow
    BY <1>1, <1>10 DEF ResolveUpstream, KnowledgeRows
  <2>2. was \in ToResolve
    BY <2>1 DEF IngestionRow, NoIngestion, ToResolve, ToReplace, ToExpire
  <2>3. was.expected \in Nat /\ was.since \in Nat
    BY <2>2 DEF ToResolve
  <2>4. call \in ToReplace /\ call \in IngestionRow
    BY <1>2, <2>3 DEF ToReplace, IngestionRow
  <2>5. CallFits(call, source.revision, erasures, upstream.version, Newest)
    BY <1>1, <1>2, <2>2 DEF CallFits, Fits, NewestStands
  <2>6. ingestions' = [ingestions EXCEPT ![p] = call] /\ UNCHANGED <<upstream, source, erasures, ingested>>
    BY <1>10 DEF ResolveUpstream, IngestionOnly, IngestionBecomes
  <2> HIDE DEF call
  <2>7. QED
    BY <1>7, <2>4, <2>5, <2>6
<1>11. ASSUME NEW p \in Ingestor, IngestionBreaks(p) PROVE KnowledgeInv'
  BY <1>7, <1>8, <1>11, NoIngestionRow DEF IngestionBreaks, IngestionOnly, IngestionBecomes
<1>12. ASSUME NEW p \in Ingestor, ListExpired(p) PROVE KnowledgeInv'
  <2> DEFINE call == [step |-> "expire", expected |-> source.revision]
  <2>1. call \in ToExpire /\ call \in IngestionRow
    BY <1>2 DEF ToExpire, IngestionRow
  <2>2. CallFits(call, source.revision, erasures, upstream.version, Newest)
    BY <2>1, NoIngestionRow DEF CallFits
  <2>3. ingestions' = [ingestions EXCEPT ![p] = call] /\ UNCHANGED <<upstream, source, erasures, ingested>>
    BY <1>12 DEF ListExpired, IngestBegins, IngestionBecomes
  <2> HIDE DEF call
  <2>4. QED
    BY <1>7, <2>1, <2>2, <2>3
<1>13. ASSUME NEW p \in Ingestor, ExpireSource(p) PROVE KnowledgeInv'
  <2>1. ingestions' = [ingestions EXCEPT ![p] = NoIngestion] /\ UNCHANGED <<upstream, ingested>>
    BY <1>13 DEF ExpireSource, IngestionBecomes
  <2>2. CASE UNCHANGED <<source, erasures>>
    BY <1>7, <1>8, <2>1, <2>2, NoIngestionRow
  <2>3. CASE source' = Erased /\ erasures' = erasures + 1
    <3>1. source' \in SourceRow /\ source'.revision = source.revision + 1
      BY <1>2, <2>3 DEF Erased, SourceRow
    <3>2. /\ ingestions' \in [Ingestor -> IngestionRow] /\ ingestions'[p] = NoIngestion
          /\ \A q \in Ingestor : q # p => ingestions'[q] = ingestions[q]
      BY <1>1, <2>1, NoIngestionRow DEF KnowledgeRows
    <3>3. KnowledgeRows'
      BY <1>1, <1>2, <2>1, <2>3, <3>1, <3>2 DEF KnowledgeRows
    <3>4. QED
      BY <1>2, <1>8, <2>1, <2>3, <3>1, <3>2, <3>3, NothingInstalled
  <2>4. QED
    BY <1>13, <2>2, <2>3 DEF ExpireSource
<1>14. QED
  BY <1>3, <1>4, <1>5, <1>6, <1>9, <1>10, <1>11, <1>12, <1>13, ReplaceInstalls DEF KnowledgeNext

-----------------------------------------------------------------------------
(* The registry: presence, and the health that is told of it *)

Report == [generation : Nat, sequence : Nat, state : ReportState]
Signal == [generation : Nat, sequence : Nat, state : ReportState \cup {"unknown"}, valid : {"never", "no", "yes"}]
Gathered == [step : {"gathered"}, source : {"complete", "partial", "failed"}, signal : Signal, seen : Nat]

RegistryRows ==
  /\ presence \in Signal /\ serving \in [Server -> [generation : Nat, sequence : Nat]]
  /\ reports \subseteq Report /\ accepted \in Seq(Report) /\ look \in {NoLook} \cup Gathered

Agrees(report, signal) ==
  report.generation = signal.generation /\ report.sequence = signal.sequence /\ report.state = signal.state

InTurn == \A i, j \in 1..Len(accepted) : i < j => Older(accepted[i], accepted[j])

LastAccepted == accepted[Len(accepted)]

\* The presence is the last report, or no report of its generation has come.
PresenceIsLast ==
  /\ accepted # <<>> => LastAccepted.generation <= presence.generation
  /\ \/ accepted # <<>> /\ Agrees(LastAccepted, presence)
     \/ /\ accepted # <<>> => LastAccepted.generation < presence.generation
        /\ presence.state = "unknown" /\ presence.valid = "never"

\* What a look has in hand is the report that was the last one when it was taken.
LookIsTrue ==
  look.step = "gathered" /\ look.signal.valid = "yes" =>
    look.seen \in 1..Len(accepted) /\ Agrees(accepted[look.seen], look.signal)

RegistryInv == RegistryRows /\ InTurn /\ PresenceIsLast /\ LookIsTrue

LEMMA OlderIsOrder ==
  ASSUME NEW r \in Report, NEW s \in Report, NEW t \in Report
  PROVE  /\ ~Older(r, r) /\ ~(Older(r, s) /\ Older(s, r))
         /\ Older(r, s) /\ Older(s, t) => Older(r, t)
  BY DEF Older, Report

LEMMA NobodyPresent == RegistryInit => RegistryInv
<1> SUFFICES ASSUME RegistryInit PROVE RegistryInv
  OBVIOUS
<1>1. RegistryRows
  <2>1. presence \in Signal
    BY DEF RegistryInit, Silence, Signal
  <2>2. QED
    BY <2>1 DEF RegistryInit, RegistryRows
<1>2. QED
  BY <1>1 DEF RegistryInit, RegistryInv, InTurn, PresenceIsLast, LookIsTrue, Silence, NoLook

\* What goes on between executors and looks, while no report is accepted.
LEMMA NothingAccepted ==
  ASSUME RegistryInv, RegistryRows', UNCHANGED accepted, PresenceIsLast', LookIsTrue'
  PROVE  RegistryInv'
  BY DEF RegistryInv, InTurn

LEMMA HeartbeatStep ==
  ASSUME RegistryInv, NEW report \in reports, Heartbeat(report)
  PROVE  RegistryInv'
<1> DEFINE signal == [generation |-> report.generation, sequence |-> report.sequence, state |-> report.state, valid |-> "yes"]
<1>1. RegistryRows /\ InTurn /\ PresenceIsLast /\ LookIsTrue
  BY DEF RegistryInv
<1>2. /\ presence' = signal /\ accepted' = Append(accepted, report) /\ UNCHANGED <<serving, reports, look>>
      /\ report.generation = presence.generation /\ presence.sequence < report.sequence
  BY DEF Heartbeat, Succeeds
<1>3. /\ report \in Report /\ report.generation \in Nat /\ report.sequence \in Nat /\ report.state \in ReportState
      /\ presence.generation \in Nat /\ presence.sequence \in Nat
  BY <1>1 DEF RegistryRows, Report, Signal
<1>4. signal \in Signal /\ Agrees(report, signal) /\ signal.generation = report.generation
  BY <1>3 DEF Signal, Agrees
<1> HIDE DEF signal
<1>5. /\ accepted' \in Seq(Report) /\ Len(accepted') = Len(accepted) + 1 /\ Len(accepted) \in Nat
      /\ accepted'[Len(accepted) + 1] = report /\ accepted' # <<>>
      /\ \A n \in 1..Len(accepted) : accepted'[n] = accepted[n] /\ accepted[n] \in Report
  BY <1>1, <1>2, <1>3 DEF RegistryRows
<1>6. RegistryRows'
  BY <1>1, <1>2, <1>4, <1>5 DEF RegistryRows
<1>7. accepted # <<>> => Older(LastAccepted, report) /\ Len(accepted) \in 1..Len(accepted)
  <2>1. SUFFICES ASSUME accepted # <<>> PROVE Older(LastAccepted, report) /\ Len(accepted) \in 1..Len(accepted)
    OBVIOUS
  <2>2. Len(accepted) \in 1..Len(accepted) /\ LastAccepted \in Report
    BY <1>1, <2>1 DEF RegistryRows, LastAccepted
  <2>3. QED
    BY <1>1, <1>2, <1>3, <2>1, <2>2 DEF PresenceIsLast, Agrees, Older, Report
<1>8. InTurn'
  <2> SUFFICES ASSUME NEW i \in 1..Len(accepted'), NEW j \in 1..Len(accepted'), i < j
               PROVE  Older(accepted'[i], accepted'[j])
    BY DEF InTurn, Older
  <2>1. CASE j \in 1..Len(accepted)
    <3>1. i \in 1..Len(accepted)
      BY <1>5, <2>1
    <3>2. QED
      BY <1>1, <1>5, <2>1, <3>1 DEF InTurn
  <2>2. CASE j = Len(accepted) + 1
    <3>1. i \in 1..Len(accepted) /\ accepted # <<>>
      BY <1>1, <1>5, <2>2 DEF RegistryRows
    <3>2. i = Len(accepted) \/ Older(accepted[i], LastAccepted)
      BY <1>1, <1>5, <1>7, <3>1 DEF InTurn, LastAccepted
    <3>3. LastAccepted \in Report /\ accepted[i] \in Report
      BY <1>5, <1>7, <3>1 DEF LastAccepted
    <3>4. Older(accepted[i], report)
      BY <1>3, <1>7, <3>1, <3>2, <3>3, OlderIsOrder DEF LastAccepted
    <3>5. QED
      BY <1>5, <2>2, <3>1, <3>4
  <2>3. QED
    BY <1>5, <2>1, <2>2
<1>9. LastAccepted' = report
  BY <1>5 DEF LastAccepted
<1>10. PresenceIsLast'
  BY <1>2, <1>3, <1>4, <1>5, <1>9 DEF PresenceIsLast, Agrees
<1>11. LookIsTrue'
  BY <1>1, <1>2, <1>5 DEF LookIsTrue, Agrees
<1>12. QED
  BY <1>6, <1>8, <1>10, <1>11 DEF RegistryInv

LEMMA RegistryStep == RegistryInv /\ [RegistryNext]_registryVars => RegistryInv'
<1> SUFFICES ASSUME RegistryInv, [RegistryNext]_registryVars PROVE RegistryInv'
  OBVIOUS
<1>1. RegistryRows /\ PresenceIsLast /\ LookIsTrue
  BY DEF RegistryInv
<1>2. presence.generation \in Nat /\ presence.sequence \in Nat /\ presence \in Signal
  BY <1>1 DEF RegistryRows, Signal
<1>3. ASSUME RegistryRows', UNCHANGED <<presence, accepted, look>> PROVE RegistryInv'
  <2>1. PresenceIsLast' /\ LookIsTrue'
    BY <1>1, <1>3 DEF PresenceIsLast, LookIsTrue, LastAccepted, Agrees
  <2>2. QED
    BY <1>3, <2>1, NothingAccepted
<1>4. CASE UNCHANGED registryVars
  BY <1>1, <1>3, <1>4 DEF registryVars, RegistryRows
<1>5. ASSUME NEW boundary \in Boundary, NEW described \in Described, Register(boundary, described) PROVE RegistryInv'
  BY <1>1, <1>3, <1>5 DEF Register, RegistryRows
<1>6. ASSUME NEW p \in Server, StartExecutor(p) PROVE RegistryInv'
  <2> DEFINE signal == [generation |-> presence.generation + 1, sequence |-> 0, state |-> "unknown", valid |-> "never"]
             held == [generation |-> presence.generation + 1, sequence |-> 0]
  <2>1. presence' = signal /\ serving' \in {serving, [serving EXCEPT ![p] = held]} /\ UNCHANGED <<reports, accepted, look>>
    BY <1>6 DEF StartExecutor
  <2>2. /\ signal \in Signal /\ signal.generation = presence.generation + 1
        /\ signal.state = "unknown" /\ signal.valid = "never" /\ held \in [generation : Nat, sequence : Nat]
    BY <1>2 DEF Signal
  <2> HIDE DEF signal, held
  <2>3. RegistryRows'
    BY <1>1, <2>1, <2>2 DEF RegistryRows
  <2>4. PresenceIsLast'
    <3>1. accepted # <<>> => LastAccepted.generation \in Nat
      <4>1. accepted # <<>> => LastAccepted \in Report
        BY <1>1 DEF RegistryRows, LastAccepted
      <4>2. QED
        BY <4>1 DEF Report
    <3>2. accepted # <<>> => LastAccepted.generation <= presence.generation
      BY <1>1 DEF PresenceIsLast
    <3>3. presence'.generation = presence.generation + 1 /\ presence'.state = "unknown" /\ presence'.valid = "never"
      BY <2>1, <2>2
    <3>4. LastAccepted' = LastAccepted /\ accepted' = accepted
      BY <2>1 DEF LastAccepted
    <3>5. QED
      BY <1>2, <3>1, <3>2, <3>3, <3>4 DEF PresenceIsLast
  <2>5. LookIsTrue'
    BY <1>1, <2>1 DEF LookIsTrue, Agrees
  <2>6. QED
    BY <2>1, <2>3, <2>4, <2>5, NothingAccepted
<1>7. ASSUME NEW p \in Server, NEW state \in ReportState, SendReport(p, state) PROVE RegistryInv'
  <2> DEFINE report == [generation |-> serving[p].generation, sequence |-> serving[p].sequence + 1, state |-> state]
  <2>1. serving[p].generation \in Nat /\ serving[p].sequence \in Nat
    BY <1>1 DEF RegistryRows
  <2>2. report \in Report
    BY <2>1 DEF Report
  <2>3. /\ reports' = reports \cup {report} /\ UNCHANGED <<presence, accepted, look>>
        /\ serving' = [serving EXCEPT ![p].sequence = @ + 1]
    BY <1>7 DEF SendReport
  <2> HIDE DEF report
  <2>4. RegistryRows'
    BY <1>1, <2>1, <2>2, <2>3 DEF RegistryRows
  <2>5. QED
    BY <1>3, <2>3, <2>4
<1>8. CASE PresenceLapses
  <2>1. /\ presence.valid = "yes" /\ presence' = Lapsed(presence) /\ UNCHANGED <<serving, reports, accepted>>
        /\ look' = look \/ (look.step = "gathered" /\ look' = [look EXCEPT !.signal = Lapsed(@)])
    BY <1>8 DEF PresenceLapses
  <2>2. ASSUME NEW signal \in Signal
        PROVE  /\ Lapsed(signal) \in Signal /\ Lapsed(signal).valid = "no"
               /\ \A report : Agrees(report, signal) => Agrees(report, Lapsed(signal))
               /\ Lapsed(signal).state = signal.state /\ Lapsed(signal).generation = signal.generation
    BY DEF Lapsed, Signal, Agrees
  <2>3. ASSUME look.step = "gathered" PROVE look \in Gathered
    BY <1>1, <2>3 DEF RegistryRows, NoLook
  <2>4. look' = look \/ (look' \in Gathered /\ look'.signal.valid = "no")
    BY <2>1, <2>2, <2>3 DEF Gathered
  <2>5. RegistryRows'
    BY <1>1, <1>2, <2>1, <2>2, <2>4 DEF RegistryRows
  <2>6. PresenceIsLast'
    BY <1>1, <1>2, <2>1, <2>2 DEF PresenceIsLast, LastAccepted
  <2>7. LookIsTrue'
    BY <1>1, <2>1, <2>4 DEF LookIsTrue, Agrees
  <2>8. QED
    BY <2>1, <2>5, <2>6, <2>7, NothingAccepted
<1>9. CASE LookAges
  <2>1. look.step = "gathered" /\ look' = [look EXCEPT !.signal = Lapsed(@)] /\ UNCHANGED <<presence, serving, reports, accepted>>
    BY <1>9 DEF LookAges
  <2>2. look \in Gathered
    BY <1>1, <2>1 DEF RegistryRows, NoLook
  <2>3. look' \in Gathered /\ look'.signal.valid = "no"
    BY <2>1, <2>2 DEF Gathered, Lapsed, Signal
  <2>4. RegistryRows'
    BY <1>1, <2>1, <2>3 DEF RegistryRows
  <2>5. PresenceIsLast' /\ LookIsTrue'
    BY <1>1, <2>1, <2>3 DEF PresenceIsLast, LookIsTrue, LastAccepted, Agrees
  <2>6. QED
    BY <2>1, <2>4, <2>5, NothingAccepted
<1>10. ASSUME NEW position \in {NoLook} \cup Gathered, Looks(position),
              position.step = "gathered" /\ position.signal.valid = "yes" =>
                position.signal = presence /\ position.seen = Len(accepted)
       PROVE  RegistryInv'
  <2>1. look' = position /\ UNCHANGED <<presence, serving, reports, accepted>>
    BY <1>10 DEF Looks
  <2>2. RegistryRows' /\ PresenceIsLast'
    BY <1>1, <2>1 DEF RegistryRows, PresenceIsLast, LastAccepted, Agrees
  <2>3. presence.valid = "yes" => Len(accepted) \in 1..Len(accepted) /\ Agrees(accepted[Len(accepted)], presence)
    BY <1>1 DEF RegistryRows, PresenceIsLast, LastAccepted
  <2>4. LookIsTrue'
    BY <1>10, <2>1, <2>3 DEF LookIsTrue, Agrees
  <2>5. QED
    BY <2>1, <2>2, <2>4, NothingAccepted
<1>11. CASE GatherSignals
  <2>1. Len(accepted) \in Nat
    BY <1>1 DEF RegistryRows
  <2>2. ASSUME NEW origin \in {"complete", "partial"},
               Looks([step |-> "gathered", source |-> origin, signal |-> presence, seen |-> Len(accepted)])
        PROVE  RegistryInv'
    <3> DEFINE position == [step |-> "gathered", source |-> origin, signal |-> presence, seen |-> Len(accepted)]
    <3>1. position \in Gathered /\ position.signal = presence /\ position.seen = Len(accepted)
      BY <1>2, <2>1 DEF Gathered
    <3>2. Looks(position)
      BY <2>2
    <3> HIDE DEF position
    <3>3. QED
      BY <1>10, <3>1, <3>2
  <2>3. ASSUME Looks([step |-> "gathered", source |-> "failed", signal |-> Silence, seen |-> 0]) PROVE RegistryInv'
    <3> DEFINE position == [step |-> "gathered", source |-> "failed", signal |-> Silence, seen |-> 0]
    <3>1. Silence \in Signal /\ Silence.valid = "never"
      BY DEF Silence, Signal
    <3>2. position \in Gathered /\ position.signal.valid = "never"
      BY <3>1 DEF Gathered
    <3>3. Looks(position)
      BY <2>3
    <3> HIDE DEF position
    <3>4. QED
      BY <1>10, <3>2, <3>3
  <2>4. QED
    BY <1>11, <2>2, <2>3 DEF GatherSignals
<1>12. CASE TellHealth
  <2>1. Looks(NoLook) /\ NoLook.step # "gathered"
    BY <1>12 DEF TellHealth, NoLook
  <2>2. QED
    BY <1>10, <2>1
<1>13. QED
  BY <1>4, <1>5, <1>6, <1>7, <1>8, <1>9, <1>11, <1>12, HeartbeatStep DEF RegistryNext

LEMMA PresenceIsShown == RegistryInv => PresenceFollows /\ HealthIsCurrent
<1> SUFFICES ASSUME RegistryInv PROVE PresenceFollows /\ HealthIsCurrent
  OBVIOUS
<1>1. RegistryRows /\ InTurn /\ PresenceIsLast /\ LookIsTrue
  BY DEF RegistryInv
<1>2. Len(accepted) \in Nat /\ \A n \in 1..Len(accepted) : accepted[n] \in Report
  BY <1>1 DEF RegistryRows
<1> DEFINE ofLast == {i \in 1..Len(accepted) : accepted[i].generation = presence.generation}
<1>3. ofLast = {} => presence.state = "unknown" /\ presence.valid = "never"
  <2>1. CASE accepted # <<>> /\ Agrees(LastAccepted, presence)
    <3>1. Len(accepted) \in 1..Len(accepted)
      BY <1>1, <2>1 DEF RegistryRows
    <3>2. Len(accepted) \in ofLast
      BY <2>1, <3>1 DEF Agrees, LastAccepted
    <3>3. QED
      BY <3>2
  <2>2. QED
    BY <1>1, <2>1 DEF PresenceIsLast
<1>4. ASSUME NEW i \in ofLast PROVE Len(accepted) \in ofLast /\ presence.state = accepted[Len(accepted)].state
  <2>1. Len(accepted) \in 1..Len(accepted) /\ i \in 1..Len(accepted) /\ accepted # <<>>
    BY <1>1, <1>2, <1>4 DEF RegistryRows
  <2>2. LastAccepted \in Report /\ accepted[i] \in Report /\ accepted[i].generation = presence.generation
    BY <1>2, <1>4, <2>1 DEF LastAccepted
  <2>3. i = Len(accepted) \/ Older(accepted[i], LastAccepted)
    BY <1>1, <2>1 DEF InTurn, LastAccepted
  <2>4. LastAccepted.generation >= presence.generation
    BY <2>2, <2>3 DEF Older, LastAccepted, Report
  <2>5. presence.generation \in Nat /\ LastAccepted.generation \in Nat
    BY <1>1, <2>2 DEF RegistryRows, Signal, Report
  <2>6. Agrees(LastAccepted, presence)
    BY <1>1, <2>1, <2>4, <2>5 DEF PresenceIsLast
  <2>7. QED
    BY <2>1, <2>6 DEF Agrees, LastAccepted
<1>5. PresenceFollows
  BY <1>1, <1>3, <1>4 DEF PresenceFollows, InTurn
<1>6. HealthIsCurrent
  <2> SUFFICES ASSUME look.step = "gathered", Health # "unknown"
               PROVE  LET last == accepted[look.seen] IN
                        /\ last.state = Health /\ last.generation = look.signal.generation
                        /\ last.sequence = look.signal.sequence
                        /\ \A n \in 1..Len(accepted) : Older(last, accepted[n]) => n > look.seen
    BY DEF HealthIsCurrent
  <2>1. look.signal.valid = "yes" /\ look.signal.state = Health
    BY DEF Health, UsableSignals, Coverage
  <2>2. look.seen \in 1..Len(accepted) /\ Agrees(accepted[look.seen], look.signal)
    BY <1>1, <2>1 DEF LookIsTrue
  <2>3. ASSUME NEW n \in 1..Len(accepted), Older(accepted[look.seen], accepted[n]) PROVE n > look.seen
    <3>1. accepted[n] \in Report /\ accepted[look.seen] \in Report
      BY <1>2, <2>2
    <3>2. n # look.seen /\ ~Older(accepted[n], accepted[look.seen])
      BY <2>3, <3>1, OlderIsOrder
    <3>3. QED
      BY <1>1, <1>2, <2>2, <3>2 DEF InTurn
  <2>4. QED
    BY <2>1, <2>2, <2>3 DEF Agrees
<1>7. QED
  BY <1>5, <1>6

\* What comes from elsewhere late, twice or out of order replaces nothing newer, for any
\* sources, callers, restarts and delays (subscriptions/store.js:9-37,
\* knowledge/ingested-store.js:36-62, operations/registry.js:35-55).
THEOREM NothingNewerIsReplaced == RecordsSpec => []LatestRules
<1> DEFINE Inv == SubscriptionInv /\ KnowledgeInv /\ RegistryInv
<1>1. RecordsInit => Inv
  BY SMTT(30), FreshSubscriptions, NothingIngested, NobodyPresent DEF RecordsInit
<1>2. [RecordsNext]_recordsVars =>
        [SubscriptionsNext]_subscriptionVars /\ [KnowledgeNext]_knowledgeVars /\ [RegistryNext]_registryVars
  BY DEF RecordsNext, Only, recordsVars
<1>3. Inv /\ [RecordsNext]_recordsVars => Inv'
  BY <1>2, SubscriptionsStep, KnowledgeStep, RegistryStep
<1>4. Inv => LatestRules
  BY LatestIsInstalled, PresenceIsShown DEF LatestRules, KnowledgeInv
<1> HIDE DEF Inv
<1>5. QED
  BY <1>1, <1>3, <1>4, PTL DEF RecordsSpec

-----------------------------------------------------------------------------
(* Channels: a message works once *)

DeliveryPosition ==
  [step : {"idle", "record", "execute", "invoke", "complete", "publish", "read", "rebound", "enqueue"},
   message : ChannelMessage \cup {NoIdentity}, identity : Identity \cup {NoIdentity}, seen : Nat]

ChannelRows ==
  /\ boundTo \in Identity \cup {NoIdentity}
  /\ channelInbox \in [ChannelMessage -> [identity : Identity \cup {NoIdentity}, result : {"none", "task"}]]
  /\ channelWork \in [ChannelMessage -> SUBSET Identity] /\ answered \in [ChannelMessage -> SUBSET Nat]
  /\ taskQuestion \in [number : Nat, state : {"asked", "answered"}]
  /\ deliveries \in [Delivery -> DeliveryPosition]

\* An event: what was made of it belongs to the identity it came under, a result has
\* its Task or answer, and only the Asker answers.
EventWorks(m, event, work, answers) ==
  /\ event.identity = NoIdentity => event.result = "none" /\ work = {}
  /\ work \subseteq {event.identity}
  /\ event.result = "task" => /\ work # {} \/ answers # {}
                              /\ m \in Answering => event.identity = Asker
  /\ answers = {} \/ \E n \in Nat : answers = {n}

\* A delivery past the record goes on under the identity of the event; one that
\* publishes has its result, and past its reading the identity that is told.
DeliveryGoes(at, event, work, answers) ==
  /\ at.step # "idle" => at.message \in ChannelMessage
  /\ at.step \in {"record", "execute", "invoke", "complete"} => at.identity # NoIdentity
  /\ at.step \in {"execute", "invoke", "complete", "rebound", "enqueue"} => event.identity = at.identity
  /\ at.step = "complete" => /\ work # {} \/ answers # {}
                             /\ at.message \in Answering => at.identity = Asker
  /\ at.step \in {"publish", "read", "rebound", "enqueue"} => event.result = "task"

EventStands(m) == EventWorks(m, channelInbox[m], channelWork[m], answered[m])
DeliveryStands(d) ==
  DeliveryGoes(deliveries[d], channelInbox[deliveries[d].message], channelWork[deliveries[d].message],
               answered[deliveries[d].message])
RepliesStand ==
  \A r \in replies : /\ r.message \in ChannelMessage /\ channelInbox[r.message].result = "task"
                     /\ r.identity = channelInbox[r.message].identity

ChannelInv ==
  /\ ChannelRows /\ RepliesStand
  /\ \A m \in ChannelMessage : EventStands(m)
  /\ \A d \in Delivery : DeliveryStands(d)

LEMMA NoDeliveryRow == NoDelivery \in DeliveryPosition /\ NoDelivery.step = "idle"
  BY DEF NoDelivery, DeliveryPosition

LEMMA NoMessages == ChannelsInit => ChannelInv
<1> SUFFICES ASSUME ChannelsInit PROVE ChannelInv
  OBVIOUS
<1>1. ChannelRows
  BY NoDeliveryRow DEF ChannelsInit, ChannelRows, NotReceived
<1>2. ASSUME NEW m \in ChannelMessage PROVE EventStands(m)
  BY DEF ChannelsInit, EventStands, EventWorks, NotReceived
<1>3. ASSUME NEW d \in Delivery PROVE DeliveryStands(d)
  BY NoDeliveryRow DEF ChannelsInit, DeliveryStands, DeliveryGoes
<1>4. QED
  BY <1>1, <1>2, <1>3 DEF ChannelsInit, ChannelInv, RepliesStand

\* How what is known of an event may move: nothing is taken back, and an identity is
\* given once.
EventMoves(event, work, answers, event2, work2, answers2) ==
  /\ event.identity # NoIdentity => event2.identity = event.identity
  /\ event.result = "task" => event2.result = "task"
  /\ work \subseteq work2 /\ answers \subseteq answers2

\* A step of one delivery at most, that moves events forward.
LEMMA ChannelMoves ==
  ASSUME ChannelInv, ChannelRows', RepliesStand',
         \A m \in ChannelMessage : EventStands(m)' /\ EventMoves(channelInbox[m], channelWork[m], answered[m],
                                                                 channelInbox'[m], channelWork'[m], answered'[m]),
         NEW p, \A d \in Delivery : d # p => deliveries'[d] = deliveries[d],
         p \in Delivery => DeliveryStands(p)'
  PROVE  ChannelInv'
<1>1. ChannelRows /\ \A m \in ChannelMessage : EventStands(m)
  BY DEF ChannelInv
<1>2. ASSUME NEW d \in Delivery, d # p PROVE DeliveryStands(d)'
  <2>1. deliveries'[d] = deliveries[d] /\ DeliveryStands(d) /\ deliveries[d] \in DeliveryPosition
    BY <1>1, <1>2 DEF ChannelInv, ChannelRows
  <2>2. CASE deliveries[d].step = "idle"
    BY <2>1, <2>2 DEF DeliveryStands, DeliveryGoes
  <2>3. CASE deliveries[d].step # "idle"
    <3>1. PICK m \in ChannelMessage : m = deliveries[d].message
      BY <2>1, <2>3 DEF DeliveryStands, DeliveryGoes
    <3>2. EventMoves(channelInbox[m], channelWork[m], answered[m], channelInbox'[m], channelWork'[m], answered'[m])
      OBVIOUS
    <3>3. DeliveryGoes(deliveries[d], channelInbox[m], channelWork[m], answered[m]) /\ EventStands(m)
      BY <1>1, <2>1, <3>1 DEF DeliveryStands
    <3>4. DeliveryGoes(deliveries[d], channelInbox'[m], channelWork'[m], answered'[m])
      BY <3>2, <3>3 DEF DeliveryGoes, EventMoves, EventStands, EventWorks
    <3>5. QED
      BY <2>1, <3>1, <3>4 DEF DeliveryStands
  <2>4. QED
    BY <2>2, <2>3
<1>3. QED
  BY <1>2 DEF ChannelInv

\* A step of a delivery that leaves the events and replies alone.
LEMMA DeliveryMoves ==
  ASSUME ChannelInv, NEW d \in Delivery, NEW position \in DeliveryPosition,
         deliveries' = [deliveries EXCEPT ![d] = position],
         UNCHANGED <<boundTo, channelInbox, channelWork, answered, replies, taskQuestion>>,
         DeliveryGoes(position, channelInbox[position.message], channelWork[position.message],
                      answered[position.message])
  PROVE  ChannelInv'
<1>1. ChannelRows /\ RepliesStand /\ \A m \in ChannelMessage : EventStands(m)
  BY DEF ChannelInv
<1>2. /\ deliveries'[d] = position /\ deliveries' \in [Delivery -> DeliveryPosition]
      /\ \A e \in Delivery : e # d => deliveries'[e] = deliveries[e]
  BY <1>1 DEF ChannelRows
<1>3. ChannelRows' /\ RepliesStand'
  BY <1>1, <1>2 DEF ChannelRows, RepliesStand
<1>4. DeliveryStands(d)'
  BY <1>2 DEF DeliveryStands
<1>5. \A m \in ChannelMessage : EventStands(m)' /\ EventMoves(channelInbox[m], channelWork[m], answered[m],
                                                              channelInbox'[m], channelWork'[m], answered'[m])
  BY <1>1 DEF EventStands, EventMoves
<1>6. QED
  BY <1>2, <1>3, <1>4, <1>5, ChannelMoves

\* A step that makes something of the event a delivery has in hand.
LEMMA EventMovesOn ==
  ASSUME ChannelInv, NEW d \in Delivery, NEW m \in ChannelMessage, NEW step \in {"execute", "complete", "publish"},
         deliveries[d].message = m, deliveries' = [deliveries EXCEPT ![d].step = step],
         ChannelRows', UNCHANGED replies,
         EventStands(m)', EventMoves(channelInbox[m], channelWork[m], answered[m],
                                     channelInbox'[m], channelWork'[m], answered'[m]),
         \A other \in ChannelMessage : other # m => /\ channelInbox'[other] = channelInbox[other]
                                                    /\ channelWork'[other] = channelWork[other]
                                                    /\ answered'[other] = answered[other],
         DeliveryGoes([deliveries[d] EXCEPT !.step = step], channelInbox'[m], channelWork'[m], answered'[m])
  PROVE  ChannelInv'
<1>1. ChannelRows /\ RepliesStand /\ \A x \in ChannelMessage : EventStands(x)
  BY DEF ChannelInv
<1>2. /\ deliveries'[d] = [deliveries[d] EXCEPT !.step = step] /\ deliveries'[d].message = m
      /\ \A e \in Delivery : e # d => deliveries'[e] = deliveries[e]
  BY <1>1 DEF ChannelRows, DeliveryPosition
<1>3. DeliveryStands(d)'
  BY <1>2 DEF DeliveryStands
<1>4. ASSUME NEW x \in ChannelMessage
      PROVE  EventStands(x)' /\ EventMoves(channelInbox[x], channelWork[x], answered[x],
                                           channelInbox'[x], channelWork'[x], answered'[x])
  <2>1. CASE x = m
    BY <2>1
  <2>2. CASE x # m
    BY <1>1, <2>2 DEF EventStands, EventMoves
  <2>3. QED
    BY <2>1, <2>2
<1>5. RepliesStand'
  <2>1. ASSUME NEW r \in replies
        PROVE  /\ r.message \in ChannelMessage /\ channelInbox'[r.message].result = "task"
               /\ r.identity = channelInbox'[r.message].identity
    <3>1. r.message \in ChannelMessage /\ channelInbox[r.message].result = "task" /\ r.identity = channelInbox[r.message].identity
      BY <1>1 DEF RepliesStand
    <3>2. channelInbox[r.message].identity # NoIdentity
      BY <1>1, <3>1 DEF EventStands, EventWorks
    <3>3. QED
      BY <1>4, <3>1, <3>2 DEF EventMoves
  <2>2. QED
    BY <2>1 DEF RepliesStand
<1>6. QED
  BY <1>2, <1>3, <1>4, <1>5, ChannelMoves

LEMMA RecordEventStep ==
  ASSUME ChannelInv, NEW d \in Delivery, RecordEvent(d)
  PROVE  ChannelInv'
<1>1. ChannelRows /\ DeliveryStands(d) /\ \A x \in ChannelMessage : EventStands(x)
  BY DEF ChannelInv
<1>2. deliveries[d].step = "record" /\ deliveries[d] \in DeliveryPosition
      /\ UNCHANGED <<boundTo, channelWork, answered, replies, taskQuestion>>
  BY <1>1 DEF RecordEvent, AtDelivery, ChannelRows, DeliveryStep, DeliveryBecomes
<1>3. PICK m \in ChannelMessage : m = deliveries[d].message
  BY <1>1, <1>2 DEF DeliveryStands, DeliveryGoes
<1>4. deliveries[d].identity # NoIdentity /\ deliveries[d].identity \in Identity
  BY <1>1, <1>2 DEF DeliveryStands, DeliveryGoes, DeliveryPosition
<1>5. channelInbox[m] \in [identity : Identity \cup {NoIdentity}, result : {"none", "task"}] /\ EventStands(m)
  BY <1>1 DEF ChannelRows
<1>6. CASE ~SameBinding(d)
  <2>1. deliveries' = [deliveries EXCEPT ![d] = NoDelivery] /\ UNCHANGED channelInbox
    BY <1>6 DEF RecordEvent, DeliveryBecomes
  <2>2. \A e, w, a : DeliveryGoes(NoDelivery, e, w, a)
    BY SMTT(40), NoDeliveryRow DEF DeliveryGoes
  <2>3. QED
    BY <1>2, <2>1, <2>2, NoDeliveryRow, DeliveryMoves
<1>7. CASE SameBinding(d)
  <2> DEFINE step == IF channelInbox[m].result = "none" THEN "execute" ELSE "publish"
  <2>1. /\ channelInbox' = IF channelInbox[m] = NotReceived
                             THEN [channelInbox EXCEPT ![m].identity = deliveries[d].identity] ELSE channelInbox
        /\ deliveries' = [deliveries EXCEPT ![d].step = step]
    <3>1. deliveries' = [deliveries EXCEPT ![d] = [deliveries[d] EXCEPT !.step = step]]
      BY <1>3, <1>7 DEF RecordEvent, DeliveryStep, DeliveryBecomes
    <3>2. QED
      BY <1>1, <1>3, <1>7, <3>1 DEF RecordEvent, ChannelRows
  <2>2. step \in {"execute", "complete", "publish"} /\ (step = "execute" => channelInbox[m].result = "none")
        /\ (step = "publish" => channelInbox[m].result = "task")
    BY <1>5
  <2>3. step \in {"execute", "publish"}
    OBVIOUS
  <2> HIDE DEF step
  <2>4. /\ channelInbox'[m].identity = deliveries[d].identity /\ channelInbox'[m].result = channelInbox[m].result
        /\ channelInbox' \in [ChannelMessage -> [identity : Identity \cup {NoIdentity}, result : {"none", "task"}]]
        /\ \A x \in ChannelMessage : x # m => channelInbox'[x] = channelInbox[x]
        /\ channelInbox[m].identity # NoIdentity => channelInbox' = channelInbox
    <3>1. CASE channelInbox[m] = NotReceived
      BY <1>1, <1>4, <2>1, <3>1 DEF ChannelRows, NotReceived
    <3>2. CASE channelInbox[m] # NotReceived
      <4>1. channelInbox[m].identity # NoIdentity
        BY <1>5, <3>2 DEF EventStands, EventWorks, NotReceived
      <4>2. QED
        BY <1>1, <1>3, <1>7, <2>1, <3>2, <4>1 DEF SameBinding, ChannelRows
    <3>3. QED
      BY <3>1, <3>2
  <2>5. ChannelRows'
    <3>1. [deliveries[d] EXCEPT !.step = step] \in DeliveryPosition
      BY <1>2, <2>2 DEF DeliveryPosition
    <3>2. deliveries' \in [Delivery -> DeliveryPosition]
      BY <1>1, <2>1, <3>1 DEF ChannelRows
    <3>3. QED
      BY <1>1, <1>2, <2>4, <3>2 DEF ChannelRows
  <2>6. EventMoves(channelInbox[m], channelWork[m], answered[m], channelInbox'[m], channelWork'[m], answered'[m])
    BY <1>2, <2>4 DEF EventMoves
  <2>7. EventStands(m)'
    <3>1. CASE channelInbox[m].identity # NoIdentity
      BY <1>2, <1>5, <2>4, <3>1 DEF EventStands
    <3>2. CASE channelInbox[m].identity = NoIdentity
      BY <1>2, <1>4, <1>5, <2>4, <3>2 DEF EventStands, EventWorks
    <3>3. QED
      BY <3>1, <3>2
  <2>8. DeliveryGoes([deliveries[d] EXCEPT !.step = step], channelInbox'[m], channelWork'[m], answered'[m])
    <3> DEFINE at == [deliveries[d] EXCEPT !.step = step]
    <3>1. at.step = step /\ at.message = m /\ at.identity = deliveries[d].identity
      BY <1>2, <1>3 DEF DeliveryPosition
    <3> HIDE DEF at
    <3>2. DeliveryGoes(at, channelInbox'[m], channelWork'[m], answered'[m])
      BY <1>4, <2>2, <2>3, <2>4, <3>1 DEF DeliveryGoes
    <3>3. QED
      BY <3>2 DEF at
  <2>9. QED
    BY ZenonT(40), <1>2, <1>3, <2>1, <2>2, <2>4, <2>5, <2>6, <2>7, <2>8, EventMovesOn
<1>8. QED
  BY <1>6, <1>7

LEMMA InvokeWorkStep ==
  ASSUME ChannelInv, NEW d \in Delivery, InvokeWork(d)
  PROVE  ChannelInv'
<1>1. ChannelRows /\ DeliveryStands(d) /\ \A x \in ChannelMessage : EventStands(x)
  BY DEF ChannelInv
<1>2. deliveries[d].step = "invoke" /\ deliveries[d] \in DeliveryPosition /\ deliveries[d].message \notin Answering
      /\ UNCHANGED <<boundTo, channelInbox, answered, replies, taskQuestion>>
  BY <1>1 DEF InvokeWork, AtDelivery, ChannelRows, DeliveryStep, DeliveryBecomes
<1>3. PICK m \in ChannelMessage : m = deliveries[d].message
  BY <1>1, <1>2 DEF DeliveryStands, DeliveryGoes
<1>4. deliveries[d].identity # NoIdentity /\ deliveries[d].identity \in Identity /\ channelInbox[m].identity = deliveries[d].identity
  BY <1>1, <1>2, <1>3 DEF DeliveryStands, DeliveryGoes, DeliveryPosition
<1>5. /\ channelWork' = [channelWork EXCEPT ![m] = @ \cup {deliveries[d].identity}]
      /\ deliveries' = [deliveries EXCEPT ![d] = [deliveries[d] EXCEPT !.step = "complete"]]
  BY <1>3 DEF InvokeWork, DeliveryStep, DeliveryBecomes
<1> DEFINE at == [deliveries[d] EXCEPT !.step = "complete"]
<1>6. at \in DeliveryPosition /\ at.step = "complete" /\ at.message = m /\ at.identity = deliveries[d].identity
  BY <1>2, <1>3 DEF DeliveryPosition
<1>7. deliveries' = [deliveries EXCEPT ![d].step = "complete"]
  BY <1>1, <1>5 DEF ChannelRows
<1>8. /\ channelWork' \in [ChannelMessage -> SUBSET Identity] /\ channelWork'[m] = channelWork[m] \cup {deliveries[d].identity}
      /\ \A x \in ChannelMessage : x # m => channelWork'[x] = channelWork[x]
  BY <1>1, <1>4, <1>5 DEF ChannelRows
<1>9. ChannelRows'
  BY <1>1, <1>2, <1>5, <1>6, <1>8 DEF ChannelRows
<1>10. EventMoves(channelInbox[m], channelWork[m], answered[m], channelInbox'[m], channelWork'[m], answered'[m])
  BY <1>2, <1>8 DEF EventMoves
<1>11. EventStands(m)'
  BY <1>1, <1>2, <1>4, <1>8 DEF EventStands, EventWorks
<1>12. DeliveryGoes(at, channelInbox'[m], channelWork'[m], answered'[m])
  <2> HIDE DEF at
  <2>1. QED
    BY <1>2, <1>3, <1>4, <1>6, <1>8 DEF DeliveryGoes
<1>13. QED
  BY <1>2, <1>3, <1>7, <1>8, <1>9, <1>10, <1>11, <1>12, EventMovesOn

LEMMA InvokeReplyStep ==
  ASSUME ChannelInv, NEW d \in Delivery, InvokeReply(d)
  PROVE  ChannelInv'
<1>1. ChannelRows /\ DeliveryStands(d) /\ \A x \in ChannelMessage : EventStands(x)
  BY DEF ChannelInv
<1>2. deliveries[d].step = "invoke" /\ deliveries[d] \in DeliveryPosition /\ deliveries[d].identity = Asker
      /\ UNCHANGED <<boundTo, channelInbox, channelWork, replies>>
  BY <1>1 DEF InvokeReply, AtDelivery, ChannelRows
<1>3. PICK m \in ChannelMessage : m = deliveries[d].message
  BY <1>1, <1>2 DEF DeliveryStands, DeliveryGoes
<1>4. deliveries[d].identity # NoIdentity /\ channelInbox[m].identity = deliveries[d].identity
  BY <1>1, <1>2, <1>3 DEF DeliveryStands, DeliveryGoes
<1>5. deliveries' = [deliveries EXCEPT ![d].step = "complete"]
  BY DEF InvokeReply
<1> DEFINE at == [deliveries[d] EXCEPT !.step = "complete"]
<1>6. at \in DeliveryPosition /\ at.step = "complete" /\ at.message = m /\ at.identity = deliveries[d].identity
  BY <1>2, <1>3 DEF DeliveryPosition
<1>7. /\ answered' \in [ChannelMessage -> SUBSET Nat] /\ answered[m] \subseteq answered'[m]
      /\ \E n \in Nat : answered'[m] = {n}
      /\ \A x \in ChannelMessage : x # m => answered'[x] = answered[x]
      /\ taskQuestion' \in [number : Nat, state : {"asked", "answered"}]
  <2>1. CASE answered[m] # {} /\ UNCHANGED <<taskQuestion, answered>>
    BY <1>1, <2>1 DEF ChannelRows, EventStands, EventWorks
  <2>2. CASE /\ answered[m] = {} /\ answered' = [answered EXCEPT ![m] = @ \cup {taskQuestion.number}]
             /\ taskQuestion' = [taskQuestion EXCEPT !.state = "answered"]
    <3>1. taskQuestion.number \in Nat
      BY <1>1 DEF ChannelRows
    <3>2. answered'[m] = {taskQuestion.number}
      BY <1>1, <2>2 DEF ChannelRows
    <3>3. QED
      BY <1>1, <2>2, <3>1, <3>2 DEF ChannelRows
  <2>3. QED
    BY <1>3, <2>1, <2>2 DEF InvokeReply, Receipted
<1>8. deliveries' \in [Delivery -> DeliveryPosition]
  BY <1>1, <1>5, <1>6 DEF ChannelRows
<1>9. ChannelRows'
  BY <1>1, <1>2, <1>7, <1>8 DEF ChannelRows
<1>10. EventMoves(channelInbox[m], channelWork[m], answered[m], channelInbox'[m], channelWork'[m], answered'[m])
  BY <1>2, <1>7 DEF EventMoves
<1>11. EventStands(m)'
  BY <1>1, <1>2, <1>4, <1>7 DEF EventStands, EventWorks
<1>12. DeliveryGoes(at, channelInbox'[m], channelWork'[m], answered'[m])
  <2> HIDE DEF at
  <2>1. QED
    BY <1>2, <1>3, <1>4, <1>6, <1>7 DEF DeliveryGoes
<1>13. QED
  BY <1>2, <1>3, <1>5, <1>7, <1>9, <1>10, <1>11, <1>12, EventMovesOn

LEMMA CompleteEventStep ==
  ASSUME ChannelInv, NEW d \in Delivery, CompleteEvent(d)
  PROVE  ChannelInv'
<1>1. ChannelRows /\ DeliveryStands(d) /\ \A x \in ChannelMessage : EventStands(x)
  BY DEF ChannelInv
<1>2. deliveries[d].step = "complete" /\ deliveries[d] \in DeliveryPosition
      /\ UNCHANGED <<boundTo, channelWork, answered, replies, taskQuestion>>
  BY <1>1 DEF CompleteEvent, AtDelivery, ChannelRows, DeliveryStep, DeliveryBecomes
<1>3. PICK m \in ChannelMessage : m = deliveries[d].message
  BY <1>1, <1>2 DEF DeliveryStands, DeliveryGoes
<1>4. DeliveryGoes(deliveries[d], channelInbox[m], channelWork[m], answered[m])
  BY <1>1, <1>3 DEF DeliveryStands
<1>5. /\ channelInbox' = [channelInbox EXCEPT ![m].result = "task"]
      /\ deliveries' = [deliveries EXCEPT ![d] = [deliveries[d] EXCEPT !.step = "publish"]]
  BY <1>3 DEF CompleteEvent, DeliveryStep, DeliveryBecomes
<1> DEFINE at == [deliveries[d] EXCEPT !.step = "publish"]
<1>6. at \in DeliveryPosition /\ at.step = "publish" /\ at.message = m
  BY <1>2, <1>3 DEF DeliveryPosition
<1>7. deliveries' = [deliveries EXCEPT ![d].step = "publish"]
  BY <1>1, <1>5 DEF ChannelRows
<1>8. /\ channelInbox' \in [ChannelMessage -> [identity : Identity \cup {NoIdentity}, result : {"none", "task"}]]
      /\ channelInbox'[m].identity = channelInbox[m].identity /\ channelInbox'[m].result = "task"
      /\ \A x \in ChannelMessage : x # m => channelInbox'[x] = channelInbox[x]
  BY <1>1, <1>5 DEF ChannelRows
<1>9. ChannelRows'
  BY <1>1, <1>2, <1>5, <1>6, <1>8 DEF ChannelRows
<1>10. EventMoves(channelInbox[m], channelWork[m], answered[m], channelInbox'[m], channelWork'[m], answered'[m])
  BY <1>2, <1>8 DEF EventMoves
<1>11. EventStands(m)'
  BY <1>1, <1>2, <1>3, <1>4, <1>8 DEF EventStands, EventWorks, DeliveryGoes
<1>12. DeliveryGoes(at, channelInbox'[m], channelWork'[m], answered'[m])
  <2> HIDE DEF at
  <2>1. QED
    BY <1>6, <1>8 DEF DeliveryGoes
<1>13. QED
  BY <1>2, <1>3, <1>7, <1>8, <1>9, <1>10, <1>11, <1>12, EventMovesOn

LEMMA ChannelsStep == ChannelInv /\ [ChannelsNext]_channelVars => ChannelInv'
<1> SUFFICES ASSUME ChannelInv, [ChannelsNext]_channelVars PROVE ChannelInv'
  OBVIOUS
<1>1. ChannelRows /\ RepliesStand /\ (\A m \in ChannelMessage : EventStands(m)) /\ \A d \in Delivery : DeliveryStands(d)
  BY DEF ChannelInv
<1>2. ASSUME ChannelRows', UNCHANGED <<channelInbox, channelWork, answered, replies, deliveries>> PROVE ChannelInv'
  BY <1>1, <1>2 DEF ChannelInv, RepliesStand, EventStands, DeliveryStands
<1>3. \A e, w, a : DeliveryGoes(NoDelivery, e, w, a)
  BY NoDeliveryRow DEF DeliveryGoes
<1>4. CASE UNCHANGED channelVars
  BY <1>1, <1>2, <1>4 DEF channelVars, ChannelRows
<1>5. ASSUME NEW i \in Identity \cup {NoIdentity}, Rebind(i) PROVE ChannelInv'
  BY <1>1, <1>2, <1>5 DEF Rebind, ChannelRows
<1>6. CASE AsksAgain
  <2>1. taskQuestion' \in [number : Nat, state : {"asked", "answered"}]
    BY <1>1, <1>6 DEF AsksAgain, ChannelRows
  <2>2. QED
    BY <1>1, <1>2, <1>6, <2>1 DEF AsksAgain, ChannelRows
<1>7. ASSUME NEW d \in Delivery, deliveries' = [deliveries EXCEPT ![d] = NoDelivery],
             UNCHANGED <<boundTo, channelInbox, channelWork, answered, replies, taskQuestion>>
      PROVE  ChannelInv'
  BY <1>3, <1>7, NoDeliveryRow, DeliveryMoves
<1>8. ASSUME NEW d \in Delivery, NEW m \in ChannelMessage, ReceiveMessage(d, m) PROVE ChannelInv'
  <2> DEFINE at == [NoDelivery EXCEPT !.step = "record", !.message = m, !.identity = boundTo]
  <2>1. boundTo # NoIdentity /\ boundTo \in Identity \cup {NoIdentity}
    BY <1>1, <1>8 DEF ReceiveMessage, ChannelRows
  <2>2. at \in DeliveryPosition /\ at.step = "record" /\ at.message = m /\ at.identity = boundTo
    BY <2>1 DEF NoDelivery, DeliveryPosition
  <2>3. deliveries' = [deliveries EXCEPT ![d] = at]
        /\ UNCHANGED <<boundTo, channelInbox, channelWork, answered, replies, taskQuestion>>
    BY <1>8 DEF ReceiveMessage, DeliveryBecomes
  <2> HIDE DEF at
  <2>4. DeliveryGoes(at, channelInbox[at.message], channelWork[at.message], answered[at.message])
    BY <2>1, <2>2 DEF DeliveryGoes
  <2>5. QED
    BY <2>2, <2>3, <2>4, DeliveryMoves
<1>9. ASSUME NEW d \in Delivery, NEW m \in ChannelMessage, PublishAgain(d, m) PROVE ChannelInv'
  <2> DEFINE at == [NoDelivery EXCEPT !.step = "publish", !.message = m]
  <2>1. at \in DeliveryPosition /\ at.step = "publish" /\ at.message = m
    BY DEF NoDelivery, DeliveryPosition
  <2>2. /\ deliveries' = [deliveries EXCEPT ![d] = at] /\ channelInbox[m].result = "task"
        /\ UNCHANGED <<boundTo, channelInbox, channelWork, answered, replies, taskQuestion>>
    BY <1>1, <1>9 DEF PublishAgain, DeliveryBecomes, ChannelRows
  <2> HIDE DEF at
  <2>3. DeliveryGoes(at, channelInbox[at.message], channelWork[at.message], answered[at.message])
    BY <2>1, <2>2 DEF DeliveryGoes
  <2>4. QED
    BY <2>1, <2>2, <2>3, DeliveryMoves
<1>10. ASSUME NEW d \in Delivery, NEW m \in ChannelMessage, deliveries[d].message = m,
              NEW at \in DeliveryPosition, at.message = m, deliveries' = [deliveries EXCEPT ![d] = at],
              UNCHANGED <<boundTo, channelInbox, channelWork, answered, replies, taskQuestion>>,
              DeliveryGoes(at, channelInbox[m], channelWork[m], answered[m])
       PROVE  ChannelInv'
  BY <1>10, DeliveryMoves
<1>11. ASSUME NEW d \in Delivery, deliveries[d].step # "idle"
       PROVE  \E m \in ChannelMessage :
                /\ m = deliveries[d].message /\ deliveries[d] \in DeliveryPosition
                /\ DeliveryGoes(deliveries[d], channelInbox[m], channelWork[m], answered[m])
                /\ EventStands(m)
  BY <1>1, <1>11 DEF DeliveryStands, DeliveryGoes, ChannelRows
<1>12. ASSUME NEW d \in Delivery, BindAgain(d) PROVE ChannelInv'
  <2>1. deliveries[d].step = "execute" /\ UNCHANGED <<boundTo, channelInbox, channelWork, answered, replies, taskQuestion>>
    BY <1>12 DEF BindAgain, AtDelivery, DeliveryStep, DeliveryBecomes
  <2>2. PICK m \in ChannelMessage : /\ m = deliveries[d].message /\ deliveries[d] \in DeliveryPosition
                                    /\ DeliveryGoes(deliveries[d], channelInbox[m], channelWork[m], answered[m])
    BY <1>11, <2>1
  <2> DEFINE at == [deliveries[d] EXCEPT !.step = "invoke"]
  <2>3. at \in DeliveryPosition /\ at.step = "invoke" /\ at.message = m /\ at.identity = deliveries[d].identity
    BY <2>2 DEF DeliveryPosition
  <2>4. deliveries' = [deliveries EXCEPT ![d] = at] \/ deliveries' = [deliveries EXCEPT ![d] = NoDelivery]
    BY <1>12 DEF BindAgain, DeliveryStep, DeliveryBecomes
  <2> HIDE DEF at
  <2>5. DeliveryGoes(at, channelInbox[m], channelWork[m], answered[m])
    BY <2>1, <2>2, <2>3 DEF DeliveryGoes
  <2>6. QED
    BY <1>7, <1>10, <2>1, <2>2, <2>3, <2>4, <2>5
<1>13. ASSUME NEW d \in Delivery, BindForPublish(d) PROVE ChannelInv'
  <2>1. deliveries[d].step = "publish" /\ UNCHANGED <<boundTo, channelInbox, channelWork, answered, replies, taskQuestion>>
    BY <1>13 DEF BindForPublish, AtDelivery, DeliveryBecomes
  <2>2. PICK m \in ChannelMessage : /\ m = deliveries[d].message /\ deliveries[d] \in DeliveryPosition
                                    /\ DeliveryGoes(deliveries[d], channelInbox[m], channelWork[m], answered[m])
    BY <1>11, <2>1
  <2> DEFINE at == [deliveries[d] EXCEPT !.step = "read", !.identity = boundTo]
  <2>3. at \in DeliveryPosition /\ at.step = "read" /\ at.message = m
    BY <1>1, <2>2 DEF DeliveryPosition, ChannelRows
  <2>4. deliveries' = [deliveries EXCEPT ![d] = at] \/ deliveries' = [deliveries EXCEPT ![d] = NoDelivery]
    BY <1>13 DEF BindForPublish, DeliveryBecomes
  <2> HIDE DEF at
  <2>5. DeliveryGoes(at, channelInbox[m], channelWork[m], answered[m])
    BY <2>1, <2>2, <2>3 DEF DeliveryGoes
  <2>6. QED
    BY <1>7, <1>10, <2>1, <2>2, <2>3, <2>4, <2>5
<1>14. ASSUME NEW d \in Delivery, ReadForPublish(d) PROVE ChannelInv'
  <2>1. deliveries[d].step = "read" /\ UNCHANGED <<boundTo, channelInbox, channelWork, answered, replies, taskQuestion>>
    BY <1>14 DEF ReadForPublish, AtDelivery, DeliveryBecomes
  <2>2. PICK m \in ChannelMessage : /\ m = deliveries[d].message /\ deliveries[d] \in DeliveryPosition
                                    /\ DeliveryGoes(deliveries[d], channelInbox[m], channelWork[m], answered[m])
                                    /\ EventStands(m)
    BY <1>11, <2>1
  <2> DEFINE at == [deliveries[d] EXCEPT !.step = "rebound", !.seen = taskQuestion.number]
  <2>3. at \in DeliveryPosition /\ at.step = "rebound" /\ at.message = m /\ at.identity = deliveries[d].identity
    BY <1>1, <2>2 DEF DeliveryPosition, ChannelRows
  <2>4. \/ Readable(d) /\ deliveries' = [deliveries EXCEPT ![d] = at]
        \/ deliveries' = [deliveries EXCEPT ![d] = NoDelivery]
    BY <1>14 DEF ReadForPublish, DeliveryBecomes
  <2> HIDE DEF at
  <2>5. ASSUME Readable(d) PROVE DeliveryGoes(at, channelInbox[m], channelWork[m], answered[m])
    <3>1. channelInbox[m].result = "task"
      BY <2>1, <2>2 DEF DeliveryGoes
    <3>2. deliveries[d].identity = channelInbox[m].identity
      BY <2>2, <2>5, <3>1 DEF Readable, EventStands, EventWorks
    <3>3. QED
      BY <2>2, <2>3, <3>1, <3>2 DEF DeliveryGoes
  <2>6. QED
    BY <1>7, <1>10, <2>1, <2>2, <2>3, <2>4, <2>5
<1>15. ASSUME NEW d \in Delivery, BindToSend(d) PROVE ChannelInv'
  <2>1. deliveries[d].step = "rebound" /\ UNCHANGED <<boundTo, channelInbox, channelWork, answered, replies, taskQuestion>>
    BY <1>15 DEF BindToSend, AtDelivery, DeliveryStep, DeliveryBecomes
  <2>2. PICK m \in ChannelMessage : /\ m = deliveries[d].message /\ deliveries[d] \in DeliveryPosition
                                    /\ DeliveryGoes(deliveries[d], channelInbox[m], channelWork[m], answered[m])
    BY <1>11, <2>1
  <2> DEFINE at == [deliveries[d] EXCEPT !.step = "enqueue"]
  <2>3. at \in DeliveryPosition /\ at.step = "enqueue" /\ at.message = m /\ at.identity = deliveries[d].identity
    BY <2>2 DEF DeliveryPosition
  <2>4. deliveries' = [deliveries EXCEPT ![d] = at] \/ deliveries' = [deliveries EXCEPT ![d] = NoDelivery]
    BY <1>15 DEF BindToSend, DeliveryStep, DeliveryBecomes
  <2> HIDE DEF at
  <2>5. DeliveryGoes(at, channelInbox[m], channelWork[m], answered[m])
    BY <2>1, <2>2, <2>3 DEF DeliveryGoes
  <2>6. QED
    BY <1>7, <1>10, <2>1, <2>2, <2>3, <2>4, <2>5
<1>16. ASSUME NEW d \in Delivery, EnqueueReply(d) PROVE ChannelInv'
  <2>1. deliveries[d].step = "enqueue"
        /\ UNCHANGED <<boundTo, channelInbox, channelWork, answered, taskQuestion>>
        /\ deliveries' = [deliveries EXCEPT ![d] = NoDelivery]
    BY <1>16 DEF EnqueueReply, AtDelivery, DeliveryBecomes
  <2>2. PICK m \in ChannelMessage : /\ m = deliveries[d].message
                                    /\ DeliveryGoes(deliveries[d], channelInbox[m], channelWork[m], answered[m])
    BY <1>11, <2>1
  <2>3. channelInbox[m].result = "task" /\ channelInbox[m].identity = deliveries[d].identity
    BY <2>1, <2>2 DEF DeliveryGoes
  <2>4. replies' = replies \cup {[message |-> m, identity |-> deliveries[d].identity, seen |-> deliveries[d].seen]}
    BY <1>16, <2>2 DEF EnqueueReply
  <2>5. RepliesStand'
    BY <1>1, <2>1, <2>3, <2>4 DEF RepliesStand
  <2>6. /\ deliveries' \in [Delivery -> DeliveryPosition] /\ deliveries'[d] = NoDelivery
        /\ \A e \in Delivery : e # d => deliveries'[e] = deliveries[e]
    BY <1>1, <2>1, NoDeliveryRow DEF ChannelRows
  <2>7. ChannelRows' /\ DeliveryStands(d)'
    BY <1>1, <1>3, <2>1, <2>6 DEF ChannelRows, DeliveryStands
  <2>8. \A x \in ChannelMessage : EventStands(x)' /\ EventMoves(channelInbox[x], channelWork[x], answered[x],
                                                                channelInbox'[x], channelWork'[x], answered'[x])
    BY <1>1, <2>1 DEF EventStands, EventMoves
  <2>9. QED
    BY <2>5, <2>6, <2>7, <2>8, ChannelMoves
<1>17. ASSUME NEW d \in Delivery, DeliveryFails(d) PROVE ChannelInv'
  BY <1>7, <1>17 DEF DeliveryFails, DeliveryBecomes
<1>18. QED
  BY <1>4, <1>5, <1>6, <1>8, <1>9, <1>12, <1>13, <1>14, <1>15, <1>16, <1>17,
     RecordEventStep, InvokeWorkStep, InvokeReplyStep, CompleteEventStep DEF ChannelsNext

LEMMA MessagesDoWorkOnce == ChannelInv => MessagesWorkOnce
<1> SUFFICES ASSUME ChannelInv, NEW m \in ChannelMessage
             PROVE  /\ channelWork[m] \subseteq {channelInbox[m].identity} \ {NoIdentity}
                    /\ \A r \in replies : r.message = m => r.identity = channelInbox[m].identity
                    /\ channelInbox[m].result = "task" => channelWork[m] # {} \/ answered[m] # {}
                    /\ Cardinality(answered[m]) <= 1
  BY DEF MessagesWorkOnce
<1>1. EventStands(m) /\ RepliesStand
  BY DEF ChannelInv
<1>2. Cardinality(answered[m]) <= 1
  <2>1. CASE answered[m] = {}
    BY <2>1, FS_EmptySet
  <2>2. CASE \E n \in Nat : answered[m] = {n}
    <3>1. PICK n \in Nat : answered[m] = {n}
      BY <2>2
    <3>2. Cardinality({n}) = 1
      BY FS_Singleton
    <3>3. QED
      BY <3>1, <3>2
  <2>3. QED
    BY <1>1, <2>1, <2>2 DEF EventStands, EventWorks
<1>3. QED
  BY <1>1, <1>2 DEF EventStands, EventWorks, RepliesStand

-----------------------------------------------------------------------------
(* Deployments: a request starts one workload *)

ContainerRow == [id : ContainerId, build : Build, state : {"created", "running", "exited"}]
ActivationRow == [id : ContainerId, build : Build]
DeployerRow ==
  [step : {"prior", "inspect", "activation", "create", "confirm", "claim", "again", "start"},
   why : {"start", "deploy", "activate"}, build : Build, receipt : {NoContainer} \cup ContainerRow]

DeployRows ==
  /\ adapter \in {"plain", "recoverable"} /\ lastContainer \in 0..MaxContainer
  /\ container \in {NoContainer} \cup ContainerRow /\ activation \in {NoContainer} \cup ActivationRow
  /\ deployers \in [Deployer -> {NoDeploy} \cup DeployerRow]
  /\ startsSent \in [ContainerId -> Nat]

\* Nothing there is newer than the container created last.
ContainersInOrder ==
  /\ container # NoContainer => container.id <= lastContainer
  /\ \A p \in Deployer : deployers[p] # NoDeploy /\ deployers[p].receipt # NoContainer =>
       deployers[p].receipt.id <= lastContainer

StandsAt(p, steps) == deployers[p].step \in steps

\* Who is about to start, or may be next: with activations after the claim, without
\* them after the creation.
Starts(p) == StandsAt(p, IF adapter = "plain" THEN {"confirm", "start"} ELSE {"again", "start"})

\* With activations: who starts has claimed this container, alone and before any start.
ClaimedOnce ==
  /\ activation = NoContainer => \A i \in ContainerId : startsSent[i] = 0
  /\ \A i \in ContainerId : startsSent[i] > 0 => activation.id = i /\ startsSent[i] <= 1
  /\ \A p \in Deployer : Starts(p) =>
       /\ activation # NoContainer /\ deployers[p].receipt.id = activation.id
       /\ \A i \in ContainerId : startsSent[i] = 0
       /\ \A q \in Deployer : Starts(q) => p = q

\* Without them: who starts has created the one container there ever was.
CreatedOnce ==
  lastContainer <= 1 =>
    /\ lastContainer = 0 => \A i \in ContainerId : startsSent[i] = 0
    /\ \A i \in ContainerId : startsSent[i] <= 1
    /\ \A p \in Deployer : Starts(p) =>
         /\ lastContainer = 1 /\ \A i \in ContainerId : startsSent[i] = 0
         /\ \A q \in Deployer : Starts(q) => p = q

\* The steps of either adapter; and what a claim and a start have in hand.
StepsFit(p) ==
  deployers[p] # NoDeploy =>
    /\ adapter = "plain" => StandsAt(p, {"prior", "create", "confirm", "start"})
    /\ StandsAt(p, {"claim", "again", "start"}) => deployers[p].receipt # NoContainer

DeployInv ==
  /\ DeployRows /\ ContainersInOrder /\ \A p \in Deployer : StepsFit(p)
  /\ IF adapter = "plain" THEN CreatedOnce ELSE ClaimedOnce

LEMMA NoDeployRow == NoDeploy.step = "idle" /\ NoDeploy \notin DeployerRow
  BY DEF NoDeploy, DeployerRow

LEMMA NothingDeployed == DeploymentsInit => DeployInv
<1> SUFFICES ASSUME DeploymentsInit PROVE DeployInv
  OBVIOUS
<1>1. DeployRows
  BY DeploymentsAssumption DEF DeploymentsInit, DeployRows
<1>2. \A p \in Deployer : deployers[p] = NoDeploy /\ ~Starts(p)
  BY NoDeployRow DEF DeploymentsInit, Starts, StandsAt
<1>3. ContainersInOrder /\ (\A p \in Deployer : StepsFit(p)) /\ CreatedOnce /\ ClaimedOnce
  BY <1>2 DEF DeploymentsInit, ContainersInOrder, StepsFit, CreatedOnce, ClaimedOnce, ContainerId
<1>4. QED
  BY <1>1, <1>3 DEF DeployInv

\* A step that starts nothing and brings nobody nearer to a start than he was.
LEMMA NoStartSent ==
  ASSUME DeployInv, NEW p \in Deployer, NEW call \in {NoDeploy} \cup DeployerRow,
         deployers' = [deployers EXCEPT ![p] = call], UNCHANGED <<adapter, startsSent, activation>>,
         DeployRows', lastContainer' = lastContainer,
         container' # NoContainer => container'.id <= lastContainer,
         call # NoDeploy /\ call.receipt # NoContainer => call.receipt.id <= lastContainer,
         call # NoDeploy => /\ adapter = "plain" => call.step \in {"prior", "create", "confirm", "start"}
                            /\ call.step \in {"claim", "again", "start"} => call.receipt # NoContainer,
         call.step \in (IF adapter = "plain" THEN {"confirm", "start"} ELSE {"again", "start"}) =>
           Starts(p) /\ (adapter = "plain" \/ call.receipt = deployers[p].receipt)
  PROVE  DeployInv'
<1>1. DeployRows /\ ContainersInOrder /\ \A q \in Deployer : StepsFit(q)
  BY DEF DeployInv
<1>2. deployers'[p] = call /\ \A q \in Deployer : q # p => deployers'[q] = deployers[q]
  BY <1>1 DEF DeployRows
<1>3. ContainersInOrder'
  BY <1>1, <1>2 DEF ContainersInOrder
<1>4. ASSUME NEW q \in Deployer PROVE StepsFit(q)'
  BY <1>1, <1>2 DEF StepsFit, StandsAt
<1>5. ASSUME NEW q \in Deployer, Starts(q)'
      PROVE  Starts(q) /\ (adapter = "plain" \/ deployers'[q].receipt = deployers[q].receipt)
  BY <1>2, <1>5 DEF Starts, StandsAt
<1>6. CASE adapter = "plain"
  <2>1. CreatedOnce
    BY <1>6 DEF DeployInv
  <2>2. CreatedOnce'
    BY <1>5, <2>1 DEF CreatedOnce
  <2>3. QED
    BY <1>3, <1>4, <1>6, <2>2 DEF DeployInv
<1>7. CASE adapter # "plain"
  <2>1. ClaimedOnce
    BY <1>7 DEF DeployInv
  <2>2. ClaimedOnce'
    BY <1>5, <1>7, <2>1 DEF ClaimedOnce
  <2>3. QED
    BY <1>3, <1>4, <1>7, <2>2 DEF DeployInv
<1>8. QED
  BY <1>6, <1>7

\* A step of the call alone.
LEMMA CallMovesOn ==
  ASSUME DeployInv, NEW p \in Deployer, NEW call \in {NoDeploy} \cup DeployerRow,
         deployers' = [deployers EXCEPT ![p] = call],
         UNCHANGED <<adapter, container, lastContainer, activation, startsSent>>,
         call # NoDeploy /\ call.receipt # NoContainer => call.receipt.id <= lastContainer,
         call # NoDeploy => /\ adapter = "plain" => call.step \in {"prior", "create", "confirm", "start"}
                            /\ call.step \in {"claim", "again", "start"} => call.receipt # NoContainer,
         call.step \in (IF adapter = "plain" THEN {"confirm", "start"} ELSE {"again", "start"}) =>
           Starts(p) /\ (adapter = "plain" \/ call.receipt = deployers[p].receipt)
  PROVE  DeployInv'
<1>1. DeployRows /\ ContainersInOrder
  BY DEF DeployInv
<1>2. DeployRows'
  BY <1>1 DEF DeployRows
<1>3. container' # NoContainer => container'.id <= lastContainer
  BY <1>1 DEF ContainersInOrder
<1>4. QED
  BY <1>2, <1>3, NoStartSent

LEMMA EndsQuietly ==
  ASSUME DeployInv, NEW p \in Deployer, DeployEnds(p),
         UNCHANGED <<adapter, container, lastContainer, activation, startsSent>>
  PROVE  DeployInv'
<1>1. NoDeploy.step \notin {"confirm", "start", "again"}
  BY NoDeployRow
<1>2. QED
  BY <1>1, CallMovesOn DEF DeployEnds, DeployBecomes

\* What happens to the container without a call.
LEMMA DockerMoves ==
  ASSUME DeployInv, UNCHANGED <<adapter, lastContainer, activation, deployers, startsSent>>,
         container' \in {NoContainer} \cup ContainerRow,
         container' # NoContainer => container'.id <= lastContainer
  PROVE  DeployInv'
<1>1. DeployRows /\ ContainersInOrder /\ \A q \in Deployer : StepsFit(q)
  BY DEF DeployInv
<1>2. DeployRows' /\ ContainersInOrder'
  BY <1>1 DEF DeployRows, ContainersInOrder
<1>3. \A q \in Deployer : StepsFit(q)' /\ Starts(q)' = Starts(q)
  BY <1>1 DEF StepsFit, Starts, StandsAt
<1>4. IF adapter' = "plain" THEN CreatedOnce' ELSE ClaimedOnce'
  BY <1>3 DEF DeployInv, CreatedOnce, ClaimedOnce
<1>5. QED
  BY <1>2, <1>3, <1>4 DEF DeployInv

LEMMA CreateStep ==
  ASSUME DeployInv, NEW p \in Deployer, CreateContainer(p)
  PROVE  DeployInv'
<1>1. DeployRows /\ ContainersInOrder /\ StepsFit(p)
  BY DEF DeployInv
<1>2. deployers[p].step = "create" /\ UNCHANGED <<adapter, activation, startsSent>>
  BY DEF CreateContainer, DockerOnly
<1>3. deployers[p] \in DeployerRow
  BY <1>1, <1>2, NoDeployRow DEF DeployRows
<1>4. CASE container # NoContainer \/ lastContainer = MaxContainer
  BY <1>2, <1>4, EndsQuietly DEF CreateContainer
<1>5. CASE ~(container # NoContainer \/ lastContainer = MaxContainer)
  <2> DEFINE made == [id |-> lastContainer + 1, build |-> deployers[p].build, state |-> "created"]
             call == [deployers[p] EXCEPT !.step = "confirm"]
  <2>1. /\ lastContainer' = lastContainer + 1 /\ container' = made
        /\ deployers' = [deployers EXCEPT ![p] = call] \/ deployers' = [deployers EXCEPT ![p] = NoDeploy]
    BY <1>5 DEF CreateContainer, DeployGoes, DeployBecomes, DeployEnds
  <2>2. lastContainer \in Nat /\ lastContainer + 1 \in ContainerId /\ lastContainer + 1 \in 0..MaxContainer
    BY <1>1, <1>5, DeploymentsAssumption DEF DeployRows, ContainerId
  <2>3. made \in ContainerRow /\ made.id = lastContainer + 1
    BY <1>3, <2>2 DEF ContainerRow, DeployerRow
  <2>4. call \in DeployerRow /\ call.step = "confirm" /\ call.receipt = deployers[p].receipt /\ call # NoDeploy
    BY <1>3, NoDeployRow DEF DeployerRow
  <2> HIDE DEF made, call
  <2>5. PICK after \in {call, NoDeploy} : deployers' = [deployers EXCEPT ![p] = after]
    BY <2>1
  <2>6. deployers'[p] = after /\ \A q \in Deployer : q # p => deployers'[q] = deployers[q]
    BY <1>1, <2>5 DEF DeployRows
  <2>7. DeployRows'
    BY <1>1, <1>2, <2>1, <2>2, <2>3, <2>4, <2>5 DEF DeployRows
  <2>8. ASSUME NEW q \in Deployer, deployers[q] # NoDeploy, deployers[q].receipt # NoContainer
        PROVE  deployers[q].receipt.id <= lastContainer + 1
    <3>1. deployers[q].receipt \in ContainerRow /\ deployers[q].receipt.id <= lastContainer
      BY <1>1, <2>8 DEF DeployRows, DeployerRow, ContainersInOrder
    <3>2. deployers[q].receipt.id \in Int
      BY <3>1 DEF ContainerRow, ContainerId
    <3>3. QED
      BY <2>2, <3>1, <3>2
  <2>9. ContainersInOrder'
    <3>1. container' # NoContainer => container'.id <= lastContainer'
      BY <2>1, <2>2, <2>3
    <3>2. ASSUME NEW q \in Deployer, deployers'[q] # NoDeploy, deployers'[q].receipt # NoContainer
          PROVE  deployers'[q].receipt.id <= lastContainer'
      <4>1. deployers[q] # NoDeploy /\ deployers[q].receipt = deployers'[q].receipt
        BY <1>3, <2>4, <2>5, <2>6, <3>2, NoDeployRow
      <4>2. QED
        BY <2>1, <2>8, <3>2, <4>1
    <3>3. QED
      BY <3>1, <3>2 DEF ContainersInOrder
  <2>10. ASSUME NEW q \in Deployer PROVE StepsFit(q)'
    <3>1. StepsFit(q)
      BY DEF DeployInv
    <3>2. CASE q = p
      BY <1>1, <1>2, <1>3, <2>4, <2>5, <2>6, <3>2, NoDeployRow DEF StepsFit, StandsAt
    <3>3. CASE q # p
      BY <1>2, <2>6, <3>1, <3>3 DEF StepsFit, StandsAt
    <3>4. QED
      BY <3>2, <3>3
  <2>11. CASE adapter = "plain"
    <3>1. CreatedOnce
      BY <2>11 DEF DeployInv
    <3>2. CASE lastContainer = 0
      <4>1. (\A i \in ContainerId : startsSent[i] = 0) /\ \A q \in Deployer : ~Starts(q)
        BY <3>1, <3>2 DEF CreatedOnce
      <4>2. \A q \in Deployer : Starts(q)' => q = p
        BY <1>2, <2>6, <4>1 DEF Starts, StandsAt
      <4>3. CreatedOnce'
        BY <1>2, <2>1, <3>2, <4>1, <4>2 DEF CreatedOnce
      <4>4. QED
        BY <1>2, <2>7, <2>9, <2>10, <2>11, <4>3 DEF DeployInv
    <3>3. CASE lastContainer # 0
      <4>1. CreatedOnce'
        BY <2>1, <2>2, <3>3 DEF CreatedOnce
      <4>2. QED
        BY <1>2, <2>7, <2>9, <2>10, <2>11, <4>1 DEF DeployInv
    <3>4. QED
      BY <3>2, <3>3
  <2>12. CASE adapter # "plain"
    <3>1. ClaimedOnce
      BY <2>12 DEF DeployInv
    <3>2. \A q \in Deployer : Starts(q)' => Starts(q) /\ deployers'[q] = deployers[q]
      BY <1>2, <2>4, <2>5, <2>6, <2>12, NoDeployRow DEF Starts, StandsAt
    <3>3. ClaimedOnce'
      BY <1>2, <3>1, <3>2 DEF ClaimedOnce
    <3>4. QED
      BY <1>2, <2>7, <2>9, <2>10, <2>12, <3>3 DEF DeployInv
  <2>13. QED
    BY <2>11, <2>12
<1>6. QED
  BY <1>4, <1>5

LEMMA ClaimStep ==
  ASSUME DeployInv, NEW p \in Deployer, ClaimActivation(p)
  PROVE  DeployInv'
<1>1. DeployRows /\ ContainersInOrder /\ StepsFit(p)
  BY DEF DeployInv
<1>2. deployers[p].step = "claim" /\ UNCHANGED <<adapter, container, lastContainer, startsSent>>
  BY DEF ClaimActivation
<1>3. deployers[p] \in DeployerRow
  BY <1>1, <1>2, NoDeployRow DEF DeployRows
<1>4. adapter # "plain" /\ deployers[p].receipt \in ContainerRow /\ ClaimedOnce
  BY <1>1, <1>2, <1>3, NoDeployRow DEF StepsFit, StandsAt, DeployerRow, DeployInv
<1>5. CASE activation # NoContainer
  <2>1. DeployEnds(p) /\ UNCHANGED activation
    BY <1>5 DEF ClaimActivation, Admits
  <2>2. QED
    BY <1>2, <2>1, EndsQuietly
<1>6. CASE activation = NoContainer
  <2> DEFINE row == [id |-> deployers[p].receipt.id, build |-> deployers[p].build]
             call == [deployers[p] EXCEPT !.step = "again"]
  <2>1. activation' = row /\ deployers' = [deployers EXCEPT ![p] = call]
    BY <1>6 DEF ClaimActivation, Admits, DeployGoes, DeployBecomes
  <2>2. row \in ActivationRow /\ row.id = deployers[p].receipt.id /\ row # NoContainer
    <3>1. deployers[p].receipt.id \in ContainerId /\ deployers[p].build \in Build /\ ContainerId \subseteq Nat
      BY <1>3, <1>4 DEF ContainerRow, DeployerRow, ContainerId
    <3>2. row \in ActivationRow /\ row \in [id : Nat, build : Build] /\ row.id = deployers[p].receipt.id
      BY <3>1 DEF ActivationRow
    <3>3. row # NoContainer
      BY <3>2, DeploymentsAssumption
    <3>4. QED
      BY <3>2, <3>3
  <2>3. call \in DeployerRow /\ call.step = "again" /\ call.receipt = deployers[p].receipt /\ call # NoDeploy
    BY <1>3, NoDeployRow DEF DeployerRow
  <2> HIDE DEF row, call
  <2>4. deployers'[p] = call /\ \A q \in Deployer : q # p => deployers'[q] = deployers[q]
    BY <1>1, <2>1 DEF DeployRows
  <2>5. DeployRows'
    BY <1>1, <1>2, <2>1, <2>2, <2>3 DEF DeployRows
  <2>6. ContainersInOrder'
    <3>1. \A q \in Deployer : deployers'[q].receipt = deployers[q].receipt /\ (deployers'[q] = NoDeploy <=> deployers[q] = NoDeploy)
      BY <1>3, <2>3, <2>4, NoDeployRow
    <3>2. QED
      BY <1>1, <1>2, <3>1 DEF ContainersInOrder
  <2>7. ASSUME NEW q \in Deployer PROVE StepsFit(q)'
    <3>1. StepsFit(q)
      BY DEF DeployInv
    <3>2. CASE q = p
      BY <1>1, <1>2, <1>3, <1>4, <2>3, <2>4, <3>2, NoDeployRow DEF StepsFit, StandsAt
    <3>3. CASE q # p
      BY <1>2, <2>4, <3>1, <3>3 DEF StepsFit, StandsAt
    <3>4. QED
      BY <3>2, <3>3
  <2>8. (\A i \in ContainerId : startsSent[i] = 0) /\ \A q \in Deployer : ~Starts(q)
    BY <1>4, <1>6 DEF ClaimedOnce
  <2>9. \A q \in Deployer : Starts(q)' => q = p
    BY <1>2, <2>4, <2>8 DEF Starts, StandsAt
  <2>10. ClaimedOnce'
    BY <1>2, <2>1, <2>2, <2>3, <2>4, <2>8, <2>9 DEF ClaimedOnce
  <2>11. QED
    BY <1>2, <1>4, <2>5, <2>6, <2>7, <2>10 DEF DeployInv
<1>7. QED
  BY <1>5, <1>6

LEMMA StartSends ==
  ASSUME DeployInv, NEW p \in Deployer, StartContainer(p)
  PROVE  DeployInv'
<1>1. DeployRows /\ ContainersInOrder /\ StepsFit(p)
  BY DEF DeployInv
<1>2. deployers[p].step = "start" /\ UNCHANGED <<adapter, lastContainer, activation>>
      /\ deployers' = [deployers EXCEPT ![p] = NoDeploy]
  BY DEF StartContainer, DockerOnly, DeployEnds, DeployBecomes
<1>3. deployers[p] \in DeployerRow
  BY <1>1, <1>2, NoDeployRow DEF DeployRows
<1>4. PICK id \in ContainerId : id = deployers[p].receipt.id
  BY <1>1, <1>2, <1>3, NoDeployRow DEF StepsFit, StandsAt, DeployerRow, ContainerRow
<1>5. /\ startsSent' = [startsSent EXCEPT ![id] = @ + 1]
      /\ container' = container \/ (container # NoContainer /\ container' = [container EXCEPT !.state = "running"])
  BY <1>4 DEF StartContainer
<1>6. Starts(p)
  BY <1>2 DEF Starts, StandsAt
<1>7. container' \in {NoContainer} \cup ContainerRow /\ (container' # NoContainer => container # NoContainer /\ container'.id = container.id)
  <2>1. CASE container' = container
    BY <1>1, <2>1 DEF DeployRows
  <2>2. CASE container # NoContainer /\ container' = [container EXCEPT !.state = "running"]
    <3>1. container \in ContainerRow
      BY <1>1, <2>2 DEF DeployRows
    <3>2. QED
      BY <2>2, <3>1 DEF ContainerRow
  <2>3. QED
    BY <1>5, <2>1, <2>2
<1>8. deployers'[p] = NoDeploy /\ \A q \in Deployer : q # p => deployers'[q] = deployers[q]
  BY <1>1, <1>2 DEF DeployRows
<1>9. DeployRows'
  BY <1>1, <1>2, <1>4, <1>5, <1>7 DEF DeployRows
<1>10. ContainersInOrder'
  BY <1>1, <1>2, <1>7, <1>8 DEF ContainersInOrder
<1>11. ASSUME NEW q \in Deployer PROVE StepsFit(q)'
  BY <1>2, <1>8 DEF StepsFit, StandsAt, DeployInv
<1>12. \A q \in Deployer : Starts(q)' => q # p /\ Starts(q)
  BY <1>2, <1>8, NoDeployRow DEF Starts, StandsAt
<1>13. CASE adapter = "plain"
  <2>1. CreatedOnce
    BY <1>13 DEF DeployInv
  <2>2. CreatedOnce'
    <3> SUFFICES ASSUME lastContainer <= 1
                 PROVE  /\ lastContainer # 0 /\ \A q \in Deployer : ~Starts(q)'
                        /\ \A i \in ContainerId : startsSent'[i] <= 1
      BY <1>2 DEF CreatedOnce
    <3>1. /\ lastContainer = 1 /\ \A i \in ContainerId : startsSent[i] = 0
          /\ \A q \in Deployer : Starts(q) => p = q
      BY <1>6, <2>1 DEF CreatedOnce
    <3>2. \A i \in ContainerId : startsSent'[i] \in {0, 1}
      BY <1>1, <1>4, <1>5, <3>1 DEF DeployRows
    <3>3. QED
      BY <1>12, <3>1, <3>2
  <2>3. QED
    BY <1>2, <1>9, <1>10, <1>11, <1>13, <2>2 DEF DeployInv
<1>14. CASE adapter # "plain"
  <2>1. ClaimedOnce
    BY <1>14 DEF DeployInv
  <2>2. /\ activation # NoContainer /\ id = activation.id /\ \A i \in ContainerId : startsSent[i] = 0
        /\ \A q \in Deployer : Starts(q) => p = q
    BY <1>4, <1>6, <2>1 DEF ClaimedOnce
  <2>3. /\ \A q \in Deployer : ~Starts(q)'
        /\ \A i \in ContainerId : startsSent'[i] > 0 => activation.id = i /\ startsSent'[i] <= 1
    <3>1. \A i \in ContainerId : startsSent'[i] = IF i = id THEN 1 ELSE 0
      BY <1>1, <1>4, <1>5, <2>2 DEF DeployRows
    <3>2. QED
      BY <1>12, <2>2, <3>1
  <2>4. ClaimedOnce'
    BY <1>2, <2>2, <2>3 DEF ClaimedOnce
  <2>5. QED
    BY <1>2, <1>9, <1>10, <1>11, <1>14, <2>4 DEF DeployInv
<1>15. QED
  BY <1>13, <1>14

LEMMA DeploymentsStep == DeployInv /\ [DeploymentsNext]_deploymentVars => DeployInv'
<1> SUFFICES ASSUME DeployInv, [DeploymentsNext]_deploymentVars PROVE DeployInv'
  OBVIOUS
<1>1. DeployRows /\ ContainersInOrder /\ \A q \in Deployer : StepsFit(q)
  BY DEF DeployInv
<1>2. CASE UNCHANGED deploymentVars
  BY <1>1, <1>2, DockerMoves DEF deploymentVars, DeployRows, ContainersInOrder
<1>3. CASE RemoveContainer
  BY <1>3, DockerMoves DEF RemoveContainer
<1>4. ASSUME NEW p \in Deployer, StopDeployment(p) PROVE DeployInv'
  <2>1. container \in ContainerRow /\ container' = [container EXCEPT !.state = "exited"]
    BY <1>1, <1>4 DEF StopDeployment, DeployRows
  <2>2. container' \in ContainerRow /\ container'.id = container.id
    BY <2>1 DEF ContainerRow
  <2>3. UNCHANGED <<adapter, lastContainer, activation, deployers, startsSent>>
    BY <1>4 DEF StopDeployment, DockerOnly
  <2>4. container.id <= lastContainer
    BY <1>1, <1>4 DEF StopDeployment, ContainersInOrder
  <2>5. QED
    BY <2>2, <2>3, <2>4, DockerMoves
<1>5. ASSUME NEW p \in Deployer, DeployBreaks(p) PROVE DeployInv'
  BY <1>5, EndsQuietly DEF DeployBreaks
<1>6. ASSUME NEW p \in Deployer, NEW build \in Build, BeginDeploy(p, build) PROVE DeployInv'
  <2>1. PICK why \in IF adapter = "plain" THEN {"start"} ELSE {"deploy", "activate"} :
          DeployBecomes(p, [step |-> IF adapter = "plain" THEN "prior" ELSE "inspect", why |-> why,
                            build |-> build, receipt |-> NoContainer])
    BY <1>6 DEF BeginDeploy
  <2> DEFINE call == [step |-> IF adapter = "plain" THEN "prior" ELSE "inspect", why |-> why,
                      build |-> build, receipt |-> NoContainer]
  <2>2. call \in DeployerRow /\ call.receipt = NoContainer /\ call.step = IF adapter = "plain" THEN "prior" ELSE "inspect"
    BY DEF DeployerRow
  <2>3. deployers' = [deployers EXCEPT ![p] = call] /\ UNCHANGED <<adapter, container, lastContainer, activation, startsSent>>
    BY <1>6, <2>1 DEF BeginDeploy, DeployBecomes
  <2> HIDE DEF call
  <2>4. QED
    BY <2>2, <2>3, CallMovesOn
<1>7. ASSUME NEW p \in Deployer, deployers[p].step # "idle"
      PROVE  /\ deployers[p] \in DeployerRow /\ StepsFit(p) /\ deployers[p] # NoDeploy
             /\ deployers[p].receipt # NoContainer => deployers[p].receipt.id <= lastContainer
  BY <1>1, <1>7, NoDeployRow DEF DeployRows, ContainersInOrder
\* A call that goes to another step with what it has.
<1>8. ASSUME NEW p \in Deployer, deployers[p].step # "idle",
             NEW step \in {"prior", "inspect", "activation", "create", "claim", "start"},
             NEW why \in {"start", "deploy", "activate"},
             deployers' = [deployers EXCEPT ![p] = [deployers[p] EXCEPT !.step = step, !.why = why]],
             UNCHANGED <<adapter, container, lastContainer, activation, startsSent>>,
             adapter = "plain" => step \in {"prior", "create", "start"},
             step = "claim" => deployers[p].receipt # NoContainer,
             step = "start" => adapter # "plain" /\ deployers[p].step = "again"
      PROVE  DeployInv'
  <2> DEFINE call == [deployers[p] EXCEPT !.step = step, !.why = why]
  <2>1. call \in DeployerRow /\ call.step = step /\ call.receipt = deployers[p].receipt
    BY <1>7, <1>8 DEF DeployerRow
  <2>2. step = "start" => Starts(p) /\ deployers[p].receipt # NoContainer
    BY <1>7, <1>8 DEF Starts, StandsAt, StepsFit
  <2>3. deployers' = [deployers EXCEPT ![p] = call]
    BY <1>8
  <2> HIDE DEF call
  <2>4. QED
    BY ZenonT(40), <1>7, <1>8, <2>1, <2>2, <2>3, CallMovesOn
<1>9. ASSUME NEW p \in Deployer, deployers[p].step # "idle", NEW step \in {"prior", "create", "claim", "start"},
             DeployGoes(p, step), UNCHANGED <<adapter, container, lastContainer, activation, startsSent>>,
             step = "claim" => adapter # "plain" /\ deployers[p].receipt # NoContainer,
             step = "start" => adapter # "plain" /\ deployers[p].step = "again"
      PROVE  DeployInv'
  <2>1. deployers[p].why \in {"start", "deploy", "activate"}
    BY <1>7, <1>9 DEF DeployerRow
  <2>2. [deployers[p] EXCEPT !.step = step] = [deployers[p] EXCEPT !.step = step, !.why = deployers[p].why]
    BY <1>7, <1>9 DEF DeployerRow
  <2>3. deployers' = [deployers EXCEPT ![p] = [deployers[p] EXCEPT !.step = step, !.why = deployers[p].why]]
    BY <1>9, <2>2 DEF DeployGoes, DeployBecomes
  <2>4. QED
    BY <1>8, <1>9, <2>1, <2>3
<1>10. ASSUME NEW p \in Deployer, Inspect(p) PROVE DeployInv'
  <2>1. deployers[p].step = "inspect" /\ UNCHANGED <<adapter, container, lastContainer, activation, startsSent>>
    BY <1>10 DEF Inspect, CallOnly
  <2>2. deployers[p] \in DeployerRow /\ adapter # "plain"
    BY <1>7, <2>1 DEF StepsFit, StandsAt
  <2> DEFINE call == [deployers[p] EXCEPT !.step = "activation", !.receipt = container]
  <2>3. call \in DeployerRow /\ call.step = "activation" /\ call.receipt = container
    BY <1>1, <2>2 DEF DeployerRow, DeployRows
  <2>4. deployers' = [deployers EXCEPT ![p] = call] \/ DeployEnds(p)
    BY <1>10 DEF Inspect, DeployBecomes
  <2> HIDE DEF call
  <2>5. call.receipt # NoContainer => call.receipt.id <= lastContainer
    BY <1>1, <2>3 DEF ContainersInOrder
  <2>6. QED
    BY <2>1, <2>2, <2>3, <2>4, <2>5, EndsQuietly, CallMovesOn
<1>11. ASSUME NEW p \in Deployer, ReadActivation(p) PROVE DeployInv'
  <2>1. deployers[p].step = "activation" /\ UNCHANGED <<adapter, container, lastContainer, activation, startsSent>>
    BY <1>11 DEF ReadActivation, CallOnly
  <2>2. adapter # "plain"
    BY <1>7, <2>1 DEF StepsFit, StandsAt
  <2>3. \/ DeployEnds(p) \/ DeployGoes(p, "prior")
        \/ deployers[p].receipt # NoContainer /\ DeployGoes(p, "claim")
    BY <1>11 DEF ReadActivation
  <2>4. CASE DeployEnds(p)
    BY <2>1, <2>4, EndsQuietly
  <2>5. CASE DeployGoes(p, "prior")
    BY <1>9, <2>1, <2>5
  <2>6. CASE deployers[p].receipt # NoContainer /\ DeployGoes(p, "claim")
    BY <1>9, <2>1, <2>2, <2>6
  <2>7. QED
    BY <2>3, <2>4, <2>5, <2>6
<1>12. ASSUME NEW p \in Deployer, LookForPrior(p) PROVE DeployInv'
  <2>1. deployers[p].step = "prior" /\ UNCHANGED <<adapter, container, lastContainer, activation, startsSent>>
    BY <1>12 DEF LookForPrior, CallOnly
  <2>2. DeployEnds(p) \/ (adapter # "plain" /\ ToActivate(p)) \/ DeployGoes(p, "create")
    BY <1>12 DEF LookForPrior
  <2>3. CASE adapter # "plain" /\ ToActivate(p)
    BY <1>8, <2>1, <2>3 DEF ToActivate, DeployBecomes
  <2>4. CASE DeployEnds(p)
    BY <2>1, <2>4, EndsQuietly
  <2>5. CASE DeployGoes(p, "create")
    BY <1>9, <2>1, <2>5
  <2>6. QED
    BY <2>2, <2>3, <2>4, <2>5
<1>13. ASSUME NEW p \in Deployer, ConfirmCreated(p) PROVE DeployInv'
  <2>1. deployers[p].step = "confirm" /\ UNCHANGED <<adapter, container, lastContainer, activation, startsSent>>
    BY <1>13 DEF ConfirmCreated, CallOnly
  <2>2. \/ DeployEnds(p)
        \/ /\ adapter = "plain" /\ container # NoContainer
           /\ deployers' = [deployers EXCEPT ![p] = [deployers[p] EXCEPT !.step = "start", !.receipt = container]]
        \/ adapter # "plain" /\ ToActivate(p)
    BY <1>13 DEF ConfirmCreated, Created, DeployBecomes
  <2>3. CASE adapter # "plain" /\ ToActivate(p)
    BY <1>8, <2>1, <2>3 DEF ToActivate, DeployBecomes
  <2>4. CASE /\ adapter = "plain" /\ container # NoContainer
             /\ deployers' = [deployers EXCEPT ![p] = [deployers[p] EXCEPT !.step = "start", !.receipt = container]]
    <3> DEFINE call == [deployers[p] EXCEPT !.step = "start", !.receipt = container]
    <3>1. call \in DeployerRow /\ call.step = "start" /\ call.receipt = container
      BY <1>1, <1>7, <2>1 DEF DeployerRow, DeployRows
    <3>2. Starts(p) /\ container.id <= lastContainer
      BY <1>1, <2>1, <2>4 DEF Starts, StandsAt, ContainersInOrder
    <3>3. deployers' = [deployers EXCEPT ![p] = call]
      BY <2>4
    <3> HIDE DEF call
    <3>4. QED
      BY <2>1, <2>4, <3>1, <3>2, <3>3, CallMovesOn
  <2>5. QED
    BY <2>1, <2>2, <2>3, <2>4, EndsQuietly
<1>14. ASSUME NEW p \in Deployer, InspectAgain(p) PROVE DeployInv'
  <2>1. deployers[p].step = "again" /\ UNCHANGED <<adapter, container, lastContainer, activation, startsSent>>
    BY <1>14 DEF InspectAgain, CallOnly
  <2>2. adapter # "plain"
    BY <1>7, <2>1 DEF StepsFit, StandsAt
  <2>3. DeployEnds(p) \/ DeployGoes(p, "start")
    BY <1>14 DEF InspectAgain
  <2>4. CASE DeployEnds(p)
    BY <2>1, <2>4, EndsQuietly
  <2>5. CASE DeployGoes(p, "start")
    BY <1>9, <2>1, <2>2, <2>5
  <2>6. QED
    BY <2>3, <2>4, <2>5
<1>15. QED
  BY <1>2, <1>3, <1>4, <1>5, <1>6, <1>10, <1>11, <1>12, <1>13, <1>14, CreateStep, ClaimStep, StartSends
     DEF DeploymentsNext

LEMMA OneWorkload == DeployInv => LaunchedOnce
<1> SUFFICES ASSUME DeployInv, NEW i \in ContainerId
             PROVE  /\ adapter = "recoverable" \/ lastContainer <= 1 => startsSent[i] <= 1
                    /\ adapter = "recoverable" /\ startsSent[i] > 0 => activation # NoContainer /\ activation.id = i
  BY DEF LaunchedOnce
<1>1. startsSent[i] \in Nat /\ adapter \in {"plain", "recoverable"}
  BY DEF DeployInv, DeployRows
<1>2. CASE adapter = "plain"
  BY <1>1, <1>2 DEF DeployInv, CreatedOnce
<1>3. CASE adapter = "recoverable"
  <2>1. ClaimedOnce
    BY <1>3 DEF DeployInv
  <2>2. startsSent[i] = 0 \/ startsSent[i] > 0
    BY <1>1
  <2>3. QED
    BY <1>1, <1>3, <2>1, <2>2 DEF ClaimedOnce
<1>4. QED
  BY <1>1, <1>2, <1>3

-----------------------------------------------------------------------------
(* Peers: deliveries tell what happened, a formal action happens once *)

PeerRequest == [sender : Endpoint, key : PeerKey, subject : {1, 2}, expected : Nat, grant : Nat]
PeerMessage ==
  [sender : Endpoint, key : PeerKey, subject : {1, 2}, expected : Nat, grant : Nat, recipientGrant : Nat]
PeerDelivery ==
  [row : {"pending", "sending", "delivered", "failed", "unknown"}, attempts : Nat, step : {"none", "claimed", "admitted"}]
PeerGrant == [endpoint : Endpoint, revoked : {"no", "yes"}]

PeerControlRows ==
  /\ peerChannel \in [state : {"requested", "active", "suspended", "closing", "closed"}, subject : {1, 2},
                      expired : {"no", "yes"}]
  /\ peerGrants \in Seq(PeerGrant) /\ currentGrant \in [Endpoint -> Nat]

PeerMessageRows ==
  /\ asked \subseteq PeerRequest
  /\ peerMessages \in Seq(PeerMessage) /\ delivery \in Seq(PeerDelivery)
  /\ Len(delivery) = Len(peerMessages)

\* What a row and its worker's position say of the message.
DeliveryTrue(at, arrived) ==
  /\ at.row = "delivered" => arrived
  /\ at.row \in {"failed", "pending"} => ~arrived /\ at.step = "none"
  /\ at.step = "claimed" => ~arrived /\ at.row \in {"sending", "unknown"}
  /\ at.step = "admitted" => at.row \in {"sending", "unknown", "delivered"}

DeliveriesTrue ==
  reached \subseteq 1..Len(delivery) /\ \A m \in 1..Len(delivery) : DeliveryTrue(delivery[m], m \in reached)

\* How far a formal action has come, and what its receipt tells of it.
FormalTrue ==
  /\ formalEffects \in {0, 1}
  /\ formal \in [state : {"none", "admitted", "unknown", "confirmed"}, told : {"no", "yes"}]
  /\ formalRun \in [invoke : {"none", "begun", "lost", "performed", "over"}, query : {"none", "confirmed"}]
  /\ formal.state = "none" => formalRun.invoke = "none" /\ formalEffects = 0 /\ formalRun.query = "none"
  /\ formalRun.invoke \in {"begun", "lost"} => formalEffects = 0
  /\ formalRun.invoke = "performed" \/ formalRun.query = "confirmed" \/ formal.state = "confirmed" => formalEffects = 1
  /\ formal.told = "yes" => formal.state = "confirmed"

PeerInv == PeerControlRows /\ PeerMessageRows /\ DeliveriesTrue /\ FormalTrue

LEMMA NothingSent == PeersInit => PeerInv
<1> SUFFICES ASSUME PeersInit PROVE PeerInv
  OBVIOUS
<1>1. PeerControlRows
  BY DEF PeersInit, PeerControlRows
<1>2. PeerMessageRows /\ DeliveriesTrue
  BY DEF PeersInit, PeerMessageRows, DeliveriesTrue
<1>3. FormalTrue
  BY DEF PeersInit, FormalTrue
<1>4. QED
  BY <1>1, <1>2, <1>3 DEF PeerInv

LEMMA OtherEndpoint == ASSUME NEW e \in Endpoint PROVE Other(e) \in Endpoint
<1>1. Cardinality({e}) = 1
  BY FS_Singleton
<1>2. Endpoint # {e}
  BY <1>1, PeersAssumption
<1>3. \E f \in Endpoint : f # e
  BY <1>2
<1>4. QED
  BY <1>3 DEF Other

LEMMA MessagesNumbered ==
  PeerMessageRows => Sent = 1..Len(delivery) /\ \A m \in Sent : delivery[m] \in PeerDelivery
  BY DEF PeerMessageRows, Sent

\* What a worker, a lapse or an operator writes to one row.
LEMMA DeliversStep ==
  ASSUME PeerInv, NEW m \in Sent, NEW position \in PeerDelivery, Delivers(m, position),
         NEW now, reached' = now, now \in {reached, reached \cup {m}},
         DeliveryTrue(position, m \in now)
  PROVE  PeerInv'
<1>1. PeerControlRows /\ PeerMessageRows /\ DeliveriesTrue /\ FormalTrue
  BY DEF PeerInv
<1>2. delivery' = [delivery EXCEPT ![m] = position]
      /\ UNCHANGED <<peerChannel, peerGrants, currentGrant, asked, peerMessages, formal, formalRun, formalEffects>>
  BY DEF Delivers, controlVars, messageVars, formalVars
<1>3. Sent = 1..Len(delivery)
  BY <1>1, MessagesNumbered
<1>4. /\ delivery' \in Seq(PeerDelivery) /\ Len(delivery') = Len(delivery) /\ delivery'[m] = position
      /\ \A n \in 1..Len(delivery) : n # m => delivery'[n] = delivery[n]
  BY <1>1, <1>2, <1>3 DEF PeerMessageRows
<1>5. PeerControlRows' /\ PeerMessageRows' /\ FormalTrue'
  BY <1>1, <1>2, <1>4 DEF PeerControlRows, PeerMessageRows, FormalTrue
<1>6. DeliveriesTrue'
  <2>1. now \subseteq 1..Len(delivery) /\ \A n \in 1..Len(delivery) : n # m => (n \in now <=> n \in reached)
    BY <1>1, <1>3 DEF DeliveriesTrue
  <2>2. ASSUME NEW n \in 1..Len(delivery) PROVE DeliveryTrue(delivery'[n], n \in now)
    <3>1. CASE n = m
      BY <1>4, <3>1
    <3>2. CASE n # m
      BY <1>1, <1>4, <2>1, <3>2 DEF DeliveriesTrue, DeliveryTrue
    <3>3. QED
      BY <3>1, <3>2
  <2>3. QED
    BY <1>4, <2>1, <2>2 DEF DeliveriesTrue
<1>7. QED
  BY <1>5, <1>6 DEF PeerInv

\* A step of the formal action alone.
LEMMA FormalMoves ==
  ASSUME PeerInv, UNCHANGED <<peerChannel, peerGrants, currentGrant, asked, peerMessages, delivery, reached>>,
         FormalTrue'
  PROVE  PeerInv'
<1>1. PeerControlRows' /\ PeerMessageRows' /\ DeliveriesTrue'
  BY DEF PeerInv, PeerControlRows, PeerMessageRows, DeliveriesTrue
<1>2. QED
  BY <1>1 DEF PeerInv

LEMMA FormalStep ==
  ASSUME PeerInv,
         \/ \E e \in Endpoint : \E m \in Sent : SubmitFormal(e, m)
         \/ PerformFormal \/ FinishFormal \/ FormalCallerDies \/ QueryFormal \/ RecordQuery
  PROVE  PeerInv'
<1>1. FormalTrue
  BY DEF PeerInv
<1>2. ASSUME NEW receipt, NEW run, FormalBecomes(receipt, run)
      PROVE  /\ UNCHANGED <<peerChannel, peerGrants, currentGrant, asked, peerMessages, delivery, reached>>
             /\ formal' = receipt /\ formalRun' = run
  BY <1>2 DEF FormalBecomes, controlVars, messageVars, deliveryVars
<1>3. /\ formal \in [state : {"none", "admitted", "unknown", "confirmed"}, told : {"no", "yes"}]
      /\ formalRun \in [invoke : {"none", "begun", "lost", "performed", "over"}, query : {"none", "confirmed"}]
      /\ formalEffects \in {0, 1}
  BY <1>1 DEF FormalTrue
<1>4. ASSUME NEW state \in {"unknown", "confirmed"}, state = "confirmed" => formalEffects = 1
      PROVE  /\ FormalFinished(state) \in [state : {"unknown", "confirmed"}, told : {"no", "yes"}]
             /\ FormalFinished(state).state = "confirmed" => formalEffects = 1
             /\ FormalFinished(state).told = "yes" => FormalFinished(state).state = "confirmed"
  BY <1>1, <1>3, <1>4 DEF FormalFinished, FormalTrue
<1>5. ASSUME NEW e \in Endpoint, NEW m \in Sent, SubmitFormal(e, m) PROVE PeerInv'
  <2>1. /\ formal.state = "none" /\ UNCHANGED formalEffects
        /\ FormalBecomes([formal EXCEPT !.state = "admitted"], [formalRun EXCEPT !.invoke = "begun"])
    BY <1>5 DEF SubmitFormal, FirstSubmission
  <2>2. /\ formal' = [formal EXCEPT !.state = "admitted"] /\ formalRun' = [formalRun EXCEPT !.invoke = "begun"]
        /\ UNCHANGED <<peerChannel, peerGrants, currentGrant, asked, peerMessages, delivery, reached>>
    BY <1>2, <2>1
  <2>3. FormalTrue'
    BY <1>1, <1>3, <2>1, <2>2 DEF FormalTrue
  <2>4. QED
    BY <2>2, <2>3, FormalMoves
<1>6. CASE PerformFormal
  <2>1. /\ formalRun.invoke \in {"begun", "lost"} /\ formalEffects' = formalEffects + 1
        /\ FormalBecomes(formal, [formalRun EXCEPT !.invoke = IF @ = "begun" THEN "performed" ELSE "over"])
    BY <1>6 DEF PerformFormal
  <2>2. /\ formal' = formal /\ formalRun' = [formalRun EXCEPT !.invoke = IF @ = "begun" THEN "performed" ELSE "over"]
        /\ UNCHANGED <<peerChannel, peerGrants, currentGrant, asked, peerMessages, delivery, reached>>
    BY <1>2, <2>1
  <2>3. formalRun'.invoke \in {"performed", "over"} /\ formalRun'.query = formalRun.query
        /\ formalRun' \in [invoke : {"performed", "over"}, query : {"none", "confirmed"}]
    BY <1>3, <2>2
  <2>4. FormalTrue'
    BY <1>1, <2>1, <2>2, <2>3 DEF FormalTrue
  <2>5. QED
    BY <2>2, <2>4, FormalMoves
<1>7. ASSUME NEW state \in {"unknown", "confirmed"}, NEW invoke \in {"lost", "over"}, UNCHANGED formalEffects,
             FormalBecomes(FormalFinished(state), [formalRun EXCEPT !.invoke = invoke]),
             formal.state # "none", state = "confirmed" => formalEffects = 1, invoke = "lost" => formalEffects = 0
      PROVE  PeerInv'
  <2>1. /\ formal' = FormalFinished(state) /\ formalRun' = [formalRun EXCEPT !.invoke = invoke]
        /\ UNCHANGED <<peerChannel, peerGrants, currentGrant, asked, peerMessages, delivery, reached>>
    BY <1>2, <1>7
  <2>2. formalRun' \in [invoke : {"lost", "over"}, query : {"none", "confirmed"}]
        /\ formalRun'.invoke = invoke /\ formalRun'.query = formalRun.query
    BY <1>3, <2>1
  <2>3. FormalTrue'
    BY <1>1, <1>4, <1>7, <2>1, <2>2 DEF FormalTrue
  <2>4. QED
    BY <2>1, <2>3, FormalMoves
<1>8. CASE FinishFormal
  <2>1. CASE /\ formalRun.invoke = "performed"
             /\ \E state \in {"confirmed", "unknown"} : FormalBecomes(FormalFinished(state), [formalRun EXCEPT !.invoke = "over"])
    <3>1. formal.state # "none" /\ formalEffects = 1
      BY <1>1, <2>1 DEF FormalTrue
    <3>2. QED
      BY <1>7, <1>8, <2>1, <3>1 DEF FinishFormal
  <2>2. CASE formalRun.invoke = "begun" /\ FormalBecomes(FormalFinished("unknown"), [formalRun EXCEPT !.invoke = "lost"])
    <3>1. formal.state # "none" /\ formalEffects = 0
      BY <1>1, <2>2 DEF FormalTrue
    <3>2. QED
      BY <1>7, <1>8, <2>2, <3>1 DEF FinishFormal
  <2>3. QED
    BY <1>8, <2>1, <2>2 DEF FinishFormal
<1>9. CASE FormalCallerDies
  <2>1. /\ formalRun.invoke \in {"begun", "performed"} /\ UNCHANGED formalEffects
        /\ FormalBecomes(formal, [formalRun EXCEPT !.invoke = IF @ = "begun" THEN "lost" ELSE "over"])
    BY <1>9 DEF FormalCallerDies
  <2>2. /\ formal' = formal /\ formalRun' = [formalRun EXCEPT !.invoke = IF @ = "begun" THEN "lost" ELSE "over"]
        /\ UNCHANGED <<peerChannel, peerGrants, currentGrant, asked, peerMessages, delivery, reached>>
    BY <1>2, <2>1
  <2>3. /\ formalRun' \in [invoke : {"lost", "over"}, query : {"none", "confirmed"}]
        /\ formalRun'.query = formalRun.query /\ (formalRun'.invoke = "lost" => formalRun.invoke = "begun")
    BY <1>3, <2>2
  <2>4. FormalTrue'
    BY <1>1, <2>1, <2>2, <2>3 DEF FormalTrue
  <2>5. QED
    BY <2>2, <2>4, FormalMoves
<1>10. CASE QueryFormal
  <2>1. /\ formal.state \in {"admitted", "unknown"} /\ formalEffects > 0 /\ UNCHANGED formalEffects
        /\ FormalBecomes(formal, [formalRun EXCEPT !.query = "confirmed"])
    BY <1>10 DEF QueryFormal
  <2>2. /\ formal' = formal /\ formalRun' = [formalRun EXCEPT !.query = "confirmed"]
        /\ UNCHANGED <<peerChannel, peerGrants, currentGrant, asked, peerMessages, delivery, reached>>
    BY <1>2, <2>1
  <2>3. FormalTrue'
    BY <1>1, <1>3, <2>1, <2>2 DEF FormalTrue
  <2>4. QED
    BY <2>2, <2>3, FormalMoves
<1>11. CASE RecordQuery
  <2>1. /\ formalRun.query = "confirmed" /\ UNCHANGED formalEffects
        /\ FormalBecomes(FormalFinished("confirmed"), [formalRun EXCEPT !.query = "none"])
    BY <1>11 DEF RecordQuery
  <2>2. /\ formal' = FormalFinished("confirmed") /\ formalRun' = [formalRun EXCEPT !.query = "none"]
        /\ UNCHANGED <<peerChannel, peerGrants, currentGrant, asked, peerMessages, delivery, reached>>
    BY <1>2, <2>1
  <2>3. formalEffects = 1
    BY <1>1, <2>1 DEF FormalTrue
  <2>4. FormalTrue'
    BY <1>1, <1>3, <1>4, <2>1, <2>2, <2>3 DEF FormalTrue
  <2>5. QED
    BY <2>2, <2>4, FormalMoves
<1>12. QED
  BY <1>5, <1>6, <1>8, <1>9, <1>10, <1>11

\* Controllers leave messages, deliveries and formal actions alone.
LEMMA ControllersStep ==
  ASSUME PeerInv,
         \/ \E e \in Endpoint : IssuePeerGrant(e) \/ (\E status \in {"active", "suspended", "revoked"} : SetEndpoint(e, status))
         \/ (\E state \in {"active", "suspended", "closing", "closed"} : TransitionChannel(state))
         \/ (\E subject \in {1, 2} : ChangeSubject(subject)) \/ ChannelExpires
         \/ (\E g \in DOMAIN peerGrants : RevokePeerGrant(g))
  PROVE  PeerInv'
<1>1. PeerControlRows
  BY DEF PeerInv
<1>2. ASSUME ControlsOnly, PeerControlRows' PROVE PeerInv'
  <2>1. UNCHANGED <<asked, peerMessages, delivery, reached, formal, formalRun, formalEffects>>
    BY <1>2 DEF ControlsOnly, messageVars, deliveryVars, formalVars
  <2>2. PeerMessageRows' /\ DeliveriesTrue' /\ FormalTrue'
    BY <2>1 DEF PeerInv, PeerMessageRows, DeliveriesTrue, FormalTrue
  <2>3. QED
    BY <1>2, <2>2 DEF PeerInv
<1>3. ASSUME NEW e \in Endpoint, IssuePeerGrant(e) PROVE PeerInv'
  <2>1. ControlsOnly /\ UNCHANGED peerChannel
    BY <1>3 DEF IssuePeerGrant, Controls
  <2>2. /\ peerGrants' = Append(peerGrants, [endpoint |-> e, revoked |-> "no"])
        /\ currentGrant' = [currentGrant EXCEPT ![e] = Len(peerGrants) + 1]
    BY <1>3 DEF IssuePeerGrant
  <2>3. [endpoint |-> e, revoked |-> "no"] \in PeerGrant /\ Len(peerGrants) + 1 \in Nat
    BY <1>1 DEF PeerGrant, PeerControlRows
  <2>4. PeerControlRows'
    BY <1>1, <2>1, <2>2, <2>3 DEF PeerControlRows
  <2>5. QED
    BY <1>2, <2>1, <2>4
<1>4. ASSUME NEW e \in Endpoint, NEW status \in {"active", "suspended", "revoked"}, SetEndpoint(e, status) PROVE PeerInv'
  BY <1>1, <1>2, <1>4 DEF SetEndpoint, Controls, PeerControlRows
<1>5. ASSUME NEW state \in {"active", "suspended", "closing", "closed"}, TransitionChannel(state) PROVE PeerInv'
  BY <1>1, <1>2, <1>5 DEF TransitionChannel, Controls, PeerControlRows
<1>6. ASSUME NEW subject \in {1, 2}, ChangeSubject(subject) PROVE PeerInv'
  BY <1>1, <1>2, <1>6 DEF ChangeSubject, Controls, PeerControlRows
<1>7. CASE ChannelExpires
  BY <1>1, <1>2, <1>7 DEF ChannelExpires, Controls, PeerControlRows
<1>8. ASSUME NEW g \in DOMAIN peerGrants, RevokePeerGrant(g) PROVE PeerInv'
  <2>1. ControlsOnly /\ peerGrants' = [peerGrants EXCEPT ![g].revoked = "yes"] /\ UNCHANGED <<peerChannel, currentGrant>>
    BY <1>8 DEF RevokePeerGrant, Controls
  <2>2. peerGrants' = [peerGrants EXCEPT ![g] = [peerGrants[g] EXCEPT !.revoked = "yes"]]
    BY <2>1
  <2>3. peerGrants[g] \in PeerGrant /\ [peerGrants[g] EXCEPT !.revoked = "yes"] \in PeerGrant
    <3>1. peerGrants[g] \in PeerGrant
      BY <1>1 DEF PeerControlRows
    <3>2. QED
      BY <3>1 DEF PeerGrant
  <2>4. peerGrants' \in Seq(PeerGrant)
    BY <1>1, <2>2, <2>3 DEF PeerControlRows
  <2>5. QED
    BY <1>1, <1>2, <2>1, <2>4 DEF PeerControlRows
<1>9. QED
  BY <1>3, <1>4, <1>5, <1>6, <1>7, <1>8

LEMMA RequestStep ==
  ASSUME PeerInv,
         (\E e \in Endpoint : \E key \in PeerKey : Ask(e, key)) \/ (\E r \in asked : SendPeerMessage(r))
  PROVE  PeerInv'
<1>1. PeerControlRows /\ PeerMessageRows /\ DeliveriesTrue /\ FormalTrue
  BY DEF PeerInv
<1>2. Len(peerMessages) \in Nat /\ Len(delivery) = Len(peerMessages) /\ \A e \in Endpoint : currentGrant[e] \in Nat
  BY <1>1 DEF PeerControlRows, PeerMessageRows
<1>3. ASSUME NEW e \in Endpoint, NEW key \in PeerKey, Ask(e, key) PROVE PeerInv'
  <2> DEFINE r == [sender |-> e, key |-> key, subject |-> peerChannel.subject,
                   expected |-> Len(peerMessages), grant |-> currentGrant[e]]
  <2>1. r \in PeerRequest
    BY <1>1, <1>2 DEF PeerRequest, PeerControlRows
  <2>2. asked' = asked \cup {r}
        /\ UNCHANGED <<peerChannel, peerGrants, currentGrant, peerMessages, delivery, reached, formal, formalRun, formalEffects>>
    BY <1>3 DEF Ask, controlVars, deliveryVars, formalVars
  <2> HIDE DEF r
  <2>3. PeerControlRows' /\ PeerMessageRows' /\ DeliveriesTrue' /\ FormalTrue'
    BY <1>1, <2>1, <2>2 DEF PeerControlRows, PeerMessageRows, DeliveriesTrue, FormalTrue
  <2>4. QED
    BY <2>3 DEF PeerInv
<1>4. ASSUME NEW r \in asked, SendPeerMessage(r) PROVE PeerInv'
  <2> DEFINE recipient == currentGrant[Other(r.sender)]
             message == [sender |-> r.sender, key |-> r.key, subject |-> r.subject,
                         expected |-> r.expected, grant |-> r.grant, recipientGrant |-> recipient]
             row == [row |-> "pending", attempts |-> 0, step |-> "none"]
  <2>1. r \in PeerRequest
    BY <1>1 DEF PeerMessageRows
  <2>2. recipient \in Nat
    BY <1>2, <2>1, OtherEndpoint DEF PeerRequest
  <2>3. message \in PeerMessage
    BY <2>1, <2>2 DEF PeerRequest, PeerMessage
  <2>4. row \in PeerDelivery /\ row.row = "pending" /\ row.step = "none"
    BY DEF PeerDelivery
  <2>5. /\ peerMessages' = Append(peerMessages, message) /\ delivery' = Append(delivery, row)
        /\ UNCHANGED <<peerChannel, peerGrants, currentGrant, asked, reached, formal, formalRun, formalEffects>>
    BY <1>4 DEF SendPeerMessage, controlVars, formalVars
  <2> HIDE DEF message, row, recipient
  <2>6. /\ delivery' \in Seq(PeerDelivery) /\ peerMessages' \in Seq(PeerMessage)
        /\ Len(delivery') = Len(delivery) + 1 /\ Len(peerMessages') = Len(peerMessages) + 1
        /\ delivery'[Len(delivery) + 1] = row /\ \A m \in 1..Len(delivery) : delivery'[m] = delivery[m]
    BY <1>1, <2>3, <2>4, <2>5 DEF PeerMessageRows
  <2>7. PeerControlRows' /\ PeerMessageRows' /\ FormalTrue'
    BY <1>1, <1>2, <2>5, <2>6 DEF PeerControlRows, PeerMessageRows, FormalTrue
  <2>8. DeliveriesTrue'
    <3>1. reached \subseteq 1..(Len(delivery) + 1) /\ Len(delivery) + 1 \notin reached
      BY <1>1, <1>2 DEF DeliveriesTrue
    <3>2. ASSUME NEW m \in 1..(Len(delivery) + 1) PROVE DeliveryTrue(delivery'[m], m \in reached)
      <4>1. CASE m = Len(delivery) + 1
        BY <2>4, <2>6, <3>1, <4>1 DEF DeliveryTrue
      <4>2. CASE m # Len(delivery) + 1
        <5>1. m \in 1..Len(delivery)
          BY <1>2, <4>2
        <5>2. QED
          BY <1>1, <2>6, <5>1 DEF DeliveriesTrue
      <4>3. QED
        BY <4>1, <4>2
    <3>3. QED
      BY <2>5, <2>6, <3>1, <3>2 DEF DeliveriesTrue
  <2>9. QED
    BY <2>7, <2>8 DEF PeerInv
<1>5. QED
  BY <1>3, <1>4

LEMMA OutboxStep ==
  ASSUME PeerInv, NEW m \in Sent,
         \/ ClaimDelivery(m) \/ CheckDelivery(m) \/ Transport(m) \/ DeliveryUnknown(m)
         \/ ReconcileDelivery(m) \/ AdmitRetry(m) \/ RetryDelivery(m)
  PROVE  PeerInv'
<1> DEFINE at == delivery[m]
<1>1. at \in PeerDelivery /\ DeliveryTrue(at, m \in reached)
  BY MessagesNumbered DEF PeerInv, DeliveriesTrue
<1>2. /\ at.row \in {"pending", "sending", "delivered", "failed", "unknown"} /\ at.attempts \in Nat
      /\ at.step \in {"none", "claimed", "admitted"}
  BY <1>1 DEF PeerDelivery
\* A new position with the reached as they are.
<1>3. ASSUME NEW position \in PeerDelivery, Delivers(m, position), UNCHANGED reached,
             DeliveryTrue(position, m \in reached)
      PROVE  PeerInv'
  BY <1>3, DeliversStep
<1>4. CASE ClaimDelivery(m)
  <2> DEFINE position == [row |-> "sending", attempts |-> at.attempts + 1, step |-> "claimed"]
  <2>1. position \in PeerDelivery /\ position.row = "sending" /\ position.step = "claimed"
    BY <1>2 DEF PeerDelivery
  <2>2. at.row = "pending" /\ Delivers(m, position) /\ UNCHANGED reached
    BY <1>4 DEF ClaimDelivery
  <2> HIDE DEF position
  <2>3. DeliveryTrue(position, m \in reached)
    BY <1>1, <2>1, <2>2 DEF DeliveryTrue
  <2>4. QED
    BY <1>3, <2>1, <2>2, <2>3
<1>5. CASE CheckDelivery(m)
  <2>1. at.step = "claimed" /\ m \notin reached /\ at.row \in {"sending", "unknown"} /\ UNCHANGED reached
    BY <1>1, <1>5 DEF CheckDelivery, DeliveryTrue
  <2>2. Outcome(m, "failed") = "failed"
    BY <2>1 DEF Outcome
  <2>3. PICK position \in {[at EXCEPT !.step = "admitted"], [at EXCEPT !.step = "none", !.row = "failed"]} :
          Delivers(m, position)
    BY <1>5, <2>2 DEF CheckDelivery
  <2>4. /\ position \in PeerDelivery
        /\ \/ position.step = "none" /\ position.row = "failed"
           \/ position.step = "admitted" /\ position.row = at.row
    BY <1>1, <2>3 DEF PeerDelivery
  <2>5. DeliveryTrue(position, m \in reached)
    BY <2>1, <2>4 DEF DeliveryTrue
  <2>6. QED
    BY <1>3, <2>1, <2>3, <2>4, <2>5
<1>6. CASE Transport(m)
  <2>1. PICK arrives \in {"no", "yes"} : \E row \in {"unknown", IF arrives = "yes" THEN "delivered" ELSE "failed"} :
          /\ reached' = IF arrives = "yes" THEN reached \cup {m} ELSE reached
          /\ row = "failed" => m \notin reached
          /\ Delivers(m, [delivery[m] EXCEPT !.step = "none", !.row = Outcome(m, row)])
    BY <1>6 DEF Transport
  <2>2. PICK row \in {"unknown", IF arrives = "yes" THEN "delivered" ELSE "failed"} :
          /\ reached' = IF arrives = "yes" THEN reached \cup {m} ELSE reached
          /\ row = "failed" => m \notin reached
          /\ Delivers(m, [delivery[m] EXCEPT !.step = "none", !.row = Outcome(m, row)])
    BY <2>1
  <2> DEFINE now == IF arrives = "yes" THEN reached \cup {m} ELSE reached
             position == [at EXCEPT !.step = "none", !.row = Outcome(m, row)]
  <2>3. at.row \in {"sending", "unknown", "delivered"}
    BY <1>1, <1>6 DEF Transport, DeliveryTrue
  <2>4. Outcome(m, row) \in {row, "delivered"} /\ (Outcome(m, row) # row => at.row = "delivered")
    BY <2>3 DEF Outcome
  <2>5. row \in {"unknown", "delivered", "failed"} /\ (row = "delivered" => arrives = "yes") /\ (row = "failed" => arrives = "no")
    BY <2>2
  <2>6. position \in PeerDelivery /\ position.step = "none" /\ position.row = Outcome(m, row)
    BY <1>1, <2>4, <2>5 DEF PeerDelivery
  <2>7. Delivers(m, position) /\ reached' = now /\ now \in {reached, reached \cup {m}}
        /\ (arrives = "yes" => m \in now) /\ (m \in reached => m \in now) /\ (arrives = "no" => now = reached)
    BY <2>2
  <2> HIDE DEF now, position
  <2>8. DeliveryTrue(position, m \in now)
    BY <1>1, <2>2, <2>4, <2>5, <2>6, <2>7 DEF DeliveryTrue
  <2>9. QED
    BY <2>6, <2>7, <2>8, DeliversStep
<1>7. CASE DeliveryUnknown(m)
  <2>1. at.row = "sending" /\ UNCHANGED reached
    BY <1>7 DEF DeliveryUnknown
  <2>2. PICK step \in {at.step, "none"} : Delivers(m, [at EXCEPT !.row = "unknown", !.step = step])
    BY <1>7 DEF DeliveryUnknown
  <2> DEFINE position == [at EXCEPT !.row = "unknown", !.step = step]
  <2>3. position \in PeerDelivery /\ position.row = "unknown" /\ position.step = step
    BY <1>1, <1>2 DEF PeerDelivery
  <2> HIDE DEF position
  <2>4. DeliveryTrue(position, m \in reached)
    BY <1>1, <2>1, <2>2, <2>3 DEF DeliveryTrue
  <2>5. QED
    BY <1>3, <2>1, <2>2, <2>3, <2>4 DEF position
<1>8. CASE ReconcileDelivery(m)
  <2>1. at.row = "unknown" /\ UNCHANGED reached
    BY <1>8 DEF ReconcileDelivery
  <2>2. PICK row \in {"delivered", "failed"} :
          /\ Delivers(m, [at EXCEPT !.row = row])
          /\ row = "delivered" => m \in reached
          /\ row = "failed" => m \notin reached /\ at.step = "none"
    BY <1>8 DEF ReconcileDelivery
  <2> DEFINE position == [at EXCEPT !.row = row]
  <2>3. position \in PeerDelivery /\ position.row = row /\ position.step = at.step
    BY <1>1, <1>2 DEF PeerDelivery
  <2>4. Delivers(m, position)
    BY <2>2
  <2> HIDE DEF position
  <2>5. DeliveryTrue(position, m \in reached)
    BY <1>1, <2>1, <2>2, <2>3 DEF DeliveryTrue
  <2>6. QED
    BY <1>3, <2>1, <2>3, <2>4, <2>5
<1>9. CASE AdmitRetry(m)
  BY <1>1, <1>3, <1>9 DEF AdmitRetry
<1>10. CASE RetryDelivery(m)
  <2>1. UNCHANGED reached
        /\ Delivers(m, IF at.row = "failed" THEN [at EXCEPT !.row = "pending"] ELSE at)
    BY <1>10 DEF RetryDelivery
  <2>2. CASE at.row # "failed"
    BY <1>1, <1>3, <2>1, <2>2
  <2>3. CASE at.row = "failed"
    <3> DEFINE position == [at EXCEPT !.row = "pending"]
    <3>1. position \in PeerDelivery /\ position.row = "pending" /\ position.step = at.step
      BY <1>1 DEF PeerDelivery
    <3>2. Delivers(m, position)
      BY <2>1, <2>3
    <3> HIDE DEF position
    <3>3. DeliveryTrue(position, m \in reached)
      BY <1>1, <2>3, <3>1 DEF DeliveryTrue
    <3>4. QED
      BY <1>3, <2>1, <3>1, <3>2, <3>3
  <2>4. QED
    BY <2>2, <2>3
<1>11. QED
  BY <1>4, <1>5, <1>6, <1>7, <1>8, <1>9, <1>10

LEMMA PeersStep == PeerInv /\ [PeersNext]_peerVars => PeerInv'
<1> SUFFICES ASSUME PeerInv, [PeersNext]_peerVars PROVE PeerInv'
  OBVIOUS
<1>1. ASSUME UNCHANGED <<peerChannel, peerGrants, currentGrant, asked, peerMessages, delivery, reached, formal,
                         formalRun, formalEffects>>
      PROVE  PeerInv'
  BY <1>1 DEF PeerInv, PeerControlRows, PeerMessageRows, DeliveriesTrue, FormalTrue
<1>2. CASE UNCHANGED peerVars
  BY <1>1, <1>2 DEF peerVars, controlVars, messageVars, deliveryVars, formalVars
<1>3. ASSUME HumansDo PROVE PeerInv'
  BY <1>1, <1>3 DEF HumansDo, controlVars, messageVars, deliveryVars, formalVars
<1>4. ASSUME NEW m \in Sent, EscalateDelivery(m) \/ RecordEscalation(m) \/ (\E human \in Human : ActOnTask(m, human))
      PROVE  PeerInv'
  BY <1>3, <1>4 DEF EscalateDelivery, RecordEscalation, ActOnTask, TaskBecomes
<1>5. QED
  BY <1>2, <1>4, ControllersStep, RequestStep, OutboxStep, FormalStep DEF PeersNext

LEMMA PeersWorkOnce == PeerInv => FormalOnce
<1> SUFFICES ASSUME PeerInv PROVE FormalOnce
  OBVIOUS
<1>1. \A m \in Sent : DeliveryTrue(delivery[m], m \in reached)
  BY MessagesNumbered DEF PeerInv, DeliveriesTrue
<1>2. FormalTrue
  BY DEF PeerInv
<1>3. QED
  BY <1>1, <1>2 DEF FormalOnce, DeliveryTrue, FormalTrue

\* What may be asked twice is done once, for any workers, identities, keys, removals and
\* late answers: the Task of a channel message, the start of a deployment, the formal
\* action of a peer (channels/assistant.js:57-85, developer/activation.js:36-50,
\* collaboration/peer/formal.js:14-18).
THEOREM AskedTwiceIsDoneOnce == RecordsSpec => []WorkHappensOnce
<1> DEFINE Inv == ChannelInv /\ DeployInv /\ PeerInv
<1>1. RecordsInit => Inv
  BY SMTT(30), NoMessages, NothingDeployed, NothingSent DEF RecordsInit
<1>2. [RecordsNext]_recordsVars =>
        [ChannelsNext]_channelVars /\ [DeploymentsNext]_deploymentVars /\ [PeersNext]_peerVars
  BY DEF RecordsNext, Only, recordsVars
<1>3. Inv /\ [RecordsNext]_recordsVars => Inv'
  BY <1>2, ChannelsStep, DeploymentsStep, PeersStep
<1>4. Inv => WorkHappensOnce
  BY MessagesDoWorkOnce, OneWorkload, PeersWorkOnce DEF WorkHappensOnce
<1> HIDE DEF Inv
<1>5. QED
  BY <1>1, <1>3, <1>4, PTL DEF RecordsSpec
-----------------------------------------------------------------------------
(* Papers: reviews stand, and follow what was there before *)

ReviewRecord == [reviewer : Peer, on : Nat \ {0}, says : Findings, previous : ReviewId \cup {NoReview}]
ReviewCall == [step : {"target", "previous", "write", "answer"}, id : ReviewId, record : ReviewRecord]
PlanCall == [step : {"preflight", "check", "replace"}, expected : Nat]

PaperRows ==
  /\ reviews \in [ReviewId -> {NoDocument} \cup ReviewRecord]
  /\ papers \in [Peer -> {NoPaper} \cup ReviewCall \cup PlanCall]
  /\ reviewsAnswered \subseteq [id : ReviewId, record : ReviewRecord]
  /\ taskPlan \in Nat /\ taskEnds \in {"live", "ended"} /\ afterEnd \in [Peer -> Nat]

\* A review is another's and follows none or one that is there.
Stands(document, documents) ==
  document # NoDocument =>
    /\ document.reviewer # Author
    /\ document.previous = NoReview \/ documents[document.previous] # NoDocument

\* How far a caller has come with its review.
CallStands(p, paper, documents) ==
  paper \in ReviewCall =>
    /\ paper.record.reviewer = p
    /\ paper.step # "target" => p # Author
    /\ paper.step \in {"write", "answer"} =>
         \/ paper.record.previous = NoReview
         \/ paper.record.previous # paper.id /\ documents[paper.record.previous] # NoDocument
    /\ paper.step = "answer" => documents[paper.id] = paper.record

\* A plan was changed after the end once at most, by who is not about to change it.
PlanStands(paper, changes) ==
  /\ changes <= 1 /\ (taskEnds = "live" => changes = 0)
  /\ changes = 1 => paper.step # "replace"

PapersInv ==
  /\ PaperRows
  /\ \A i \in ReviewId : Stands(reviews[i], reviews)
  /\ \A S \in SUBSET ReviewId : ~Circle(S)
  /\ \A a \in reviewsAnswered : reviews[a.id] = a.record
  /\ \A p \in Peer : CallStands(p, papers[p], reviews) /\ PlanStands(papers[p], afterEnd[p])

LEMMA PaperKinds ==
  /\ NoPaper \notin ReviewCall \cup PlanCall /\ NoPaper.step = "idle"
  /\ NoDocument \notin ReviewRecord /\ ReviewCall \cap PlanCall = {}
  BY DEF NoPaper, ReviewCall, PlanCall, NoDocument, ReviewRecord

LEMMA NoPapers == PapersInit => PapersInv
<1> SUFFICES ASSUME PapersInit PROVE PapersInv
  OBVIOUS
<1>1. PaperRows
  BY DEF PapersInit, PaperRows
<1>2. \A i \in ReviewId : reviews[i] = NoDocument
  BY DEF PapersInit
<1>3. \A S \in SUBSET ReviewId : ~Circle(S)
  BY <1>2 DEF Circle
<1>4. \A p \in Peer : papers[p] = NoPaper /\ afterEnd[p] = 0
  BY DEF PapersInit
<1>5. \A p \in Peer : CallStands(p, papers[p], reviews) /\ PlanStands(papers[p], afterEnd[p])
  BY <1>4, PaperKinds DEF CallStands, PlanStands
<1>6. QED
  BY <1>1, <1>2, <1>3, <1>5 DEF PapersInit, PapersInv, Stands

\* A step of one caller that leaves reviews and plan alone.
LEMMA PaperGoes ==
  ASSUME PapersInv, NEW p \in Peer, NEW paper \in {NoPaper} \cup ReviewCall \cup PlanCall,
         PaperBecomes(p, paper), reviews' = reviews, taskPlan' = taskPlan, afterEnd' = afterEnd,
         reviewsAnswered' \subseteq [id : ReviewId, record : ReviewRecord],
         \A a \in reviewsAnswered' : reviews[a.id] = a.record,
         CallStands(p, paper, reviews), afterEnd[p] = 1 => paper.step # "replace"
  PROVE  PapersInv'
<1>1. /\ PaperRows /\ papers' = [papers EXCEPT ![p] = paper] /\ taskEnds' = taskEnds
      /\ papers \in [Peer -> {NoPaper} \cup ReviewCall \cup PlanCall]
  BY DEF PapersInv, PaperRows, PaperBecomes
<1>2. PaperRows' /\ papers'[p] = paper /\ \A q \in Peer \ {p} : papers'[q] = papers[q]
  BY <1>1 DEF PaperRows
<1>3. \A S \in SUBSET ReviewId : ~Circle(S)'
  BY DEF PapersInv, Circle
<1>4. \A i \in ReviewId : Stands(reviews'[i], reviews')
  BY DEF PapersInv
<1>5. \A q \in Peer : CallStands(q, papers'[q], reviews')
  BY <1>2 DEF PapersInv
<1>6. \A q \in Peer : PlanStands(papers[q], afterEnd[q])
  BY DEF PapersInv
<1>7. \A q \in Peer : PlanStands(papers[q], afterEnd[q])'
  BY <1>1, <1>2, <1>6 DEF PlanStands
<1>8. QED
  BY <1>2, <1>3, <1>4, <1>5, <1>7 DEF PapersInv

\* A caller that refuses or breaks off.
LEMMA PaperEnds ==
  ASSUME PapersInv, NEW p \in Peer, RefusesPaper(p), UNCHANGED <<reviews, taskPlan, afterEnd, reviewsAnswered>>
  PROVE  PapersInv'
<1>1. CallStands(p, NoPaper, reviews) /\ NoPaper.step # "replace"
  BY PaperKinds DEF CallStands
<1>2. PaperRows /\ \A a \in reviewsAnswered : reviews[a.id] = a.record
  BY DEF PapersInv
<1>3. QED
  BY <1>1, <1>2, PaperGoes DEF RefusesPaper, PaperRows

\* Which call it is that is at a step.
LEMMA CallAt ==
  ASSUME PapersInv, NEW p \in Peer
  PROVE  /\ papers[p].step \in {"target", "previous", "write", "answer"} => papers[p] \in ReviewCall
         /\ papers[p].step \in {"preflight", "check", "replace"} => papers[p] \in PlanCall
         /\ CallStands(p, papers[p], reviews) /\ PlanStands(papers[p], afterEnd[p])
<1>1. papers[p] \in {NoPaper} \cup ReviewCall \cup PlanCall
  BY DEF PapersInv, PaperRows
<1>2. QED
  BY <1>1, PaperKinds DEF PapersInv, ReviewCall, PlanCall

\* A review is put where none was, or is the one that stands there.
LEMMA PutStep ==
  ASSUME PapersInv, NEW p \in Peer, PutReview(p)
  PROVE  PapersInv'
<1> DEFINE i == papers[p].id
           record == papers[p].record
           answering == [papers[p] EXCEPT !.step = "answer"]
<1>1. papers[p] \in ReviewCall /\ CallStands(p, papers[p], reviews) /\ PlanStands(papers[p], afterEnd[p])
  BY CallAt DEF PutReview
<1>2. papers[p].step = "write" /\ i \in ReviewId /\ record \in ReviewRecord
  BY <1>1 DEF PutReview, ReviewCall
<1>3. /\ answering \in ReviewCall /\ answering.step = "answer" /\ answering.id = i /\ answering.record = record
  BY <1>1 DEF ReviewCall
<1>4. PaperRows /\ \A a \in reviewsAnswered : reviews[a.id] = a.record
  BY DEF PapersInv
<1>5. UNCHANGED <<taskPlan, reviewsAnswered, afterEnd>>
  BY DEF PutReview
<1>6. /\ record.reviewer = p /\ p # Author
      /\ \/ record.previous = NoReview
         \/ record.previous # i /\ reviews[record.previous] # NoDocument
  BY <1>1, <1>2 DEF CallStands
<1>7. CASE RefusesPaper(p) /\ UNCHANGED reviews
  BY <1>5, <1>7, PaperEnds
<1>8. CASE PaperStep(p, "answer") /\ UNCHANGED reviews /\ reviews[i] = record
  <2>1. CallStands(p, answering, reviews)
    BY <1>3, <1>6, <1>8 DEF CallStands
  <2>2. PaperBecomes(p, answering)
    BY <1>8 DEF PaperStep
  <2>3. QED
    BY <1>3, <1>4, <1>5, <1>8, <2>1, <2>2, PaperGoes DEF PaperRows
<1>9. CASE PaperStep(p, "answer") /\ reviews[i] = NoDocument /\ reviews' = [reviews EXCEPT ![i] = record]
  <2> DEFINE documents == [reviews EXCEPT ![i] = record]
  <2>1. /\ documents[i] = record /\ record # NoDocument /\ i # NoReview
        /\ \A j \in ReviewId \ {i} : documents[j] = reviews[j]
        /\ documents \in [ReviewId -> {NoDocument} \cup ReviewRecord]
    BY <1>2, <1>4, PaperKinds, PapersAssumption DEF PaperRows
  <2>2. \A j \in ReviewId : reviews[j] # NoDocument => documents[j] = reviews[j]
    BY <1>9, <2>1
  <2>3. /\ papers' = [papers EXCEPT ![p] = answering] /\ readable' = readable /\ taskEnds' = taskEnds
    BY <1>9 DEF PaperStep, PaperBecomes
  <2> HIDE DEF answering, documents
  <2>4. PaperRows' /\ papers'[p] = answering /\ \A q \in Peer \ {p} : papers'[q] = papers[q]
    BY <1>3, <1>4, <1>5, <1>9, <2>1, <2>3 DEF PaperRows, documents
  <2>5. reviews' = documents
    BY <1>9 DEF documents
  <2>6. \A j \in ReviewId : reviews[j] \in {NoDocument} \cup ReviewRecord
    BY <1>4 DEF PaperRows
  <2>7. \A j \in ReviewId : reviews[j] # NoDocument =>
          reviews[j].reviewer # Author /\ reviews[j].previous # i
          /\ (reviews[j].previous = NoReview
                \/ (reviews[j].previous \in ReviewId /\ reviews[reviews[j].previous] # NoDocument))
    BY <1>9, <2>1, <2>6 DEF PapersInv, Stands, ReviewRecord
  <2>8. record.previous \in ReviewId \cup {NoReview}
    BY <1>2 DEF ReviewRecord
  <2>9. ASSUME NEW j \in ReviewId PROVE Stands(documents[j], documents)
    <3>1. CASE j = i
      BY <1>6, <2>1, <2>2, <2>8, <3>1 DEF Stands
    <3>2. CASE j # i
      BY <2>1, <2>2, <2>7, <3>2 DEF Stands
    <3>3. QED
      BY <3>1, <3>2
  <2>10. ASSUME NEW S \in SUBSET ReviewId, S # {}, \A j \in S : documents[j] # NoDocument /\ documents[j].previous \in S
         PROVE FALSE
    <3> DEFINE before == S \ {i}
    <3>1. \A j \in before : reviews[j] # NoDocument /\ reviews[j].previous \in before
      BY <2>1, <2>7, <2>10
    <3>2. before = {}
      BY <3>1 DEF PapersInv, Circle
    <3>3. i \in S /\ record.previous \in S
      BY <2>1, <2>10, <3>2
    <3>4. QED
      BY <1>6, <3>2, <3>3, PapersAssumption
  <2>11. \A S \in SUBSET ReviewId : ~Circle(S)'
    BY <2>5, <2>10 DEF Circle
  <2>12. ASSUME NEW a \in reviewsAnswered PROVE documents[a.id] = a.record
    <3>1. a.id \in ReviewId /\ a.record \in ReviewRecord
      BY <1>4 DEF PaperRows
    <3>2. QED
      BY <1>4, <2>2, <3>1, PaperKinds
  <2>13. ASSUME NEW q \in Peer PROVE CallStands(q, papers'[q], documents)
    <3>1. CASE q = p
      BY <1>3, <1>6, <2>1, <2>2, <2>4, <2>8, <3>1 DEF CallStands
    <3>2. CASE q # p
      <4>1. CallStands(q, papers[q], reviews)
        BY DEF PapersInv
      <4>2. papers[q] \in ReviewCall => /\ papers[q].id \in ReviewId /\ papers[q].record \in ReviewRecord
                                        /\ papers[q].record.previous \in ReviewId \cup {NoReview}
        BY DEF ReviewCall, ReviewRecord
      <4>3. QED
        BY <2>2, <2>4, <3>2, <4>1, <4>2, PaperKinds DEF CallStands
    <3>3. QED
      BY <3>1, <3>2
  <2>14. ASSUME NEW q \in Peer PROVE PlanStands(papers'[q], afterEnd[q])
    <3>1. PlanStands(papers[q], afterEnd[q])
      BY DEF PapersInv
    <3>2. QED
      BY <1>3, <2>4, <3>1 DEF PlanStands
  <2>15. \A q \in Peer : PlanStands(papers[q], afterEnd[q])'
    BY <1>5, <2>3, <2>14 DEF PlanStands
  <2>16. QED
    BY <1>5, <2>4, <2>5, <2>9, <2>11, <2>12, <2>13, <2>15 DEF PapersInv
<1>10. QED
  BY <1>7, <1>8, <1>9 DEF PutReview, SameReview

\* The other steps of a review.
LEMMA ReviewStep ==
  ASSUME PapersInv, NEW p \in Peer, ReadTarget(p) \/ ReadPrevious(p) \/ AnswerReview(p)
  PROVE  PapersInv'
<1>1. papers[p] \in ReviewCall /\ CallStands(p, papers[p], reviews)
  BY CallAt DEF ReadTarget, ReadPrevious, AnswerReview
<1>2. papers[p].id \in ReviewId /\ papers[p].record \in ReviewRecord
  BY <1>1 DEF ReviewCall
<1>3. PaperRows /\ \A a \in reviewsAnswered : reviews[a.id] = a.record
  BY DEF PapersInv
<1>4. CASE AnswerReview(p)
  <2>1. CallStands(p, NoPaper, reviews) /\ NoPaper.step # "replace" /\ reviews[papers[p].id] = papers[p].record
    BY <1>1, <1>4, PaperKinds DEF CallStands, AnswerReview
  <2>2. reviewsAnswered' \subseteq [id : ReviewId, record : ReviewRecord]
    BY <1>2, <1>3, <1>4 DEF AnswerReview, PaperRows
  <2>3. \A a \in reviewsAnswered' : reviews[a.id] = a.record
    BY <1>3, <1>4, <2>1 DEF AnswerReview
  <2>4. QED
    BY <1>4, <2>1, <2>2, <2>3, PaperGoes DEF AnswerReview, RefusesPaper
<1>5. ASSUME NEW step \in {"previous", "write"}, PaperStep(p, step), PapersSteady,
             CallStands(p, [papers[p] EXCEPT !.step = step], reviews)
      PROVE  PapersInv'
  <2>1. [papers[p] EXCEPT !.step = step] \in ReviewCall /\ [papers[p] EXCEPT !.step = step].step = step
    BY <1>1 DEF ReviewCall
  <2>2. QED
    BY <1>3, <1>5, <2>1, PaperGoes DEF PaperStep, PapersSteady, PaperRows
<1>6. ASSUME NEW step \in {"previous", "write"}
      PROVE  LET paper == [papers[p] EXCEPT !.step = step] IN
               paper.step = step /\ paper.id = papers[p].id /\ paper.record = papers[p].record
  BY <1>1 DEF ReviewCall
<1>7. CASE RefusesPaper(p) /\ PapersSteady
  BY <1>7, PaperEnds DEF PapersSteady
<1>8. CASE ReadTarget(p) /\ PaperStep(p, "previous") /\ p # Author
  BY <1>1, <1>5, <1>6, <1>8 DEF CallStands, ReadTarget
<1>9. CASE /\ ReadPrevious(p) /\ PaperStep(p, "write")
           /\ papers[p].record.previous = NoReview \/ FollowsReview(papers[p].record, papers[p].id)
  <2>1. p # Author
    BY <1>1, <1>9 DEF ReadPrevious, CallStands
  <2>2. CallStands(p, [papers[p] EXCEPT !.step = "write"], reviews)
    BY <1>1, <1>6, <1>9, <2>1 DEF CallStands, FollowsReview
  <2>3. QED
    BY <1>5, <1>9, <2>2 DEF ReadPrevious
<1>10. QED
  BY <1>4, <1>7, <1>8, <1>9 DEF ReadTarget, ReadPrevious

\* A plan is read, checked and written; the Task may end in between.
LEMMA PlanStep ==
  ASSUME PapersInv, NEW p \in Peer, Preflight(p) \/ CheckPlan(p) \/ WritePlan(p)
  PROVE  PapersInv'
<1>1. papers[p] \in PlanCall /\ PlanStands(papers[p], afterEnd[p])
  BY CallAt DEF Preflight, CheckPlan, WritePlan
<1>2. PaperRows /\ \A a \in reviewsAnswered : reviews[a.id] = a.record
  BY DEF PapersInv
<1>3. ASSUME NEW step \in {"check", "replace"}, PaperStep(p, step), PapersSteady, PlanOpen
      PROVE  PapersInv'
  <2> DEFINE paper == [papers[p] EXCEPT !.step = step]
  <2>1. paper \in PlanCall /\ paper \notin ReviewCall /\ CallStands(p, paper, reviews)
    BY <1>1, PaperKinds DEF PlanCall, CallStands
  <2>2. afterEnd[p] = 0
    BY <1>1, <1>3 DEF PlanStands, PlanOpen
  <2> HIDE DEF paper
  <2>3. PaperBecomes(p, paper)
    BY <1>3 DEF PaperStep, paper
  <2>4. QED
    BY <1>2, <1>3, <2>1, <2>2, <2>3, PaperGoes DEF PapersSteady, PaperRows
<1>4. CASE RefusesPaper(p) /\ PapersSteady
  BY <1>4, PaperEnds DEF PapersSteady
<1>5. CASE RefusesPaper(p) /\ UNCHANGED <<taskPlan, afterEnd, reviews, reviewsAnswered>>
  BY <1>5, PaperEnds
<1>6. CASE /\ WritePlan(p) /\ taskPlan' = taskPlan + 1
           /\ afterEnd' = [afterEnd EXCEPT ![p] = IF taskEnds = "ended" THEN @ + 1 ELSE @]
  <2>1. papers' = [papers EXCEPT ![p] = NoPaper] /\ UNCHANGED <<reviews, reviewsAnswered, taskEnds>>
    BY <1>6 DEF WritePlan, RefusesPaper, PaperBecomes
  <2>2. PaperRows' /\ papers'[p] = NoPaper /\ \A q \in Peer \ {p} : papers'[q] = papers[q]
    BY <1>2, <1>6, <2>1 DEF PaperRows
  <2>3. afterEnd[p] = 0
    BY <1>1, <1>2, <1>6 DEF PlanStands, WritePlan, PaperRows
  <2>4. /\ afterEnd'[p] = (IF taskEnds = "ended" THEN 1 ELSE 0)
        /\ \A q \in Peer \ {p} : afterEnd'[q] = afterEnd[q]
    BY <1>2, <1>6, <2>3 DEF PaperRows
  <2>5. \A q \in Peer : PlanStands(papers[q], afterEnd[q])
    BY DEF PapersInv
  <2>6. \A q \in Peer : PlanStands(papers[q], afterEnd[q])'
    BY <2>1, <2>2, <2>4, <2>5, PaperKinds DEF PlanStands
  <2>7. \A q \in Peer : CallStands(q, papers'[q], reviews')
    BY <2>1, <2>2, PaperKinds DEF PapersInv, CallStands
  <2>8. \A S \in SUBSET ReviewId : ~Circle(S)'
    BY <2>1 DEF PapersInv, Circle
  <2>9. QED
    BY <2>1, <2>2, <2>6, <2>7, <2>8 DEF PapersInv
<1>7. QED
  BY <1>3, <1>4, <1>5, <1>6 DEF Preflight, CheckPlan, WritePlan

LEMMA PapersStep == PapersInv /\ [PapersNext]_paperVars => PapersInv'
<1> SUFFICES ASSUME PapersInv, [PapersNext]_paperVars PROVE PapersInv'
  OBVIOUS
<1>1. PaperRows /\ \A a \in reviewsAnswered : reviews[a.id] = a.record
  BY DEF PapersInv
<1>2. ASSUME UNCHANGED <<reviews, taskPlan, taskEnds, papers, reviewsAnswered, afterEnd>> PROVE PapersInv'
  BY <1>2 DEF PapersInv, PaperRows, Circle, PlanStands
<1>3. CASE PlannedTaskEnds
  <2>1. \A p \in Peer : PlanStands(papers[p], afterEnd[p])'
    BY <1>3 DEF PlannedTaskEnds, PapersInv, PlanStands
  <2>2. QED
    BY <1>1, <1>3, <2>1 DEF PlannedTaskEnds, PapersInv, PaperRows, Circle
<1>4. ASSUME NEW p \in Peer, NEW i \in ReviewId, NEW on \in 1..MaxArtifact, NEW says \in Findings,
             NEW previous \in ReviewId \cup {NoReview}, BeginReview(p, i, on, says, previous)
      PROVE  PapersInv'
  <2> DEFINE paper == [step |-> "target", id |-> i,
                       record |-> [reviewer |-> p, on |-> on, says |-> says, previous |-> previous]]
  <2>1. paper \in ReviewCall /\ paper.step = "target" /\ paper.record.reviewer = p
    BY DEF ReviewCall, ReviewRecord
  <2>2. PaperBecomes(p, paper) /\ UNCHANGED <<reviews, taskPlan, reviewsAnswered, afterEnd>>
    BY <1>4 DEF BeginReview, BeginPaper
  <2> HIDE DEF paper
  <2>3. CallStands(p, paper, reviews)
    BY <2>1 DEF CallStands
  <2>4. QED
    BY <1>1, <2>1, <2>2, <2>3, PaperGoes DEF PaperRows
<1>5. ASSUME NEW p \in Peer, NEW expected \in 0..MaxPlan, BeginPlan(p, expected) PROVE PapersInv'
  <2> DEFINE paper == [step |-> "preflight", expected |-> expected]
  <2>1. paper \in PlanCall /\ paper \notin ReviewCall /\ paper.step = "preflight"
    BY PaperKinds DEF PlanCall
  <2>2. PaperBecomes(p, paper) /\ UNCHANGED <<reviews, taskPlan, reviewsAnswered, afterEnd>>
    BY <1>5 DEF BeginPlan, BeginPaper
  <2> HIDE DEF paper
  <2>3. CallStands(p, paper, reviews)
    BY <2>1 DEF CallStands
  <2>4. QED
    BY <1>1, <2>1, <2>2, <2>3, PaperGoes DEF PaperRows
<1>6. ASSUME NEW p \in Peer, BreaksPaper(p) PROVE PapersInv'
  BY <1>6, PaperEnds DEF BreaksPaper
<1>7. ASSUME NEW p \in Peer,
             \/ ReadTarget(p) \/ ReadPrevious(p) \/ PutReview(p) \/ AnswerReview(p)
             \/ Preflight(p) \/ CheckPlan(p) \/ WritePlan(p)
      PROVE  PapersInv'
  BY <1>7, PutStep, ReviewStep, PlanStep
<1>8. QED
  BY <1>2, <1>3, <1>4, <1>5, <1>6, <1>7 DEF PapersNext, PolicyFlips, paperVars

LEMMA PapersAreKept == PapersInv => PapersHold
  BY DEF PapersInv, PapersHold, Stands, PlanStands
-----------------------------------------------------------------------------
(* Evaluations: gates and comparisons agree *)

GradeRow == [status : {"graded", "cancelled", "error"}, score : 0..MaxScore, passed : {"yes", "no"}, checks : SUBSET CheckName]

RunPosition ==
  {BetweenCases} \cup [step : {"execute", "grade"}, case : Case] \cup [step : {"push"}, case : Case, record : GradeRow]

EvaluationRows ==
  /\ baseline \in [Case -> GradeRow] /\ runRecords \in [Case -> {NoRecord} \cup GradeRow]
  /\ runAt \in RunPosition /\ sunk \subseteq Case
  /\ runState \in {"running", "returned", "thrown"} /\ runAborted \in {"no", "yes"}

\* What was not graded to the end scores nothing.
ScoresOnlyGraded(record) == record.status # "graded" => record.score = 0

EvaluationInv ==
  /\ EvaluationRows
  /\ \A c \in Case : ScoresOnlyGraded(baseline[c])
  /\ \A c \in Case : runRecords[c] # NoRecord => ScoresOnlyGraded(runRecords[c])
  /\ runAt.step # "next" => runAt.case \in Unrecorded
  /\ runAt.step = "push" => ScoresOnlyGraded(runAt.record)
  /\ runState # "thrown" => sunk = Case \ Unrecorded
  /\ runState = "returned" => Unrecorded = {}

LEMMA GradeKinds ==
  /\ NoRecord \notin GradeRow
  /\ \A status \in {"error", "cancelled"} : /\ CaseRecord(status, 0, "no", {}) \in GradeRow
                                           /\ ScoresOnlyGraded(CaseRecord(status, 0, "no", {}))
  /\ Graded \subseteq GradeRow /\ \A grade \in Graded : grade.status = "graded"
  BY EvaluationsAssumption DEF NoRecord, GradeRow, CaseRecord, Graded, ScoresOnlyGraded

LEMMA NothingEvaluated == EvaluationsInit => EvaluationInv
<1> SUFFICES ASSUME EvaluationsInit PROVE EvaluationInv
  OBVIOUS
<1>1. \A c \in Case : baseline[c] \in Graded \cup {CaseRecord("error", 0, "no", {})}
  BY DEF EvaluationsInit
<1>2. \A c \in Case : baseline[c] \in GradeRow /\ ScoresOnlyGraded(baseline[c])
  BY <1>1, GradeKinds DEF ScoresOnlyGraded
<1>3. baseline \in [Case -> GradeRow]
  BY <1>2 DEF EvaluationsInit
<1>4. EvaluationRows
  BY <1>3 DEF EvaluationsInit, EvaluationRows, RunPosition
<1>5. Unrecorded = Case
  BY DEF EvaluationsInit, Unrecorded
<1>6. QED
  BY <1>2, <1>4, <1>5 DEF EvaluationsInit, EvaluationInv, BetweenCases

\* What is pushed for a case is a record that scores only when graded.
LEMMA PushedIsGrade ==
  ASSUME EvaluationInv, NEW record, record = Thrown \/ \E grade \in Graded : record = Counted(grade)
  PROVE  record \in GradeRow /\ ScoresOnlyGraded(record)
<1>1. Thrown \in GradeRow /\ ScoresOnlyGraded(Thrown)
  BY GradeKinds DEF Thrown
<1>2. ASSUME NEW grade \in Graded PROVE Counted(grade) \in GradeRow /\ ScoresOnlyGraded(Counted(grade))
  <2>1. grade \in GradeRow /\ grade.status = "graded"
    BY GradeKinds
  <2>2. CASE runAborted = "yes"
    <3> DEFINE counted == [grade EXCEPT !.status = "cancelled", !.score = 0, !.passed = "no"]
    <3>1. 0 \in 0..MaxScore
      BY EvaluationsAssumption
    <3>2. counted \in GradeRow
      BY <2>1, <3>1 DEF GradeRow
    <3>3. counted.score = 0
      BY <2>1 DEF GradeRow
    <3>4. Counted(grade) = counted
      BY <2>2 DEF Counted
    <3>5. QED
      BY <3>2, <3>3, <3>4 DEF ScoresOnlyGraded
  <2>3. CASE runAborted # "yes"
    BY <2>1, <2>3 DEF Counted, ScoresOnlyGraded
  <2>4. QED
    BY <2>2, <2>3
<1>3. QED
  BY <1>1, <1>2

LEMMA EvaluationsStep == EvaluationInv /\ [EvaluationsNext]_evaluationVars => EvaluationInv'
<1> SUFFICES ASSUME EvaluationInv, [EvaluationsNext]_evaluationVars PROVE EvaluationInv'
  OBVIOUS
<1>0. EvaluationRows
  BY DEF EvaluationInv
<1>1. ASSUME UNCHANGED <<baseline, runRecords, runAt, runState, sunk>>, runAborted' \in {"no", "yes"}
      PROVE  EvaluationInv'
  BY <1>1 DEF EvaluationInv, EvaluationRows, Unrecorded
<1>2. ASSUME NEW at \in RunPosition, RunGoes(at), at.step # "next" => at.case \in Unrecorded,
             at.step = "push" => ScoresOnlyGraded(at.record)
      PROVE  EvaluationInv'
  BY <1>2 DEF RunGoes, EvaluationInv, EvaluationRows, Unrecorded
<1>3. CASE NextCase
  <2> PICK c \in Unrecorded :
        RunGoes(IF runAborted = "yes" THEN [step |-> "push", case |-> c, record |-> CaseRecord("cancelled", 0, "no", {})]
                ELSE [step |-> "execute", case |-> c])
    BY <1>3 DEF NextCase
  <2> DEFINE cancelled == [step |-> "push", case |-> c, record |-> CaseRecord("cancelled", 0, "no", {})]
             execute == [step |-> "execute", case |-> c]
  <2>1. c \in Case
    BY DEF Unrecorded
  <2>2. cancelled \in RunPosition /\ execute \in RunPosition /\ ScoresOnlyGraded(cancelled.record)
    BY <2>1, GradeKinds DEF RunPosition
  <2>3. QED
    BY <1>2, <2>2
<1>4. ASSUME runAt.step \in {"execute", "grade"}, NEW record, Pushes(record),
             record = Thrown \/ \E grade \in Graded : record = Counted(grade)
      PROVE  EvaluationInv'
  <2>1. record \in GradeRow /\ ScoresOnlyGraded(record)
    BY <1>4, PushedIsGrade
  <2>2. runAt.case \in Unrecorded /\ runAt.case \in Case
    BY <1>4 DEF EvaluationInv, Unrecorded
  <2>3. [step |-> "push", case |-> runAt.case, record |-> record] \in RunPosition
    BY <2>1, <2>2 DEF RunPosition
  <2>4. QED
    BY <1>2, <1>4, <2>1, <2>2, <2>3 DEF Pushes
<1>5. CASE ExecuteCase
  <2>1. CASE RunGoes([step |-> "grade", case |-> runAt.case])
    <3>1. runAt.case \in Unrecorded /\ runAt.case \in Case
      BY <1>5 DEF EvaluationInv, Unrecorded, ExecuteCase
    <3>2. [step |-> "grade", case |-> runAt.case] \in RunPosition
      BY <3>1 DEF RunPosition
    <3>3. QED
      BY <1>2, <2>1, <3>1, <3>2
  <2>2. QED
    BY <1>4, <1>5, <2>1 DEF ExecuteCase
<1>6. CASE GradeCase
  BY <1>4, <1>6 DEF GradeCase
<1>7. CASE PushRecord
  <2> DEFINE c == runAt.case
             record == runAt.record
  <2>1. /\ c \in Unrecorded /\ c \in Case /\ record \in GradeRow /\ ScoresOnlyGraded(record)
    BY <1>0, <1>7 DEF EvaluationInv, EvaluationRows, RunPosition, PushRecord, Unrecorded, BetweenCases
  <2>2. runRecords' = [runRecords EXCEPT ![c] = record] /\ runAt' = BetweenCases /\ UNCHANGED <<baseline, runAborted>>
    BY <1>7 DEF PushRecord
  <2>3. /\ runRecords'[c] = record /\ record # NoRecord
        /\ \A d \in Case \ {c} : runRecords'[d] = runRecords[d]
        /\ runRecords' \in [Case -> {NoRecord} \cup GradeRow]
    BY <1>0, <2>1, <2>2, GradeKinds DEF EvaluationRows
  <2>4. Unrecorded' = Unrecorded \ {c}
    BY <2>3 DEF Unrecorded
  <2>5. \/ /\ sunk' = sunk \cup {c} /\ runState' = IF Unrecorded = {c} THEN "returned" ELSE "running"
        \/ runState' = "thrown" /\ sunk' = sunk
    BY <1>7 DEF PushRecord
  <2>6. sunk = Case \ Unrecorded
    BY <1>7 DEF PushRecord, EvaluationInv
  <2>7. EvaluationRows'
    BY <1>0, <2>1, <2>2, <2>3, <2>5 DEF EvaluationRows, RunPosition
  <2>8. \A d \in Case : runRecords'[d] # NoRecord => ScoresOnlyGraded(runRecords'[d])
    BY <2>1, <2>3 DEF EvaluationInv
  <2>9. BetweenCases.step = "next"
    BY DEF BetweenCases
  <2> HIDE DEF c, record
  <2>10. \A d \in Case : ScoresOnlyGraded(baseline'[d])
    BY <2>2 DEF EvaluationInv
  <2>11. /\ runState' # "thrown" => sunk' = Case \ Unrecorded'
         /\ runState' = "returned" => Unrecorded' = {}
    BY <2>1, <2>4, <2>5, <2>6
  <2>12. QED
    BY <2>2, <2>7, <2>8, <2>9, <2>10, <2>11 DEF EvaluationInv
<1>8. QED
  BY <1>1, <1>3, <1>5, <1>6, <1>7 DEF EvaluationsNext, AbortRun, evaluationVars, EvaluationRows, EvaluationInv

\* A candidate without regressions passes each gate its baseline passes.
LEMMA GatesDoAgree == EvaluationInv => GatesAgree
<1> SUFFICES ASSUME EvaluationInv, runState = "returned",
                    NEW minPassed \in 0..Cardinality(Case), NEW minScore \in 0..(MaxScore * Cardinality(Case)),
                    NEW minCategory \in 0..1
             PROVE  /\ Gate(runRecords, minPassed, minScore, minCategory) =>
                         ~(\E c \in Case : runRecords[c].status = "cancelled") /\ sunk = Case
                    /\ /\ Gate(baseline, minPassed, minScore, minCategory) /\ NoRegressions
                       /\ ~\E c \in Case : runRecords[c].status = "cancelled"
                       => Gate(runRecords, minPassed, minScore, minCategory)
  BY DEF GatesAgree
<1>1. Unrecorded = {} /\ sunk = Case
  BY DEF EvaluationInv
<1>2. \A c \in Case : runRecords[c] # NoRecord
  BY <1>1 DEF Unrecorded
<1>3. \A c \in Case : /\ runRecords[c] \in GradeRow /\ baseline[c] \in GradeRow
                      /\ ScoresOnlyGraded(runRecords[c]) /\ ScoresOnlyGraded(baseline[c])
  BY <1>2 DEF EvaluationInv, EvaluationRows
<1>4. Gate(runRecords, minPassed, minScore, minCategory) => ~\E c \in Case : runRecords[c].status = "cancelled"
  BY DEF Gate
<1>5. ASSUME Gate(baseline, minPassed, minScore, minCategory), NoRegressions,
             ~\E c \in Case : runRecords[c].status = "cancelled"
      PROVE  Gate(runRecords, minPassed, minScore, minCategory)
  <2>1. \A c \in Case : ~Regresses(baseline[c], runRecords[c])
    BY <1>5 DEF NoRegressions
  <2>2. \A c \in Case : runRecords[c].status \notin {"none", "cancelled"} /\ CheckName \subseteq runRecords[c].checks
    <3>1. \A c \in Case : CheckName \subseteq baseline[c].checks
      BY <1>5 DEF Gate
    <3>2. \A c \in Case : runRecords[c].status # "none"
      BY <1>3 DEF GradeRow
    <3>3. QED
      BY <1>5, <2>1, <3>1, <3>2 DEF Regresses
  <2>3. PassedCases(baseline) \subseteq PassedCases(runRecords) /\ PassedCases(runRecords) \subseteq Case
    BY <2>1 DEF PassedCases, Regresses
  <2>4. \A S \in SUBSET Case, T \in SUBSET Case : S \subseteq T =>
          Cardinality(S) <= Cardinality(T) /\ Cardinality(S) \in Nat /\ Cardinality(T) \in Nat
    BY EvaluationsAssumption, FS_Subset, FS_CardinalityType
  <2>5. Cardinality(PassedCases(runRecords)) >= minPassed
    <3>1. Cardinality(PassedCases(baseline)) >= minPassed
      BY <1>5 DEF Gate
    <3>2. QED
      BY <2>3, <2>4, <3>1
  <2>6. SumFunctionOnSet([c \in Case |-> ScoreOf(runRecords[c])], Case) >= minScore
    <3> DEFINE before == [c \in Case |-> ScoreOf(baseline[c])]
               after == [c \in Case |-> ScoreOf(runRecords[c])]
    <3>1. ASSUME NEW c \in Case PROVE before[c] \in Nat /\ after[c] \in Nat /\ before[c] <= after[c]
      <4>1. baseline[c].score \in Nat /\ runRecords[c].score \in Nat
        BY <1>3, EvaluationsAssumption DEF GradeRow
      <4>2. ScoreOf(baseline[c]) = baseline[c].score /\ ScoreOf(runRecords[c]) = runRecords[c].score
        BY <1>3 DEF ScoreOf, ScoresOnlyGraded
      <4>3. ~(runRecords[c].score < baseline[c].score)
        BY <2>1 DEF Regresses
      <4>4. QED
        BY <4>1, <4>2, <4>3
    <3>2. SumFunctionOnSet(before, Case) >= minScore
      BY <1>5 DEF Gate
    <3> HIDE DEF before, after
    <3>3. /\ SumFunctionOnSet(before, Case) <= SumFunctionOnSet(after, Case)
          /\ SumFunctionOnSet(before, Case) \in Nat /\ SumFunctionOnSet(after, Case) \in Nat
      BY <3>1, EvaluationsAssumption, SumMonotone, SumNat
    <3>4. SumFunctionOnSet(after, Case) >= minScore
      BY <3>2, <3>3, EvaluationsAssumption
    <3>5. QED
      BY <3>4 DEF after
  <2>7. ASSUME NEW c \in Case
        PROVE  Cardinality({d \in PassedCases(runRecords) : Category(d) = Category(c)}) >= minCategory
    <3>1. Cardinality({d \in PassedCases(baseline) : Category(d) = Category(c)}) >= minCategory
      BY <1>5 DEF Gate
    <3>2. {d \in PassedCases(baseline) : Category(d) = Category(c)} \subseteq
            {d \in PassedCases(runRecords) : Category(d) = Category(c)}
      BY <2>3
    <3>3. QED
      BY <2>3, <2>4, <3>1, <3>2
  <2>8. QED
    BY <2>2, <2>5, <2>6, <2>7 DEF Gate
<1>6. QED
  BY <1>1, <1>4, <1>5
-----------------------------------------------------------------------------
(* Peers: terms that ended before a delivery was admitted bar it for good *)

GrantNumbers == 1..Len(peerGrants)

PeerTermRows ==
  /\ peerEndpoint \in [Endpoint -> {"active", "suspended", "revoked"}]
  /\ \A e \in Endpoint : currentGrant[e] \in {0} \cup GrantNumbers
  /\ \A r \in asked : r.grant \in GrantNumbers
  /\ \A m \in Sent : peerMessages[m].grant \in GrantNumbers /\ peerMessages[m].recipientGrant \in GrantNumbers

\* Who wrote a message had read all before it, and used its key for no other.
WrittenInOrder ==
  /\ \A m \in Sent : peerMessages[m].expected = m - 1
  /\ \A m, n \in Sent :
       peerMessages[m].sender = peerMessages[n].sender /\ peerMessages[m].key = peerMessages[n].key => m = n

\* What bars a message does not go away, and keeps its worker from being admitted.
BarredStays ==
  \A m \in barred : m \in Sent /\ m \notin reached /\ delivery[m].step # "admitted" /\ EndedForGood(m)

PeerTermsInv == PeerTermRows /\ WrittenInOrder /\ BarredStays

LEMMA NoTerms == PeersInit => PeerTermsInv
  BY DEF PeersInit, PeerTermsInv, PeerTermRows, WrittenInOrder, BarredStays, Sent, GrantNumbers

\* How controllers may move: forward, and a new grant takes a new number.
ControlsGoForward ==
  /\ peerGrants' \in Seq(PeerGrant) /\ Len(peerGrants) <= Len(peerGrants')
  /\ \A g \in GrantNumbers : /\ peerGrants'[g].endpoint = peerGrants[g].endpoint
                             /\ peerGrants[g].revoked = "yes" => peerGrants'[g].revoked = "yes"
  /\ \A e \in Endpoint : currentGrant'[e] \in {currentGrant[e]} \cup (GrantNumbers' \ GrantNumbers)
  /\ peerEndpoint' \in [Endpoint -> {"active", "suspended", "revoked"}]
  /\ \A e \in Endpoint : peerEndpoint[e] = "revoked" => peerEndpoint'[e] = "revoked"
  /\ peerChannel.expired = "yes" => peerChannel'.expired = "yes"
  /\ peerChannel.state \in {"closing", "closed"} => peerChannel'.state \in {"closing", "closed"}

\* A grant that was issued belongs to an endpoint.
LEMMA GrantsAreEndpoints == PeerInv => Len(peerGrants) \in Nat /\ \A g \in GrantNumbers : peerGrants[g].endpoint \in Endpoint
<1> SUFFICES ASSUME PeerInv PROVE Len(peerGrants) \in Nat /\ \A g \in GrantNumbers : peerGrants[g].endpoint \in Endpoint
  OBVIOUS
<1>1. peerGrants \in Seq(PeerGrant)
  BY DEF PeerInv, PeerControlRows
<1>2. \A g \in GrantNumbers : peerGrants[g] \in PeerGrant
  BY <1>1 DEF GrantNumbers
<1>3. QED
  BY <1>1, <1>2 DEF PeerGrant

\* Ended terms stay ended.
LEMMA EndedStays ==
  ASSUME PeerInv, PeerTermsInv, ControlsGoForward, peerMessages' = peerMessages, NEW m \in Sent, EndedForGood(m)
  PROVE  EndedForGood(m)'
<1> DEFINE pinned == {peerMessages[m].grant, peerMessages[m].recipientGrant}
<1>1. pinned \subseteq GrantNumbers
  BY DEF PeerTermsInv, PeerTermRows
<1>2. ASSUME NEW g \in pinned,
             \/ currentGrant[peerGrants[g].endpoint] # g \/ peerGrants[g].revoked = "yes"
             \/ peerEndpoint[peerGrants[g].endpoint] = "revoked"
      PROVE  \/ currentGrant'[peerGrants'[g].endpoint] # g \/ peerGrants'[g].revoked = "yes"
             \/ peerEndpoint'[peerGrants'[g].endpoint] = "revoked"
  <2>1. g \in GrantNumbers /\ peerGrants'[g].endpoint = peerGrants[g].endpoint /\ peerGrants[g].endpoint \in Endpoint
    BY <1>1, GrantsAreEndpoints DEF ControlsGoForward
  <2>2. QED
    BY <1>2, <2>1 DEF ControlsGoForward
<1>3. CASE peerChannel.expired = "yes" \/ peerChannel.state \in {"closing", "closed"}
  BY <1>3 DEF ControlsGoForward, EndedForGood
<1>4. CASE \E g \in pinned : \/ currentGrant[peerGrants[g].endpoint] # g \/ peerGrants[g].revoked = "yes"
                             \/ peerEndpoint[peerGrants[g].endpoint] = "revoked"
  BY <1>2, <1>4 DEF EndedForGood
<1>5. QED
  BY <1>3, <1>4 DEF EndedForGood

LEMMA ControlledTerms ==
  ASSUME PeerInv, PeerTermsInv, ControlsOnly, ControlsGoForward
  PROVE  PeerTermsInv'
<1>1. UNCHANGED <<asked, peerMessages, delivery, reached>> /\ Sent' = Sent
  BY DEF ControlsOnly, messageVars, deliveryVars, Sent
<1>2. GrantNumbers \subseteq GrantNumbers'
  BY GrantsAreEndpoints DEF ControlsGoForward, GrantNumbers
<1>3. PeerTermRows'
  BY <1>1, <1>2 DEF PeerTermsInv, PeerTermRows, ControlsGoForward
<1>4. WrittenInOrder'
  BY <1>1 DEF PeerTermsInv, WrittenInOrder
<1>5. \A m \in barred : m \in Sent /\ EndedForGood(m)'
  BY <1>1, EndedStays DEF PeerTermsInv, BarredStays
<1>6. barred' = barred \cup {m \in Sent : delivery[m].step # "admitted" /\ m \notin reached /\ EndedForGood(m)'}
  BY DEF ControlsOnly
<1>7. \A m \in barred' : m \in Sent /\ m \notin reached /\ delivery[m].step # "admitted" /\ EndedForGood(m)'
  BY <1>5, <1>6 DEF PeerTermsInv, BarredStays
<1>8. BarredStays'
  BY <1>1, <1>7 DEF BarredStays
<1>9. QED
  BY <1>3, <1>4, <1>8 DEF PeerTermsInv

LEMMA ControllersGoForward ==
  ASSUME PeerInv, PeerTermsInv,
         \/ \E e \in Endpoint : IssuePeerGrant(e) \/ (\E status \in {"active", "suspended", "revoked"} : SetEndpoint(e, status))
         \/ (\E state \in {"active", "suspended", "closing", "closed"} : TransitionChannel(state))
         \/ (\E subject \in {1, 2} : ChangeSubject(subject)) \/ ChannelExpires
         \/ (\E g \in DOMAIN peerGrants : RevokePeerGrant(g))
  PROVE  ControlsOnly /\ ControlsGoForward
<1>1. /\ PeerControlRows /\ peerEndpoint \in [Endpoint -> {"active", "suspended", "revoked"}]
      /\ peerGrants \in Seq(PeerGrant) /\ Len(peerGrants) \in Nat /\ currentGrant \in [Endpoint -> Nat]
      /\ peerChannel \in [state : {"requested", "active", "suspended", "closing", "closed"}, subject : {1, 2},
                          expired : {"no", "yes"}]
  BY DEF PeerInv, PeerTermsInv, PeerTermRows, PeerControlRows
<1>2. ASSUME NEW e \in Endpoint, IssuePeerGrant(e) PROVE ControlsOnly /\ ControlsGoForward
  <2>1. ControlsOnly /\ UNCHANGED <<peerEndpoint, peerChannel>>
    BY <1>2 DEF IssuePeerGrant, Controls
  <2>2. /\ peerGrants' = Append(peerGrants, [endpoint |-> e, revoked |-> "no"])
        /\ currentGrant' = [currentGrant EXCEPT ![e] = Len(peerGrants) + 1]
    BY <1>2 DEF IssuePeerGrant
  <2>3. [endpoint |-> e, revoked |-> "no"] \in PeerGrant
    BY DEF PeerGrant
  <2>4. /\ peerGrants' \in Seq(PeerGrant) /\ Len(peerGrants') = Len(peerGrants) + 1
        /\ \A g \in 1..Len(peerGrants) : peerGrants'[g] = peerGrants[g]
    BY <1>1, <2>2, <2>3
  <2>5. \A f \in Endpoint : currentGrant'[f] \in {currentGrant[f]} \cup ((1..Len(peerGrants')) \ (1..Len(peerGrants)))
    BY <1>1, <2>2, <2>4
  <2>6. QED
    BY <1>1, <2>1, <2>4, <2>5 DEF ControlsGoForward, GrantNumbers
<1>3. ASSUME ControlsOnly, UNCHANGED <<peerGrants, currentGrant>>,
             peerEndpoint' \in [Endpoint -> {"active", "suspended", "revoked"}],
             \A e \in Endpoint : peerEndpoint[e] = "revoked" => peerEndpoint'[e] = "revoked",
             peerChannel.expired = "yes" => peerChannel'.expired = "yes",
             peerChannel.state \in {"closing", "closed"} => peerChannel'.state \in {"closing", "closed"}
      PROVE  ControlsOnly /\ ControlsGoForward
  BY <1>1, <1>3 DEF ControlsGoForward, GrantNumbers
<1>4. ASSUME NEW e \in Endpoint, NEW status \in {"active", "suspended", "revoked"}, SetEndpoint(e, status)
      PROVE  ControlsOnly /\ ControlsGoForward
  BY <1>1, <1>3, <1>4 DEF SetEndpoint, Controls
<1>5. ASSUME NEW state \in {"active", "suspended", "closing", "closed"}, TransitionChannel(state)
      PROVE  ControlsOnly /\ ControlsGoForward
  <2>1. /\ peerChannel' = [peerChannel EXCEPT !.state = state] /\ state \in Transitions[peerChannel.state]
        /\ ControlsOnly /\ UNCHANGED <<peerGrants, currentGrant, peerEndpoint>>
    BY <1>5 DEF TransitionChannel, Controls
  <2>2. peerChannel'.expired = peerChannel.expired /\ peerChannel'.state = state
    BY <1>1, <2>1
  <2>3. peerChannel.state \in {"closing", "closed"} => state \in {"closing", "closed"}
    BY <2>1 DEF Transitions
  <2>4. QED
    BY <1>1, <1>3, <2>1, <2>2, <2>3
<1>6. ASSUME NEW subject \in {1, 2}, ChangeSubject(subject) PROVE ControlsOnly /\ ControlsGoForward
  BY <1>1, <1>3, <1>6 DEF ChangeSubject, Controls
<1>7. CASE ChannelExpires
  BY <1>1, <1>3, <1>7 DEF ChannelExpires, Controls
<1>8. ASSUME NEW g \in DOMAIN peerGrants, RevokePeerGrant(g) PROVE ControlsOnly /\ ControlsGoForward
  <2>1. ControlsOnly /\ UNCHANGED <<peerEndpoint, peerChannel, currentGrant>>
    BY <1>8 DEF RevokePeerGrant, Controls
  <2>2. peerGrants' = [peerGrants EXCEPT ![g] = [peerGrants[g] EXCEPT !.revoked = "yes"]]
    BY <1>8 DEF RevokePeerGrant
  <2>3. peerGrants[g] \in PeerGrant
    BY <1>1
  <2> DEFINE revoked == [peerGrants[g] EXCEPT !.revoked = "yes"]
  <2>4. revoked \in PeerGrant /\ revoked.endpoint = peerGrants[g].endpoint /\ revoked.revoked = "yes"
    BY <2>3 DEF PeerGrant
  <2> HIDE DEF revoked
  <2>5. /\ peerGrants' \in Seq(PeerGrant) /\ Len(peerGrants') = Len(peerGrants)
        /\ \A h \in 1..Len(peerGrants) : peerGrants'[h] = IF h = g THEN revoked ELSE peerGrants[h]
    BY <1>1, <2>2, <2>4 DEF revoked
  <2>6. /\ GrantNumbers' = GrantNumbers /\ Len(peerGrants) <= Len(peerGrants')
        /\ \A h \in GrantNumbers : peerGrants'[h] = IF h = g THEN revoked ELSE peerGrants[h]
    BY <1>1, <2>5 DEF GrantNumbers
  <2>7. \A h \in GrantNumbers : /\ peerGrants'[h].endpoint = peerGrants[h].endpoint
                                /\ peerGrants[h].revoked = "yes" => peerGrants'[h].revoked = "yes"
    BY <2>4, <2>6
  <2>8. QED
    BY <1>1, <2>1, <2>5, <2>6, <2>7 DEF ControlsGoForward
<1>9. QED
  BY <1>2, <1>4, <1>5, <1>6, <1>7, <1>8

\* A request is formed from grants that were issued; a message is written after all before it.
LEMMA RequestedTerms ==
  ASSUME PeerInv, PeerTermsInv,
         (\E e \in Endpoint : \E key \in PeerKey : Ask(e, key)) \/ (\E r \in asked : SendPeerMessage(r))
  PROVE  PeerTermsInv'
<1>1. /\ PeerControlRows /\ PeerMessageRows /\ PeerTermRows /\ WrittenInOrder /\ BarredStays
  BY DEF PeerInv, PeerTermsInv
<1>2. /\ peerMessages \in Seq(PeerMessage) /\ delivery \in Seq(PeerDelivery) /\ Len(delivery) = Len(peerMessages)
      /\ Sent = 1..Len(peerMessages) /\ Len(peerMessages) \in Nat
  BY <1>1 DEF PeerMessageRows, Sent
<1>3. ASSUME NEW e \in Endpoint, NEW key \in PeerKey, Ask(e, key) PROVE PeerTermsInv'
  <2> DEFINE r == [sender |-> e, key |-> key, subject |-> peerChannel.subject,
                   expected |-> Len(peerMessages), grant |-> currentGrant[e]]
  <2>1. /\ asked' = asked \cup {r}
        /\ UNCHANGED <<peerEndpoint, peerChannel, peerGrants, currentGrant, peerMessages, delivery, reached, barred>>
    BY <1>3 DEF Ask, controlVars, deliveryVars
  <2>2. r.grant = currentGrant[e] /\ currentGrant[e] \in GrantNumbers
    BY <1>1, <1>3 DEF Ask, PeerTermRows
  <2> HIDE DEF r
  <2>3. PeerTermRows'
    BY <1>1, <2>1, <2>2 DEF PeerTermRows, GrantNumbers, Sent
  <2>4. WrittenInOrder' /\ BarredStays'
    BY <1>1, <2>1 DEF WrittenInOrder, BarredStays, Sent, EndedForGood
  <2>5. QED
    BY <2>3, <2>4 DEF PeerTermsInv
<1>4. ASSUME NEW r \in asked, SendPeerMessage(r) PROVE PeerTermsInv'
  <2> DEFINE recipient == currentGrant[Other(r.sender)]
             message == [sender |-> r.sender, key |-> r.key, subject |-> r.subject,
                         expected |-> r.expected, grant |-> r.grant, recipientGrant |-> recipient]
             row == [row |-> "pending", attempts |-> 0, step |-> "none"]
             last == Len(peerMessages) + 1
  <2>1. r \in PeerRequest /\ r.grant \in GrantNumbers
    BY <1>1 DEF PeerMessageRows, PeerTermRows
  <2>2. Other(r.sender) \in Endpoint
    <3>1. r.sender \in Endpoint
      BY <2>1 DEF PeerRequest
    <3>2. QED
      BY <3>1, OtherEndpoint
  <2>3. recipient \in GrantNumbers
    BY <1>1, <1>4, <2>2 DEF SendPeerMessage, GrantLive, PeerTermRows
  <2>4. recipient \in Nat
    BY <1>1, <2>2 DEF PeerControlRows
  <2>5. message \in PeerMessage /\ row \in PeerDelivery
    BY <2>1, <2>4 DEF PeerRequest, PeerMessage, PeerDelivery
  <2>6. /\ message.sender = r.sender /\ message.key = r.key /\ message.expected = Len(peerMessages)
        /\ message.grant = r.grant /\ message.recipientGrant = recipient
    BY <1>4 DEF SendPeerMessage, Fresh
  <2>7. ~KnownKey(r)
    BY <1>4 DEF SendPeerMessage
  <2>8. /\ peerMessages' = Append(peerMessages, message) /\ delivery' = Append(delivery, row)
        /\ UNCHANGED <<peerEndpoint, peerChannel, peerGrants, currentGrant, asked, reached, barred>>
    BY <1>4 DEF SendPeerMessage, controlVars
  <2> HIDE DEF message, row, recipient
  <2>9. /\ Sent' = 1..last /\ last \in Nat /\ peerMessages'[last] = message
        /\ \A m \in Sent : peerMessages'[m] = peerMessages[m] /\ delivery'[m] = delivery[m]
    BY <1>2, <2>5, <2>8 DEF Sent
  <2>10. GrantNumbers' = GrantNumbers
    BY <2>8 DEF GrantNumbers
  <2>11. \A m \in Sent' : m \in Sent \/ m = last
    BY <1>2, <2>9
  <2>12. PeerTermRows'
    BY <1>1, <2>1, <2>3, <2>6, <2>8, <2>9, <2>10, <2>11 DEF PeerTermRows
  <2>13. \A m \in Sent' : peerMessages'[m].expected = m - 1
    BY SMTT(30), <1>1, <1>2, <2>6, <2>9, <2>11 DEF WrittenInOrder
  <2>14. \A m \in Sent : ~(peerMessages[m].sender = message.sender /\ peerMessages[m].key = message.key)
    BY <2>6, <2>7 DEF KnownKey
  <2>15. ASSUME NEW m \in Sent', NEW n \in Sent',
                peerMessages'[m].sender = peerMessages'[n].sender, peerMessages'[m].key = peerMessages'[n].key
         PROVE  m = n
    BY <1>1, <2>9, <2>11, <2>14, <2>15 DEF WrittenInOrder
  <2>16. ASSUME NEW m \in barred
         PROVE  m \in Sent' /\ m \notin reached /\ delivery'[m].step # "admitted" /\ EndedForGood(m)'
    <3>1. m \in Sent /\ m \notin reached /\ delivery[m].step # "admitted" /\ EndedForGood(m)
      BY <1>1 DEF BarredStays
    <3>2. EndedForGood(m)'
      <4>1. peerMessages'[m] = peerMessages[m] /\ UNCHANGED <<peerChannel, currentGrant, peerGrants, peerEndpoint>>
        BY <2>8, <2>9, <3>1
      <4>2. EndedForGood(m)
        BY <3>1
      <4>3. QED
        BY <4>1, <4>2 DEF EndedForGood
    <3>3. QED
      BY <1>2, <2>9, <3>1, <3>2
  <2>17. QED
    BY <2>8, <2>12, <2>13, <2>15, <2>16 DEF PeerTermsInv, WrittenInOrder, BarredStays
<1>5. QED
  BY <1>3, <1>4

\* A worker is admitted under terms that have not ended, and only who was reaches anyone.
LEMMA DeliveredTerms ==
  ASSUME PeerInv, PeerTermsInv, NEW m \in Sent,
         \/ ClaimDelivery(m) \/ CheckDelivery(m) \/ Transport(m) \/ DeliveryUnknown(m)
         \/ ReconcileDelivery(m) \/ AdmitRetry(m) \/ RetryDelivery(m)
  PROVE  PeerTermsInv'
<1>1. /\ PeerTermRows /\ WrittenInOrder /\ BarredStays /\ delivery \in Seq(PeerDelivery) /\ Sent = 1..Len(delivery)
      /\ delivery[m] \in PeerDelivery
  BY MessagesNumbered DEF PeerTermsInv, PeerInv, PeerMessageRows
<1>2. ASSUME NEW position \in PeerDelivery, Delivers(m, position), reached' \subseteq reached \cup {m},
             m \in barred => m \notin reached' /\ position.step # "admitted"
      PROVE  PeerTermsInv'
  <2>1. /\ delivery' = [delivery EXCEPT ![m] = position]
        /\ UNCHANGED <<peerEndpoint, peerChannel, peerGrants, currentGrant, asked, peerMessages, barred>>
    BY <1>2 DEF Delivers, controlVars, messageVars
  <2>2. Sent' = Sent /\ delivery'[m] = position /\ \A n \in Sent : n # m => delivery'[n] = delivery[n]
    BY <1>1, <2>1 DEF Sent
  <2>3. \A n \in Sent : EndedForGood(n)' = EndedForGood(n)
    BY <2>1 DEF EndedForGood
  <2>4. PeerTermRows' /\ WrittenInOrder'
    BY <1>1, <2>1, <2>2 DEF PeerTermRows, WrittenInOrder, GrantNumbers
  <2>5. ASSUME NEW n \in barred
        PROVE  n \in Sent /\ n \notin reached' /\ delivery'[n].step # "admitted" /\ EndedForGood(n)'
    BY <1>1, <1>2, <2>2, <2>3 DEF BarredStays
  <2>6. QED
    BY <2>1, <2>2, <2>4, <2>5 DEF PeerTermsInv, BarredStays
<1>3. m \in barred => m \notin reached /\ delivery[m].step # "admitted" /\ EndedForGood(m)
  BY <1>1 DEF BarredStays
<1>4. ASSUME NEW row \in {"pending", "sending", "delivered", "failed", "unknown"},
             NEW position, \/ position = [delivery[m] EXCEPT !.row = row]
                           \/ position = [delivery[m] EXCEPT !.step = "none", !.row = row]
                           \/ position = [row |-> "sending", attempts |-> delivery[m].attempts + 1, step |-> "claimed"]
      PROVE  position \in PeerDelivery /\ position.step \in {"none", "claimed", delivery[m].step}
  <2>1. CASE position = [delivery[m] EXCEPT !.row = row]
    BY <1>1, <2>1 DEF PeerDelivery
  <2>2. CASE position = [delivery[m] EXCEPT !.step = "none", !.row = row]
    BY <1>1, <2>2 DEF PeerDelivery
  <2>3. CASE position = [row |-> "sending", attempts |-> delivery[m].attempts + 1, step |-> "claimed"]
    BY <1>1, <2>3 DEF PeerDelivery
  <2>4. QED
    BY <1>4, <2>1, <2>2, <2>3
<1>5. \A row \in {"unknown", "delivered", "failed"} :
        Outcome(m, row) \in {"pending", "sending", "delivered", "failed", "unknown"}
  BY <1>1 DEF Outcome, PeerDelivery
<1>6. ASSUME NEW position \in PeerDelivery, Delivers(m, position), UNCHANGED reached,
             position.step \in {"none", "claimed", delivery[m].step}
      PROVE  PeerTermsInv'
  BY <1>2, <1>3, <1>6
<1>7. CASE ClaimDelivery(m)
  <2>1. Delivers(m, [row |-> "sending", attempts |-> delivery[m].attempts + 1, step |-> "claimed"]) /\ UNCHANGED reached
    BY <1>7 DEF ClaimDelivery
  <2>2. QED
    BY <1>4, <1>6, <2>1
<1>8. CASE CheckDelivery(m)
  <2>1. CASE MayDeliver(m)
    <3> DEFINE position == [delivery[m] EXCEPT !.step = "admitted"]
    <3>1. Delivers(m, position) /\ UNCHANGED reached
      BY <1>8, <2>1 DEF CheckDelivery
    <3>2. position \in PeerDelivery
      BY <1>1 DEF PeerDelivery
    <3>3. \A g \in {peerMessages[m].grant, peerMessages[m].recipientGrant} :
            /\ currentGrant[peerGrants[g].endpoint] = g /\ peerGrants[g].revoked = "no"
            /\ peerEndpoint[peerGrants[g].endpoint] = "active"
      BY <2>1 DEF MayDeliver, GrantLive
    <3>4. ~EndedForGood(m)
      BY <2>1, <3>3 DEF MayDeliver, StillUsable, EndedForGood, GrantLive
    <3>5. QED
      BY <1>2, <1>3, <3>1, <3>2, <3>4
  <2>2. CASE ~MayDeliver(m)
    <3>1. Delivers(m, [delivery[m] EXCEPT !.step = "none", !.row = Outcome(m, "failed")]) /\ UNCHANGED reached
      BY <1>8, <2>2 DEF CheckDelivery
    <3>2. QED
      BY <1>4, <1>5, <1>6, <3>1
  <2>3. QED
    BY <2>1, <2>2
<1>9. CASE Transport(m)
  <2>1. m \notin barred
    BY <1>3, <1>9 DEF Transport
  <2>2. PICK row \in {"unknown", "delivered", "failed"} :
          Delivers(m, [delivery[m] EXCEPT !.step = "none", !.row = Outcome(m, row)])
    BY <1>9 DEF Transport
  <2>3. reached' \subseteq reached \cup {m}
    BY <1>9 DEF Transport
  <2>4. [delivery[m] EXCEPT !.step = "none", !.row = Outcome(m, row)] \in PeerDelivery
    BY <1>4, <1>5
  <2>5. QED
    BY <1>2, <2>1, <2>2, <2>3, <2>4
<1>10. CASE DeliveryUnknown(m)
  <2>1. PICK step \in {delivery[m].step, "none"} : Delivers(m, [delivery[m] EXCEPT !.row = "unknown", !.step = step])
    BY <1>10 DEF DeliveryUnknown
  <2> DEFINE position == [delivery[m] EXCEPT !.row = "unknown", !.step = step]
  <2>2. position \in PeerDelivery /\ position.step = step
    BY <1>1 DEF PeerDelivery
  <2>3. QED
    BY <1>6, <1>10, <2>1, <2>2 DEF DeliveryUnknown
<1>11. CASE ReconcileDelivery(m)
  <2>1. PICK row \in {"delivered", "failed"} : Delivers(m, [delivery[m] EXCEPT !.row = row])
    BY <1>11 DEF ReconcileDelivery
  <2>2. QED
    BY <1>4, <1>6, <1>11, <2>1 DEF ReconcileDelivery
<1>12. CASE AdmitRetry(m)
  BY <1>1, <1>6, <1>12 DEF AdmitRetry
<1>13. CASE RetryDelivery(m)
  <2>1. CASE Delivers(m, [delivery[m] EXCEPT !.row = "pending"])
    BY <1>4, <1>6, <1>13, <2>1 DEF RetryDelivery
  <2>2. CASE Delivers(m, delivery[m])
    BY <1>1, <1>6, <1>13, <2>2 DEF RetryDelivery
  <2>3. QED
    BY <1>13, <2>1, <2>2 DEF RetryDelivery
<1>14. QED
  BY <1>7, <1>8, <1>9, <1>10, <1>11, <1>12, <1>13

LEMMA PeerTermsStep == PeerInv /\ PeerTermsInv /\ [PeersNext]_peerVars => PeerTermsInv'
<1> SUFFICES ASSUME PeerInv, PeerTermsInv, [PeersNext]_peerVars PROVE PeerTermsInv'
  OBVIOUS
<1>1. ASSUME UNCHANGED <<controlVars, messageVars, delivery, reached, barred>> PROVE PeerTermsInv'
  <2>1. UNCHANGED <<peerEndpoint, peerChannel, peerGrants, currentGrant, asked, peerMessages, delivery, reached, barred>>
    BY <1>1 DEF controlVars, messageVars
  <2>2. PeerTermRows' /\ WrittenInOrder'
    BY <2>1 DEF PeerTermsInv, PeerTermRows, WrittenInOrder, GrantNumbers, Sent
  <2>3. BarredStays'
    BY <2>1 DEF PeerTermsInv, BarredStays, EndedForGood, Sent
  <2>4. QED
    BY <2>2, <2>3 DEF PeerTermsInv
<1>2. CASE \/ \E e \in Endpoint : IssuePeerGrant(e) \/ (\E status \in {"active", "suspended", "revoked"} : SetEndpoint(e, status))
           \/ (\E state \in {"active", "suspended", "closing", "closed"} : TransitionChannel(state))
           \/ (\E subject \in {1, 2} : ChangeSubject(subject)) \/ ChannelExpires
           \/ (\E g \in DOMAIN peerGrants : RevokePeerGrant(g))
  BY <1>2, ControllersGoForward, ControlledTerms
<1>3. ASSUME NEW m \in Sent,
             EscalateDelivery(m) \/ RecordEscalation(m) \/ \E human \in Human : ActOnTask(m, human)
      PROVE  PeerTermsInv'
  BY <1>1, <1>3 DEF EscalateDelivery, RecordEscalation, ActOnTask, TaskBecomes, HumansDo, deliveryVars
<1>4. CASE \/ \E e \in Endpoint : \E m \in Sent : SubmitFormal(e, m)
           \/ PerformFormal \/ FinishFormal \/ FormalCallerDies \/ QueryFormal \/ RecordQuery
  BY <1>1, <1>4 DEF SubmitFormal, PerformFormal, FinishFormal, FormalCallerDies, QueryFormal, RecordQuery,
     FormalBecomes, deliveryVars
<1>5. CASE UNCHANGED peerVars
  BY <1>1, <1>5 DEF peerVars, deliveryVars
<1>6. QED
  BY <1>2, <1>3, <1>4, <1>5, RequestedTerms, DeliveredTerms DEF PeersNext

LEMMA PeersKeepTerms == PeerTermsInv => PeerTermsHold
<1> SUFFICES ASSUME PeerTermsInv PROVE PeerTermsHold
  OBVIOUS
<1>1. barred \cap reached = {}
  BY DEF PeerTermsInv, BarredStays
<1>2. IsInjective([m \in Sent |-> <<peerMessages[m].sender, peerMessages[m].key>>])
  BY DEF PeerTermsInv, WrittenInOrder, IsInjective
<1>3. QED
  BY <1>1, <1>2 DEF PeerTermsInv, WrittenInOrder, PeerTermsHold
-----------------------------------------------------------------------------
(* Access profiles: a plan changes a Context once, and its callers are told so *)

AnyPermission == Permission \cup UNION {Granted[v] : v \in ProfileVersion}
ContextRow == [revision : Nat, version : ProfileVersion, grant : SUBSET Permission, denied : SUBSET Permission,
               effective : SUBSET AnyPermission]
PreviewRun == [step : {"preview"}, version : ProfileVersion, left : SUBSET Context,
               before : UNION {[S -> ContextRow] : S \in SUBSET Context}]
ApplyStep == {"next", "told", "allow", "look", "compare", "allowAgain", "approve", "append", "wait", "lookAgain", "answer"}
ApplyOutcome == {"applied", "denied", "conflict", "unchanged", "unknown", "failed", "mismatch"}
ApplyRun(plans) == [step : ApplyStep, plan : plans, left : SUBSET Context, context : Context \cup {"none"},
                    told : {"nothing"} \cup ApplyOutcome, known : SUBSET Context]
Receipt(plans) == [plan : plans, context : Context, previous : Nat]

ProfileRows ==
  /\ contexts \in [Context -> ContextRow]
  /\ \A plan \in profilePlans : plan.version \in ProfileVersion
  /\ profileRuns \in [Operator -> {NoRun} \cup PreviewRun \cup ApplyRun(profilePlans)]
  /\ appendsSent \subseteq [plan : profilePlans, context : Context]
  /\ appended \subseteq Receipt(profilePlans)

\* Only what changes something is asked for and appended, and each receipt has a
\* revision of its own, the one previewed, which the Context has left behind.
PlanChanges(plan, c) == Changes(plan.before[c], plan.version)

AppendsTrue ==
  /\ \A request \in appendsSent : PlanChanges(request.plan, request.context)
  /\ \A r \in appended : PlanChanges(r.plan, r.context) /\ r.previous < contexts[r.context].revision
  /\ \A r \in appended : r.previous = r.plan.before[r.context].revision
  /\ \A r, q \in appended : r.plan = q.plan /\ r.context = q.context => r = q
  /\ \A r, q \in appended : r.context = q.context /\ r.previous = q.previous => r = q

Received(plan, c, receipts) == \E r \in receipts : r.plan = plan /\ r.context = c

\* What a caller relies on at each place of its program.
RunTrue(run, receipts) ==
  /\ \A c \in run.known : Received(run.plan, c, receipts)
  /\ run.step # "next" => run.context \in Context
  /\ run.step \notin {"next", "told", "allow", "look", "answer"} => run.context \notin run.known
  /\ run.step = "append" => PlanChanges(run.plan, run.context)
  /\ run.step = "answer" => Received(run.plan, run.context, receipts)
  /\ run.step = "told" =>
       /\ run.told = "applied" => Received(run.plan, run.context, receipts)
       /\ run.told = "unchanged" => ~PlanChanges(run.plan, run.context)
       /\ run.context \in run.known => run.told \in {"applied", "denied", "failed"}

ProfilesInv ==
  /\ ProfileRows /\ AppendsTrue
  /\ \A o \in Operator : profileRuns[o].step \in ApplyStep => RunTrue(profileRuns[o], appended)

LEMMA ReceiptIsReceived == \A plan, c : ReceiptOf(plan, c) # {} <=> Received(plan, c, appended)
  BY DEF ReceiptOf, Received

LEMMA RunKinds ==
  /\ NoRun.step \notin ApplyStep /\ \A run \in PreviewRun : run.step \notin ApplyStep
  /\ \A plans : \A run \in ApplyRun(plans) : run.step \in ApplyStep
  BY DEF NoRun, PreviewRun, ApplyRun, ApplyStep

LEMMA NoProfileRuns == ProfilesInit => ProfilesInv
<1> SUFFICES ASSUME ProfilesInit PROVE ProfilesInv
  OBVIOUS
<1>1. Granted[FirstVersion] \subseteq AnyPermission
  BY ProfilesAssumption DEF AnyPermission
<1>2. ASSUME NEW c \in Context PROVE contexts[c] \in ContextRow
  BY <1>1, ProfilesAssumption DEF ProfilesInit, ContextRow
<1>3. contexts \in [Context -> ContextRow]
  BY <1>2 DEF ProfilesInit
<1>4. ProfileRows /\ AppendsTrue
  BY <1>3 DEF ProfilesInit, ProfileRows, AppendsTrue
<1>5. QED
  BY <1>4, RunKinds DEF ProfilesInit, ProfilesInv

\* A step of one caller.
LEMMA RunGoesOn ==
  ASSUME ProfilesInv, NEW o \in Operator, NEW run \in {NoRun} \cup PreviewRun \cup ApplyRun(profilePlans),
         RunBecomes(o, run), UNCHANGED <<contexts, profilePlans, appended>>,
         appendsSent' \subseteq [plan : profilePlans, context : Context],
         \A request \in appendsSent' : PlanChanges(request.plan, request.context),
         run.step \in ApplyStep => RunTrue(run, appended)
  PROVE  ProfilesInv'
<1>1. ProfileRows /\ AppendsTrue
  BY DEF ProfilesInv
<1>2. profileRuns' = [profileRuns EXCEPT ![o] = run]
  BY DEF RunBecomes
<1>3. profileRuns' \in [Operator -> {NoRun} \cup PreviewRun \cup ApplyRun(profilePlans)]
      /\ profileRuns'[o] = run /\ \A p \in Operator \ {o} : profileRuns'[p] = profileRuns[p]
  BY <1>1, <1>2 DEF ProfileRows
<1>4. ProfileRows' /\ AppendsTrue'
  BY <1>1, <1>3 DEF ProfileRows, AppendsTrue
<1>5. \A p \in Operator : profileRuns'[p].step \in ApplyStep => RunTrue(profileRuns'[p], appended)
  BY <1>3 DEF ProfilesInv
<1>6. QED
  BY <1>4, <1>5 DEF ProfilesInv

LEMMA KeptRun ==
  ASSUME ProfilesInv, NEW o \in Operator, NEW run \in {NoRun} \cup PreviewRun \cup ApplyRun(profilePlans),
         RunBecomes(o, run), UNCHANGED <<contexts, profilePlans, appended, appendsSent>>,
         run.step \in ApplyStep => RunTrue(run, appended)
  PROVE  ProfilesInv'
<1>1. /\ appendsSent' \subseteq [plan : profilePlans, context : Context]
      /\ \A request \in appendsSent' : PlanChanges(request.plan, request.context)
  BY DEF ProfilesInv, ProfileRows, AppendsTrue
<1>2. QED
  BY <1>1, RunGoesOn

\* Plans are added; runs and receipts are of the plans there were.
LEMMA MorePlans ==
  ASSUME NEW plans, NEW more, plans \subseteq more
  PROVE  ApplyRun(plans) \subseteq ApplyRun(more) /\ Receipt(plans) \subseteq Receipt(more)
  BY DEF ApplyRun, Receipt

\* Where a caller stands, once its program is known.
LEMMA RunAt ==
  ASSUME ProfilesInv, NEW o \in Operator, profileRuns[o].step \in ApplyStep
  PROVE  profileRuns[o] \in ApplyRun(profilePlans) /\ RunTrue(profileRuns[o], appended)
  BY RunKinds DEF ProfilesInv, ProfileRows

LEMMA RunAdvances ==
  ASSUME NEW plans, NEW run \in ApplyRun(plans), NEW step \in ApplyStep,
         NEW next, next = [run EXCEPT !.step = step]
  PROVE  /\ next \in ApplyRun(plans) /\ next.step = step
         /\ next.plan = run.plan /\ next.context = run.context /\ next.known = run.known /\ next.told = run.told
<1>1. next \in ApplyRun(plans)
  BY DEF ApplyRun, ApplyStep
<1>2. QED
  BY <1>1 DEF ApplyRun

\* A caller that looks at its receipt, compares, asks and is answered.
LEMMA ApplyGoes ==
  ASSUME ProfilesInv, NEW o \in Operator,
         \/ CheckAllowed(o) \/ FindReceipt(o) \/ CompareContext(o) \/ ApproveAgain(o)
         \/ AppendRevision(o) \/ AppendAnswered(o) \/ LookAgain(o) \/ TellApplied(o)
         \/ PortFails(o) /\ profileRuns[o].step # "preview"
  PROVE  ProfilesInv'
<1> DEFINE run == profileRuns[o]
<1>1. run.step \in ApplyStep /\ run.step \notin {"next", "told"}
  BY DEF ApplyStep, CheckAllowed, FindReceipt, CompareContext, ApproveAgain, AppendRevision, AppendAnswered, LookAgain,
         TellApplied, PortFails
<1>2. run \in ApplyRun(profilePlans) /\ RunTrue(run, appended)
  BY <1>1, RunAt
<1>3. run.context \in Context /\ run.plan \in profilePlans
  BY <1>1, <1>2 DEF RunTrue, ApplyRun
<1>4. UNCHANGED <<contexts, profilePlans, appended>>
  BY DEF CheckAllowed, FindReceipt, CompareContext, ApproveAgain, AppendRevision, AppendAnswered, LookAgain,
         TellApplied, PortFails, KeptButRuns
<1>5. Received(run.plan, run.context, appended) <=> ReceiptOf(run.plan, run.context) # {}
  BY ReceiptIsReceived
<1> HIDE DEF run
<1>6. ASSUME NEW step \in ApplyStep \ {"next", "told"}, RunProceeds(o, step), UNCHANGED appendsSent,
             step \notin {"allow", "look", "answer"} => run.context \notin run.known,
             step = "append" => PlanChanges(run.plan, run.context),
             step = "answer" => Received(run.plan, run.context, appended)
      PROVE  ProfilesInv'
  <2> DEFINE next == [run EXCEPT !.step = step]
  <2>1. /\ next \in ApplyRun(profilePlans) /\ next.step = step
        /\ next.plan = run.plan /\ next.context = run.context /\ next.known = run.known
    BY <1>2, RunAdvances
  <2>2. RunBecomes(o, next)
    BY <1>6 DEF RunProceeds, run
  <2> HIDE DEF next
  <2>3. RunTrue(next, appended)
    BY <1>2, <1>3, <1>6, <2>1 DEF RunTrue
  <2>4. QED
    BY <1>4, <1>6, <2>1, <2>2, <2>3, KeptRun
<1>7. ASSUME NEW told \in ApplyOutcome, TellsOutcome(o, told),
             UNCHANGED appendsSent,
             told = "applied" => Received(run.plan, run.context, appended),
             told = "unchanged" => ~PlanChanges(run.plan, run.context),
             run.context \in run.known => told \in {"applied", "denied", "failed"}
      PROVE  ProfilesInv'
  <2> DEFINE next == [run EXCEPT !.step = "told", !.told = told]
  <2>1. /\ next \in ApplyRun(profilePlans) /\ next.step = "told" /\ next.told = told
        /\ next.plan = run.plan /\ next.context = run.context /\ next.known = run.known
    <3>1. next \in ApplyRun(profilePlans)
      BY <1>2, <1>7 DEF ApplyRun, ApplyStep
    <3>2. QED
      BY <1>2, <3>1 DEF ApplyRun
  <2>2. RunBecomes(o, next)
    BY <1>7 DEF TellsOutcome, run
  <2> HIDE DEF next
  <2>3. RunTrue(next, appended)
    BY <1>2, <1>3, <1>7, <2>1 DEF RunTrue
  <2>4. QED
    BY <1>4, <1>7, <2>1, <2>2, <2>3, KeptRun
<1>8. run.step \notin {"allow", "look", "answer"} => run.context \notin run.known
  BY <1>1, <1>2 DEF RunTrue
<1>9. {"look", "approve", "answer", "compare", "allowAgain", "append", "wait", "lookAgain"} \subseteq ApplyStep \ {"next", "told"}
      /\ {"applied", "denied", "conflict", "unchanged", "unknown", "failed", "mismatch"} = ApplyOutcome
  BY DEF ApplyStep, ApplyOutcome
<1>10. CASE CheckAllowed(o)
  <2>1. run.step \in {"allow", "allowAgain"} /\ UNCHANGED appendsSent
    BY <1>10 DEF CheckAllowed, KeptButRuns, run
  <2>2. \/ RunProceeds(o, "look") \/ (RunProceeds(o, "approve") /\ run.step = "allowAgain")
        \/ TellsOutcome(o, "denied")
    BY <1>10 DEF CheckAllowed, run
  <2>3. QED
    BY <1>6, <1>7, <1>8, <1>9, <2>1, <2>2
<1>11. CASE FindReceipt(o)
  <2>1. UNCHANGED appendsSent
    BY <1>11 DEF FindReceipt, KeptButRuns
  <2>2. \/ RunProceeds(o, "answer") /\ Received(run.plan, run.context, appended)
        \/ RunProceeds(o, "compare") /\ ~Received(run.plan, run.context, appended)
    BY <1>5, <1>11 DEF FindReceipt, FoundReceipt, run
  <2>3. run.context \in run.known => Received(run.plan, run.context, appended)
    BY <1>2 DEF RunTrue
  <2>4. QED
    BY <1>6, <1>9, <2>1, <2>2, <2>3
<1>12. CASE CompareContext(o)
  <2>1. run.step = "compare" /\ UNCHANGED appendsSent
    BY <1>12 DEF CompareContext, KeptButRuns, run
  <2>2. RunProceeds(o, "allowAgain") \/ TellsOutcome(o, "conflict")
    BY <1>12 DEF CompareContext
  <2>3. QED
    BY <1>6, <1>7, <1>8, <1>9, <2>1, <2>2
<1>13. CASE ApproveAgain(o)
  <2>1. run.step = "approve" /\ UNCHANGED appendsSent
    BY <1>13 DEF ApproveAgain, KeptButRuns, run
  <2>2. \/ TellsOutcome(o, "denied") \/ (RunProceeds(o, "append") /\ PlanChanges(run.plan, run.context))
        \/ TellsOutcome(o, "unchanged") /\ ~PlanChanges(run.plan, run.context)
    BY <1>13 DEF ApproveAgain, PlanChanges, run
  <2>3. QED
    BY <1>6, <1>7, <1>8, <1>9, <2>1, <2>2
<1>14. CASE AppendRevision(o)
  <2> DEFINE next == [run EXCEPT !.step = "wait"]
             request == [plan |-> run.plan, context |-> run.context]
  <2>1. run.step = "append" /\ appendsSent' = appendsSent \cup {request} /\ RunBecomes(o, next)
    BY <1>14 DEF AppendRevision, RunProceeds, run
  <2>2. /\ next \in ApplyRun(profilePlans) /\ next.step = "wait"
        /\ next.plan = run.plan /\ next.context = run.context /\ next.known = run.known
    BY <1>2, <1>9, RunAdvances
  <2>3. /\ request \in [plan : profilePlans, context : Context] /\ request.plan = run.plan /\ request.context = run.context
    BY <1>3
  <2> HIDE DEF next, request
  <2>4. PlanChanges(request.plan, request.context) /\ RunTrue(next, appended)
    BY <1>2, <1>3, <1>8, <2>1, <2>2, <2>3 DEF RunTrue
  <2>5. /\ appendsSent' \subseteq [plan : profilePlans, context : Context]
        /\ \A sent \in appendsSent' : PlanChanges(sent.plan, sent.context)
    BY <2>1, <2>3, <2>4 DEF ProfilesInv, ProfileRows, AppendsTrue
  <2>6. QED
    BY <1>4, <2>1, <2>2, <2>4, <2>5, RunGoesOn
<1>15. CASE AppendAnswered(o)
  <2>1. run.step = "wait" /\ UNCHANGED appendsSent
    BY <1>15 DEF AppendAnswered, KeptButRuns, run
  <2>2. RunProceeds(o, "lookAgain") \/ (RunProceeds(o, "answer") /\ Received(run.plan, run.context, appended))
    BY <1>5, <1>15 DEF AppendAnswered, run
  <2>3. QED
    BY <1>6, <1>8, <1>9, <2>1, <2>2
<1>16. CASE LookAgain(o)
  <2>1. run.step = "lookAgain" /\ UNCHANGED appendsSent
    BY <1>16 DEF LookAgain, KeptButRuns, run
  <2>2. TellsOutcome(o, "unknown") \/ (RunProceeds(o, "answer") /\ Received(run.plan, run.context, appended))
    BY <1>5, <1>16 DEF LookAgain, run
  <2>3. QED
    BY <1>6, <1>7, <1>8, <1>9, <2>1, <2>2
<1>17. CASE TellApplied(o)
  <2>1. run.step = "answer" /\ UNCHANGED appendsSent
    BY <1>17 DEF TellApplied, KeptButRuns, run
  <2>2. Received(run.plan, run.context, appended)
    BY <1>2, <2>1 DEF RunTrue
  <2>3. ReceiptFits(o)
    <3>1. PICK r \in appended : r.plan = run.plan /\ r.context = run.context
      BY <2>2 DEF Received
    <3>2. r \in ReceiptOf(run.plan, run.context) /\ r.previous = run.plan.before[run.context].revision
      BY <3>1 DEF ReceiptOf, ProfilesInv, AppendsTrue
    <3>3. QED
      BY <3>2 DEF ReceiptFits, run
  <2>4. TellsOutcome(o, "applied") \/ TellsOutcome(o, "denied")
    BY <1>17, <2>3 DEF TellApplied
  <2>5. QED
    BY <1>7, <1>9, <2>1, <2>2, <2>4
<1>18. CASE PortFails(o) /\ profileRuns[o].step # "preview"
  <2>1. TellsOutcome(o, "failed") /\ UNCHANGED appendsSent
    BY <1>18 DEF PortFails, KeptButRuns
  <2>2. QED
    BY <1>7, <1>9, <2>1
<1>19. QED
  BY <1>10, <1>11, <1>12, <1>13, <1>14, <1>15, <1>16, <1>17, <1>18

\* A preview: what it has read so far.
LEMMA PreviewGoes ==
  ASSUME ProfilesInv, NEW o \in Operator,
         (\E version \in ProfileVersion : BeginPreview(o, version)) \/ (\E c \in Context : PreviewContext(o, c))
  PROVE  ProfilesInv'
<1>1. CASE \E version \in ProfileVersion : BeginPreview(o, version)
  <2>1. PICK version \in ProfileVersion : BeginPreview(o, version)
    BY <1>1
  <2> DEFINE run == [step |-> "preview", version |-> version, before |-> <<>>, left |-> Context]
  <2>2. <<>> \in [{} -> ContextRow]
    <3>1. [x \in {} |-> x] \in [{} -> ContextRow] /\ DOMAIN <<>> = {}
      OBVIOUS
    <3>2. <<>> = [x \in {} |-> x]
      OBVIOUS
    <3>3. QED
      BY <3>1, <3>2
  <2>3. <<>> \in UNION {[S -> ContextRow] : S \in SUBSET Context}
    BY <2>2
  <2>4. run \in PreviewRun
    BY <2>3 DEF PreviewRun
  <2>5. RunBecomes(o, run) /\ UNCHANGED <<contexts, profilePlans, appended, appendsSent>>
    BY <2>1 DEF BeginPreview
  <2> HIDE DEF run
  <2>6. QED
    BY <2>4, <2>5, RunKinds, KeptRun
<1>2. CASE \E c \in Context : PreviewContext(o, c)
  <2>1. PICK c \in Context : PreviewContext(o, c)
    BY <1>2
  <2> DEFINE run == profileRuns[o]
             seen == [x \in DOMAIN run.before \cup {c} |-> IF x = c THEN contexts[c] ELSE run.before[x]]
             next == [run EXCEPT !.left = @ \ {c}, !.before = seen]
  <2>2. run.step = "preview"
    BY <2>1 DEF PreviewContext
  <2>3. run \in PreviewRun /\ contexts[c] \in ContextRow
    <3>1. run \in {NoRun} \cup PreviewRun \cup ApplyRun(profilePlans)
      BY DEF ProfilesInv, ProfileRows
    <3>2. run # NoRun
      BY <2>2 DEF NoRun
    <3>3. run \notin ApplyRun(profilePlans)
      BY <2>2 DEF ApplyRun, ApplyStep
    <3>4. QED
      BY <3>1, <3>2, <3>3 DEF ProfilesInv, ProfileRows
  <2>4. (RunBecomes(o, next) \/ RunBecomes(o, NoRun)) /\ UNCHANGED <<contexts, profilePlans, appended, appendsSent>>
    BY <2>1 DEF PreviewContext, KeptButRuns
  <2>5. seen \in UNION {[S -> ContextRow] : S \in SUBSET Context}
    <3>1. PICK S \in SUBSET Context : run.before \in [S -> ContextRow]
      BY <2>3 DEF PreviewRun
    <3>2. seen \in [S \cup {c} -> ContextRow]
      BY <2>3, <3>1
    <3>3. QED
      BY <3>2
  <2> HIDE DEF seen
  <2>6. next \in PreviewRun
    BY <2>3, <2>5 DEF PreviewRun
  <2> HIDE DEF next
  <2>7. QED
    BY <2>4, <2>6, RunKinds, KeptRun
<1>3. QED
  BY <1>1, <1>2

\* A caller takes its plan, and the next Context of it.
LEMMA ApplyBegins ==
  ASSUME ProfilesInv, NEW o \in Operator,
         \/ \E plan \in profilePlans : BeginApply(o, plan)
         \/ \E c \in Context : NextContext(o, c)
         \/ EndApply(o) \/ OperatorStops(o)
         \/ PortFails(o) /\ profileRuns[o].step = "preview"
  PROVE  ProfilesInv'
<1>1. CASE \E plan \in profilePlans : BeginApply(o, plan)
  <2>1. PICK plan \in profilePlans : BeginApply(o, plan)
    BY <1>1
  <2> DEFINE known == {c \in Context : ReceiptOf(plan, c) # {}}
             run == [step |-> "next", plan |-> plan, left |-> Context, context |-> "none", told |-> "nothing",
                     known |-> known]
  <2>2. \A c \in known : Received(plan, c, appended)
    BY ReceiptIsReceived
  <2>3. RunBecomes(o, run) /\ UNCHANGED <<contexts, profilePlans, appended, appendsSent>>
    BY <2>1 DEF BeginApply
  <2>4. known \in SUBSET Context
    OBVIOUS
  <2> HIDE DEF known
  <2>5. run \in ApplyRun(profilePlans)
    BY <2>4 DEF ApplyRun, ApplyStep
  <2>6. RunTrue(run, appended)
    BY <2>2 DEF RunTrue
  <2> HIDE DEF run
  <2>7. QED
    BY <2>3, <2>5, <2>6, KeptRun
<1>2. CASE \E c \in Context : NextContext(o, c)
  <2>1. PICK c \in Context : NextContext(o, c)
    BY <1>2
  <2> DEFINE run == profileRuns[o]
             next == [run EXCEPT !.step = "allow", !.context = c, !.left = @ \ {c}, !.told = "nothing"]
  <2>2. run.step \in ApplyStep
    BY <2>1 DEF NextContext, ApplyStep
  <2>3. run \in ApplyRun(profilePlans) /\ RunTrue(run, appended)
    BY <2>2, RunAt
  <2>4. RunBecomes(o, next) /\ UNCHANGED <<contexts, profilePlans, appended, appendsSent>>
    BY <2>1 DEF NextContext, KeptButRuns
  <2>5. next \in ApplyRun(profilePlans)
    BY <2>3 DEF ApplyRun, ApplyStep
  <2>6. next.step = "allow" /\ next.plan = run.plan /\ next.context = c /\ next.known = run.known
    BY <2>3, <2>5 DEF ApplyRun
  <2> HIDE DEF next
  <2>7. RunTrue(next, appended)
    BY <2>3, <2>6 DEF RunTrue
  <2>8. QED
    BY <2>4, <2>5, <2>7, KeptRun
<1>3. CASE EndApply(o) \/ OperatorStops(o) \/ (PortFails(o) /\ profileRuns[o].step = "preview")
  <2>1. RunBecomes(o, NoRun) /\ UNCHANGED <<contexts, profilePlans, appended, appendsSent>>
    BY <1>3 DEF EndApply, OperatorStops, PortFails, KeptButRuns
  <2>2. QED
    BY <2>1, RunKinds, KeptRun
<1>4. QED
  BY <1>1, <1>2, <1>3

\* A plan is added.
LEMMA PreviewEnds ==
  ASSUME ProfilesInv, NEW o \in Operator, EndPreview(o)
  PROVE  ProfilesInv'
<1> DEFINE run == profileRuns[o]
<1>1. ProfileRows /\ AppendsTrue
  BY DEF ProfilesInv
<1>2. run.version \in ProfileVersion
  <2>1. run \in {NoRun} \cup PreviewRun \cup ApplyRun(profilePlans) /\ run.step = "preview"
    BY <1>1 DEF ProfileRows, EndPreview
  <2>2. run \in PreviewRun
    BY <2>1 DEF NoRun, ApplyRun, ApplyStep
  <2>3. QED
    BY <2>2 DEF PreviewRun
<1>3. profilePlans \subseteq profilePlans' /\ \A plan \in profilePlans' : plan.version \in ProfileVersion
  BY <1>1, <1>2 DEF EndPreview, ProfileRows
<1>4. ApplyRun(profilePlans) \subseteq ApplyRun(profilePlans') /\ Receipt(profilePlans) \subseteq Receipt(profilePlans')
  BY <1>3, MorePlans
<1>5. UNCHANGED <<contexts, appended, appendsSent>> /\ profileRuns' = [profileRuns EXCEPT ![o] = NoRun]
  BY DEF EndPreview, RunBecomes
<1>6. /\ profileRuns' \in [Operator -> {NoRun} \cup PreviewRun \cup ApplyRun(profilePlans)]
      /\ profileRuns'[o] = NoRun /\ \A p \in Operator \ {o} : profileRuns'[p] = profileRuns[p]
  BY <1>1, <1>5 DEF ProfileRows
<1>7. profileRuns' \in [Operator -> {NoRun} \cup PreviewRun \cup ApplyRun(profilePlans')]
  BY <1>4, <1>6
<1>8. appendsSent' \subseteq [plan : profilePlans', context : Context]
  BY <1>1, <1>3, <1>5 DEF ProfileRows
<1>9. ProfileRows'
  BY <1>1, <1>3, <1>4, <1>5, <1>7, <1>8 DEF ProfileRows
<1>10. AppendsTrue'
  BY <1>1, <1>5 DEF AppendsTrue
<1>11. \A p \in Operator : profileRuns'[p].step \in ApplyStep => RunTrue(profileRuns'[p], appended')
  BY <1>5, <1>6, RunKinds DEF ProfilesInv
<1>12. QED
  BY <1>9, <1>10, <1>11 DEF ProfilesInv

LEMMA MoreReceipts ==
  ASSUME NEW run, NEW few, NEW many, few \subseteq many, RunTrue(run, few)
  PROVE  RunTrue(run, many)
  BY DEF RunTrue, Received

LEMMA RowAfter ==
  ASSUME NEW before \in ContextRow, NEW version \in ProfileVersion, EffectiveGrants(before, version) \subseteq AnyPermission
  PROVE  ContextAfter(before, version) \in ContextRow
<1>1. PICK effective : effective = EffectiveGrants(before, version)
  OBVIOUS
<1>2. ContextAfter(before, version) = [before EXCEPT !.revision = @ + 1, !.version = version, !.effective = effective]
  BY <1>1 DEF ContextAfter
<1>3. before.revision + 1 \in Nat /\ effective \in SUBSET AnyPermission
  BY <1>1 DEF ContextRow
<1>4. [before EXCEPT !.revision = @ + 1, !.version = version, !.effective = effective] \in ContextRow
  BY <1>3 DEF ContextRow
<1>5. QED
  BY <1>2, <1>4

\* The host: a Context changes, or a revision is appended.
LEMMA HostGoes ==
  ASSUME ProfilesInv,
         \/ \E c \in Context : \E grant, denied \in SUBSET Permission : ContextChanges(c, grant, denied)
         \/ \E request \in appendsSent : AppendCommits(request)
  PROVE  ProfilesInv'
<1>1. ProfileRows /\ AppendsTrue
  BY DEF ProfilesInv
<1>2. UNCHANGED <<profilePlans, appendsSent, profileRuns>>
  BY DEF ContextChanges, AppendCommits
<1>3. \A version \in ProfileVersion : Granted[version] \subseteq AnyPermission
  BY DEF AnyPermission
<1>4. CASE \E c \in Context : \E grant, denied \in SUBSET Permission : ContextChanges(c, grant, denied)
  <2>1. PICK c \in Context : \E grant, denied \in SUBSET Permission : ContextChanges(c, grant, denied)
    BY <1>4
  <2>2. PICK grant, denied \in SUBSET Permission : ContextChanges(c, grant, denied)
    BY <2>1
  <2> DEFINE before == contexts[c]
             after == [revision |-> before.revision + 1, version |-> before.version, grant |-> grant,
                       denied |-> denied, effective |-> (Granted[before.version] \cup grant) \ denied]
  <2>3. contexts' = [contexts EXCEPT ![c] = after] /\ UNCHANGED appended
    BY <2>2 DEF ContextChanges
  <2>4. before \in ContextRow
    BY <1>1 DEF ProfileRows
  <2>5. before.revision \in Nat /\ before.version \in ProfileVersion
    BY <2>4 DEF ContextRow
  <2>6. (Granted[before.version] \cup grant) \ denied \subseteq AnyPermission
    BY <1>3, <2>5 DEF AnyPermission
  <2>7. after \in ContextRow
    BY <2>5, <2>6 DEF ContextRow
  <2>8. after.revision = before.revision + 1
    OBVIOUS
  <2> HIDE DEF after
  <2>9. /\ contexts' \in [Context -> ContextRow] /\ contexts'[c] = after
        /\ \A d \in Context \ {c} : contexts'[d] = contexts[d]
    BY <1>1, <2>3, <2>7 DEF ProfileRows
  <2>10. ProfileRows'
    BY <1>1, <1>2, <2>3, <2>9 DEF ProfileRows
  <2>11. \A r \in appended : r.context \in Context /\ r.previous \in Nat
    BY <1>1 DEF ProfileRows, Receipt
  <2>12. \A r \in appended : r.previous < contexts'[r.context].revision
    <3> SUFFICES ASSUME NEW r \in appended PROVE r.previous < contexts'[r.context].revision
      OBVIOUS
    <3>1. r.previous < contexts[r.context].revision
      BY <1>1 DEF AppendsTrue
    <3>2. CASE r.context = c
      BY <2>5, <2>8, <2>9, <2>11, <3>1, <3>2
    <3>3. CASE r.context # c
      BY <2>9, <2>11, <3>1, <3>3
    <3>4. QED
      BY <3>2, <3>3
  <2>13. AppendsTrue'
    BY <1>1, <1>2, <2>3, <2>12 DEF AppendsTrue
  <2>14. QED
    BY <1>2, <2>3, <2>10, <2>13 DEF ProfilesInv
<1>5. CASE \E request \in appendsSent : AppendCommits(request)
  <2>1. PICK request \in appendsSent : AppendCommits(request)
    BY <1>5
  <2> DEFINE c == request.context
             plan == request.plan
             before == contexts[c]
             after == ContextAfter(before, plan.version)
             receipt == [plan |-> plan, context |-> c, previous |-> before.revision]
  <2>2. /\ ReceiptOf(plan, c) = {} /\ contexts' = [contexts EXCEPT ![c] = after]
        /\ appended' = appended \cup {receipt}
    BY <2>1 DEF AppendCommits
  <2>3. c \in Context /\ plan \in profilePlans /\ plan.version \in ProfileVersion
    BY <1>1 DEF ProfileRows
  <2>4. PlanChanges(plan, c)
    BY <1>1 DEF AppendsTrue
  <2>5. before \in ContextRow
    BY <1>1, <2>3 DEF ProfileRows
  <2>6. before.revision \in Nat /\ before.grant \subseteq Permission
    BY <2>5 DEF ContextRow
  <2>7. EffectiveGrants(before, plan.version) \subseteq AnyPermission
    <3>1. Granted[plan.version] \subseteq AnyPermission /\ before.grant \subseteq AnyPermission
      BY <1>3, <2>3, <2>6 DEF AnyPermission
    <3>2. QED
      BY <3>1 DEF EffectiveGrants
  <2>8. after \in ContextRow
    BY <2>3, <2>5, <2>7, RowAfter
  <2>9. after.revision = before.revision + 1
    BY <2>5 DEF ContextAfter, ContextRow
  <2>10. receipt \in Receipt(profilePlans) /\ receipt.plan = plan /\ receipt.context = c
         /\ receipt.previous = before.revision /\ plan.before[c] = before
    BY <2>1, <2>3, <2>6 DEF Receipt, AppendCommits
  <2>11. \A r \in appended : ~(r.plan = plan /\ r.context = c)
    BY <2>2 DEF ReceiptOf
  <2> HIDE DEF c, plan, after, receipt
  <2>12. /\ contexts' \in [Context -> ContextRow] /\ contexts'[c] = after
         /\ \A d \in Context \ {c} : contexts'[d] = contexts[d]
    BY <1>1, <2>2, <2>3, <2>8 DEF ProfileRows
  <2>13. ProfileRows'
    BY <1>1, <1>2, <2>2, <2>10, <2>12 DEF ProfileRows
  <2>14. \A r \in appended : /\ r.context \in Context /\ r.previous \in Nat
                             /\ r.previous < contexts[r.context].revision /\ PlanChanges(r.plan, r.context)
    BY <1>1 DEF ProfileRows, Receipt, AppendsTrue
  <2>15. \A r \in appended' : PlanChanges(r.plan, r.context) /\ r.previous < contexts'[r.context].revision
    <3> SUFFICES ASSUME NEW r \in appended'
                 PROVE PlanChanges(r.plan, r.context) /\ r.previous < contexts'[r.context].revision
      OBVIOUS
    <3>1. CASE r = receipt
      BY <2>4, <2>6, <2>9, <2>10, <2>12, <3>1
    <3>2. CASE r \in appended /\ r.context = c
      BY <2>6, <2>9, <2>12, <2>14, <3>2
    <3>3. CASE r \in appended /\ r.context # c
      BY <2>12, <2>14, <3>3
    <3>4. QED
      BY <2>2, <3>1, <3>2, <3>3
  <2>16. \A r, q \in appended' : r.plan = q.plan /\ r.context = q.context => r = q
    BY <1>1, <2>2, <2>10, <2>11 DEF AppendsTrue
  <2>17. \A r \in appended : r.context = c => r.previous < before.revision
    BY <2>14
  <2>18. \A r, q \in appended' : r.context = q.context /\ r.previous = q.previous => r = q
    BY <1>1, <2>2, <2>6, <2>10, <2>14, <2>17 DEF AppendsTrue
  <2>19. AppendsTrue'
    <3>1. \A r \in appended' : r.previous = r.plan.before[r.context].revision
      BY <1>1, <2>2, <2>10 DEF AppendsTrue
    <3>2. QED
      BY <1>1, <1>2, <2>15, <2>16, <2>18, <3>1 DEF AppendsTrue
  <2>20. \A o \in Operator : profileRuns'[o].step \in ApplyStep => RunTrue(profileRuns'[o], appended')
    BY <1>2, <2>2, MoreReceipts DEF ProfilesInv
  <2>21. QED
    BY <2>13, <2>19, <2>20 DEF ProfilesInv
<1>6. QED
  BY <1>4, <1>5

LEMMA ProfilesStep == ProfilesInv /\ [ProfilesNext]_profileVars => ProfilesInv'
<1> SUFFICES ASSUME ProfilesInv, [ProfilesNext]_profileVars PROVE ProfilesInv'
  OBVIOUS
<1>1. ASSUME UNCHANGED <<contexts, profilePlans, appended, appendsSent, profileRuns>> PROVE ProfilesInv'
  BY <1>1 DEF ProfilesInv, ProfileRows, AppendsTrue
<1>2. CASE UNCHANGED profileVars
  BY <1>1, <1>2 DEF profileVars
<1>3. CASE ChangeOperator \/ \E plan \in profilePlans : ApprovePlan(plan) \/ WithdrawApproval(plan)
  BY <1>1, <1>3 DEF ChangeOperator, ApprovePlan, WithdrawApproval
<1>4. ASSUME NEW o \in Operator,
             \/ \E version \in ProfileVersion : BeginPreview(o, version)
             \/ \E plan \in profilePlans : BeginApply(o, plan)
             \/ \E c \in Context : PreviewContext(o, c) \/ NextContext(o, c)
             \/ EndPreview(o) \/ EndApply(o) \/ CheckAllowed(o) \/ FindReceipt(o) \/ CompareContext(o)
             \/ ApproveAgain(o) \/ AppendRevision(o) \/ AppendAnswered(o) \/ LookAgain(o) \/ TellApplied(o)
             \/ PortFails(o) \/ OperatorStops(o)
      PROVE  ProfilesInv'
  BY <1>4, PreviewGoes, ApplyBegins, PreviewEnds, ApplyGoes
<1>5. QED
  BY <1>2, <1>3, <1>4, HostGoes DEF ProfilesNext

LEMMA PlansDoApplyOnce == ProfilesInv => PlansApplyOnce
<1> SUFFICES ASSUME ProfilesInv PROVE PlansApplyOnce
  OBVIOUS
<1>1. AppendsTrue
  BY DEF ProfilesInv
<1>2. ASSUME NEW o \in Operator, profileRuns[o].step = "told"
      PROVE  LET run == profileRuns[o] IN
               /\ run.told = "applied" => ReceiptOf(run.plan, run.context) # {}
               /\ run.told = "unchanged" => ReceiptOf(run.plan, run.context) = {}
               /\ run.context \in run.known => run.told \in {"applied", "denied", "failed"}
  <2>1. RunTrue(profileRuns[o], appended)
    BY <1>2, RunAt DEF ApplyStep
  <2>2. \A plan, c : Received(plan, c, appended) => PlanChanges(plan, c)
    BY <1>1 DEF AppendsTrue, Received
  <2>3. QED
    BY <1>2, <2>1, <2>2, ReceiptIsReceived DEF RunTrue
<1>3. QED
  BY <1>1, <1>2 DEF PlansApplyOnce, AppendsTrue

\* What was approved, reviewed or passed stays bound to that, for any operators, reviewers,
\* cases and peers, and whatever is lost, fails, is sent twice or late: plans of access profiles
\* change a Context once, and are told to conflict with nothing they did themselves
\* (context/access-profiles.js:85-117), reviews stand and
\* end in a first one (collaboration/reviews.js:60-71) and ended Tasks keep their plans but for
\* the call under way (workspace/plans.js:44-50), gates that a run passes were executed
\* (evaluation/runner.js:61-97), and messages reach nobody whose terms ended before
\* (collaboration/peer/gateway.js:36-43).
THEOREM ApprovalsStayBound == RecordsSpec => []ApprovalsBind
<1> DEFINE Inv == ProfilesInv /\ PapersInv /\ EvaluationInv /\ PeerInv /\ PeerTermsInv
<1>1. RecordsInit => Inv
  BY SMTT(30), NoProfileRuns, NoPapers, NothingEvaluated, NothingSent, NoTerms DEF RecordsInit
<1>2. [RecordsNext]_recordsVars =>
        /\ [ProfilesNext]_profileVars /\ [PapersNext]_paperVars
        /\ [EvaluationsNext]_evaluationVars /\ [PeersNext]_peerVars
  BY DEF RecordsNext, Only, recordsVars
<1>3. Inv /\ [RecordsNext]_recordsVars => Inv'
  BY <1>2, ProfilesStep, PapersStep, EvaluationsStep, PeersStep, PeerTermsStep
<1>4. Inv => ApprovalsBind
  BY PlansDoApplyOnce, PapersAreKept, GatesDoAgree, PeersKeepTerms DEF ApprovalsBind
<1> HIDE DEF Inv
<1>5. QED
  BY <1>1, <1>3, <1>4, PTL DEF RecordsSpec
=============================================================================
