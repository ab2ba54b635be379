--------------------------- MODULE AccessProfiles ---------------------------
(***************************************************************************)
(* Reconciliation of Contexts with a new version of their access profile.   *)
(* A preview reads each Context and proposes what it would become; an       *)
(* approved plan is applied Context by Context, by as many callers and as   *)
(* often as it takes; the host appends revisions, and its answers get lost. *)
(***************************************************************************)
EXTENDS Naturals, FiniteSets

CONSTANTS
  Context,
  Permission,
  ProfileVersion,      \* the versions of one profile, immutable
  Granted,             \* what each version grants
  FirstVersion,        \* the version every Context starts with
  Operator,            \* callers of preview and apply
  MaxContextRevision,  \* bound: revisions of one Context
  MaxProfileRuns,      \* bound: previews and applications begun
  MaxProfileMishaps    \* bound: changes by the host, of approvals and of authority

ASSUME ProfilesAssumption == FirstVersion \in ProfileVersion

\* Every Context starts with a revision.
ASSUME ProfilesBounds == MaxContextRevision \in Nat \ {0}

VARIABLES
  contexts,      \* readContext: the state of each Context now
  profilePlans,  \* the plans previewed
  approvals,     \* those whose approval holds
  operating,     \* authorize: "yes" or "no"
  appended,      \* the receipts of appendRevision
  appendsSent,   \* external: requests to append that may still commit
  profileRuns,   \* where each operator is
  runsBegun, profileMishaps

profileVars == <<contexts, profilePlans, approvals, operating, appended, appendsSent, profileRuns,
    runsBegun, profileMishaps>>

NoRun == [step |-> "idle"]

ProfilesInit ==
  /\ contexts = [c \in Context |->
       [revision |-> 1, version |-> FirstVersion, grant |-> {}, denied |-> {},
        effective |-> Granted[FirstVersion]]]
  /\ profilePlans = {} /\ approvals = {} /\ operating = "yes" /\ appended = {} /\ appendsSent = {}
  /\ profileRuns = [o \in Operator |-> NoRun] /\ runsBegun = 0 /\ profileMishaps = 0

\* entry: target and extra grants, without extra revokes and denials, which are one
\* set here; the overrides stay.
EffectiveGrants(before, version) == (Granted[version] \cup before.grant) \ before.denied

ContextAfter(before, version) ==
  [before EXCEPT !.revision = @ + 1, !.version = version, !.effective = EffectiveGrants(before, version)]

Changes(before, version) ==
  before.version # version \/ before.effective # EffectiveGrants(before, version)

ReceiptOf(plan, c) == {r \in appended : r.plan = plan /\ r.context = c}
-----------------------------------------------------------------------------
(* The host and its people *)

ProfileMishap == profileMishaps < MaxProfileMishaps /\ profileMishaps' = profileMishaps + 1

\* Overrides, denials or the policy change, and with them what is effective.
ContextChanges(c, grant, denied) ==
  LET before == contexts[c] IN
    /\ ProfileMishap /\ before.revision < MaxContextRevision
    /\ grant # before.grant \/ denied # before.denied
    /\ contexts' = [contexts EXCEPT ![c] =
         [revision |-> before.revision + 1, version |-> before.version, grant |-> grant, denied |-> denied,
          effective |-> (Granted[before.version] \cup grant) \ denied]]
    /\ UNCHANGED <<profilePlans, approvals, operating, appended, appendsSent, profileRuns, runsBegun>>

ApprovePlan(plan) ==
  /\ plan \in profilePlans \ approvals /\ approvals' = approvals \cup {plan}
  /\ UNCHANGED <<contexts, profilePlans, operating, appended, appendsSent, profileRuns, runsBegun,
         profileMishaps>>

WithdrawApproval(plan) ==
  /\ ProfileMishap /\ plan \in approvals /\ approvals' = approvals \ {plan}
  /\ UNCHANGED <<contexts, profilePlans, operating, appended, appendsSent, profileRuns, runsBegun>>

ChangeOperator ==
  /\ ProfileMishap /\ operating' = IF operating = "yes" THEN "no" ELSE "yes"
  /\ UNCHANGED <<contexts, profilePlans, approvals, appended, appendsSent, profileRuns, runsBegun>>

\* appendRevision, in one transaction: the receipt of a repeated key, or the
\* revision if authority, approval and the expected state still hold.
AppendCommits(request) ==
  LET c == request.context
      before == request.plan.before[c] IN
    /\ request \in appendsSent /\ ReceiptOf(request.plan, c) = {}
    /\ operating = "yes" /\ request.plan \in approvals /\ contexts[c] = before
    /\ before.revision < MaxContextRevision
    /\ contexts' = [contexts EXCEPT ![c] = ContextAfter(before, request.plan.version)]
    /\ appended' = appended \cup {[plan |-> request.plan, context |-> c, previous |-> before.revision]}
    /\ UNCHANGED <<profilePlans, approvals, operating, appendsSent, profileRuns, runsBegun, profileMishaps>>
-----------------------------------------------------------------------------
(* preview and apply *)

RunBecomes(o, run) == profileRuns' = [profileRuns EXCEPT ![o] = run]

RunProceeds(o, step) == RunBecomes(o, [profileRuns[o] EXCEPT !.step = step])

KeptButRuns == <<contexts, profilePlans, approvals, operating, appended, appendsSent, runsBegun,
    profileMishaps>>

BeginPreview(o, version) ==
  /\ profileRuns[o] = NoRun /\ operating = "yes" /\ runsBegun < MaxProfileRuns /\ runsBegun' = runsBegun + 1
  /\ RunBecomes(o, [step |-> "preview", version |-> version, before |-> <<>>, left |-> Context])
  /\ UNCHANGED <<contexts, profilePlans, approvals, operating, appended, appendsSent, profileMishaps>>

\* One Context after the other; authority before and after each.
PreviewContext(o, c) ==
  /\ profileRuns[o].step = "preview" /\ c \in profileRuns[o].left
  /\ RunBecomes(o, IF operating = "yes"
               THEN [profileRuns[o] EXCEPT !.left = @ \ {c},
                       !.before = [x \in DOMAIN @ \cup {c} |-> IF x = c THEN contexts[c] ELSE @[x]]]
               ELSE NoRun)
  /\ UNCHANGED KeptButRuns

EndPreview(o) ==
  /\ profileRuns[o].step = "preview" /\ profileRuns[o].left = {}
  /\ profilePlans' = IF operating = "yes"
                THEN profilePlans \cup {[version |-> profileRuns[o].version, before |-> profileRuns[o].before]} ELSE profilePlans
  /\ RunBecomes(o, NoRun)
  /\ UNCHANGED <<contexts, approvals, operating, appended, appendsSent, runsBegun, profileMishaps>>

\* Called with a plan and its approval; `known' are the Contexts it had changed by then.
BeginApply(o, plan) ==
  /\ profileRuns[o] = NoRun /\ plan \in approvals /\ runsBegun < MaxProfileRuns /\ runsBegun' = runsBegun + 1
  /\ RunBecomes(o, [step |-> "next", plan |-> plan, left |-> Context, context |-> "none", told |-> "nothing",
              known |-> {c \in Context : ReceiptOf(plan, c) # {}}])
  /\ UNCHANGED <<contexts, profilePlans, approvals, operating, appended, appendsSent, profileMishaps>>

\* What one Context came to; the others proceed.  `denied', `conflict' and `mismatch'
\* are told as blocked, with their codes; `unknown' and `failed' both as unknown: no
\* receipt was found after an answer was lost, or a port threw.
TellsOutcome(o, told) == RunBecomes(o, [profileRuns[o] EXCEPT !.step = "told", !.told = told])

NextContext(o, c) ==
  /\ profileRuns[o].step \in {"next", "told"} /\ c \in profileRuns[o].left
  /\ RunBecomes(o, [profileRuns[o] EXCEPT !.step = "allow", !.context = c, !.left = @ \ {c}, !.told = "nothing"])
  /\ UNCHANGED KeptButRuns

EndApply(o) ==
  /\ profileRuns[o].step = "told" /\ profileRuns[o].left = {} /\ RunBecomes(o, NoRun)
  /\ UNCHANGED KeptButRuns

CheckAllowed(o) ==
  /\ profileRuns[o].step \in {"allow", "allowAgain"}
  /\ IF operating = "yes"
       THEN RunProceeds(o, IF profileRuns[o].step = "allow" THEN "look" ELSE "approve")
           ELSE TellsOutcome(o, "denied")
  /\ UNCHANGED KeptButRuns

FoundReceiptMut(o) == FALSE

\* The receipt of the operation, asked for before any revision is compared.
FoundReceipt(o) == ReceiptOf(profileRuns[o].plan, profileRuns[o].context) # {}

FindReceipt(o) ==
  /\ profileRuns[o].step = "look"
  /\ RunProceeds(o, IF FoundReceipt(o) THEN "answer" ELSE "compare")
  /\ UNCHANGED KeptButRuns

\* The state that was previewed; another, one no longer eligible and another target conflict.
CompareContext(o) ==
  /\ profileRuns[o].step = "compare"
  /\ \/ /\ contexts[profileRuns[o].context] = profileRuns[o].plan.before[profileRuns[o].context]
        /\ RunProceeds(o, "allowAgain")
     \/ TellsOutcome(o, "conflict")
  /\ UNCHANGED KeptButRuns

\* The approval again; what would change nothing is not appended.
ApproveAgain(o) ==
  /\ profileRuns[o].step = "approve"
  /\ IF profileRuns[o].plan \notin approvals THEN TellsOutcome(o, "denied")
     ELSE IF Changes(profileRuns[o].plan.before[profileRuns[o].context], profileRuns[o].plan.version)
       THEN RunProceeds(o, "append") ELSE TellsOutcome(o, "unchanged")
  /\ UNCHANGED KeptButRuns

AppendRevision(o) ==
  /\ profileRuns[o].step = "append"
  /\ appendsSent' = appendsSent \cup {[plan |-> profileRuns[o].plan, context |-> profileRuns[o].context]}
  /\ RunProceeds(o, "wait")
  /\ UNCHANGED <<contexts, profilePlans, approvals, operating, appended, runsBegun, profileMishaps>>

\* The answer of the host, or an error that says nothing of the commit: then
\* only the receipt counts, and without one the outcome is unknown.
AppendAnswered(o) ==
  /\ profileRuns[o].step = "wait"
  /\ \/ RunProceeds(o, "lookAgain")
     \/ ReceiptOf(profileRuns[o].plan, profileRuns[o].context) # {} /\ RunProceeds(o, "answer")
  /\ UNCHANGED KeptButRuns

LookAgain(o) ==
  /\ profileRuns[o].step = "lookAgain"
  /\ IF ReceiptOf(profileRuns[o].plan, profileRuns[o].context) # {} THEN RunProceeds(o, "answer")
         ELSE TellsOutcome(o, "unknown")
  /\ UNCHANGED KeptButRuns

\* The receipt must be of this plan, for the revision it was approved for.
ReceiptFits(o) == \E r \in ReceiptOf(profileRuns[o].plan, profileRuns[o].context) :
  r.previous = profileRuns[o].plan.before[profileRuns[o].context].revision

TellApplied(o) ==
  /\ profileRuns[o].step = "answer"
  /\ TellsOutcome(o, IF operating = "no" THEN "denied" ELSE IF ReceiptFits(o) THEN "applied" ELSE "mismatch")
  /\ UNCHANGED KeptButRuns

\* Any port of the host may throw: a preview is given up; of a Context that is applied
\* nothing is known, also of one that the plan has changed already, and the others proceed.
PortFails(o) ==
  /\ \/ profileRuns[o].step = "preview" /\ RunBecomes(o, NoRun)
     \/ /\ profileRuns[o].step \in {"allow", "look", "compare", "allowAgain", "approve", "lookAgain", "answer"}
        /\ TellsOutcome(o, "failed")
  /\ UNCHANGED KeptButRuns

\* The operator's process stops; the plan may be applied again.
OperatorStops(o) ==
  /\ profileRuns[o] # NoRun /\ ProfileMishap /\ RunBecomes(o, NoRun)
  /\ UNCHANGED <<contexts, profilePlans, approvals, operating, appended, appendsSent, runsBegun>>

ProfilesNext ==
  \/ \E c \in Context : \E grant, denied \in SUBSET Permission : ContextChanges(c, grant, denied)
  \/ \E plan \in profilePlans : ApprovePlan(plan) \/ WithdrawApproval(plan)
  \/ ChangeOperator
  \/ \E request \in appendsSent : AppendCommits(request)
  \/ \E o \in Operator :
       \/ \E version \in ProfileVersion : BeginPreview(o, version)
       \/ \E plan \in profilePlans : BeginApply(o, plan)
       \/ \E c \in Context : PreviewContext(o, c) \/ NextContext(o, c)
       \/ EndPreview(o) \/ EndApply(o) \/ CheckAllowed(o) \/ FindReceipt(o) \/ CompareContext(o) \/ ApproveAgain(o)
       \/ AppendRevision(o) \/ AppendAnswered(o) \/ LookAgain(o) \/ TellApplied(o) \/ PortFails(o) \/ OperatorStops(o)
-----------------------------------------------------------------------------
ProfilesTypeOK ==
  /\ \A c \in Context : contexts[c].revision \in 1..MaxContextRevision
  /\ approvals \subseteq profilePlans /\ operating \in {"yes", "no"}
  /\ \A r \in appended : r.plan \in profilePlans /\ r.context \in Context
  /\ \A o \in Operator : profileRuns[o].step \in {"idle", "preview", "next", "told", "allow", "look", "compare",
                           "allowAgain", "approve", "append", "wait", "lookAgain", "answer"}

\* Whatever is lost and repeated, a plan changes a Context once, from the state that
\* was previewed and approved; a caller is told `applied' of what was appended, and
\* `unchanged' of what nothing would change.  What a plan had done before a call began
\* is found again although the Context has moved on: it is told as a conflict, as a
\* mismatch or as unchanged never, and as unknown only when a port of the host failed,
\* never because its receipt was not found (context/access-profiles.js:85-117).
PlansApplyOnce ==
  /\ \A r, q \in appended : r.plan = q.plan /\ r.context = q.context => r = q
  /\ \A r, q \in appended : r.context = q.context /\ r.previous = q.previous => r = q
  /\ \A o \in Operator : profileRuns[o].step = "told" =>
       LET run == profileRuns[o] IN
         /\ run.told = "applied" => ReceiptOf(run.plan, run.context) # {}
         /\ run.told = "unchanged" => ReceiptOf(run.plan, run.context) = {}
         /\ run.context \in run.known => run.told \in {"applied", "denied", "failed"}
=============================================================================
