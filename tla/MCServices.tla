----------------------------- MODULE MCServices -----------------------------
(***************************************************************************)
(* The services beside the Task core, which share no tables: one instance   *)
(* of each.  A behaviour has a focus, chosen once, and only the service in  *)
(* focus moves; the states are those of the services side by side.         *)
(***************************************************************************)
EXTENDS DueWork, EventFeed, Payments, Outbox, Admission, Releases, Sandbox,
        Devices, Grants, Handoffs, Inbox, Support, TLC

CONSTANTS
  c1, p1

Lasts1 == [r \in Rule |-> 1]

\* Two alike processes of a service may change places.  Only one service moves, so
\* those of the other services change places along with the materialisers.
Swap(set) == CHOOSE f \in Permutations(set) : \A x \in set : f[x] # x
Alike == <<Materializer, Publisher, Worker, Caller, Sender, Turn, Monitor, Inspector, Executor, Projector, GrantCall>>
Workers == Permutations(Dispatcher) \cup
           {[x \in UNION {Alike[i] : i \in DOMAIN Alike} |->
               LET set == CHOOSE s \in {Alike[i] : i \in DOMAIN Alike} : x \in s IN Swap(set)[x]]}
Triggers == [i \in Direct |-> "succeeded"]
OneParent == [h \in Handoff |-> p1]
OneEach == [k \in RefundKey |-> 1]

VARIABLE focus

Service == {"due", "feed", "payments", "outbox", "admission", "releases", "sandbox",
            "devices", "grants", "handoffs", "inbox", "projections", "support"}

servicesVars == <<focus, dueVars, feedVars, payVars, outboxVars, admissionVars, releaseVars, sandboxVars,
                  deviceVars, grantVars, handoffVars, inboxVars, projectionVars, supportVars>>

ServicesInit ==
  /\ focus \in Service
  /\ DueInit /\ FeedInit /\ PayInit /\ OutboxInit /\ AdmissionInit /\ ReleaseInit /\ SandboxInit
  /\ DeviceInit /\ GrantInit /\ HandoffInit /\ InboxInit /\ ProjectionInit /\ SupportInit
  /\ focus # "releases" => channel.canary = NoRelease
  /\ focus # "payments" => paymentOf = [k \in RefundKey |-> c1]
  /\ focus # "devices" => file = "free"

Only(service) ==
  /\ UNCHANGED focus
  /\ IF service = "due" THEN TRUE ELSE UNCHANGED dueVars
  /\ IF service = "feed" THEN TRUE ELSE UNCHANGED feedVars
  /\ IF service = "payments" THEN TRUE ELSE UNCHANGED payVars
  /\ IF service = "outbox" THEN TRUE ELSE UNCHANGED outboxVars
  /\ IF service = "admission" THEN TRUE ELSE UNCHANGED admissionVars
  /\ IF service = "releases" THEN TRUE ELSE UNCHANGED releaseVars
  /\ IF service = "sandbox" THEN TRUE ELSE UNCHANGED sandboxVars
  /\ IF service = "devices" THEN TRUE ELSE UNCHANGED deviceVars
  /\ IF service = "grants" THEN TRUE ELSE UNCHANGED grantVars
  /\ IF service = "handoffs" THEN TRUE ELSE UNCHANGED handoffVars
  /\ IF service = "inbox" THEN TRUE ELSE UNCHANGED inboxVars
  /\ IF service = "projections" THEN TRUE ELSE UNCHANGED projectionVars
  /\ IF service = "support" THEN TRUE ELSE UNCHANGED supportVars

ServicesNext ==
  \/ focus = "due" /\ DueNext /\ Only("due")
  \/ focus = "feed" /\ FeedNext /\ Only("feed")
  \/ focus = "payments" /\ PayNext /\ Only("payments")
  \/ focus = "outbox" /\ OutboxNext /\ Only("outbox")
  \/ focus = "admission" /\ AdmissionNext /\ Only("admission")
  \/ focus = "releases" /\ ReleaseNext /\ Only("releases")
  \/ focus = "sandbox" /\ SandboxNext /\ Only("sandbox")
  \/ focus = "devices" /\ DeviceNext /\ Only("devices")
  \/ focus = "grants" /\ GrantNext /\ Only("grants")
  \/ focus = "handoffs" /\ HandoffNext /\ Only("handoffs")
  \/ focus = "inbox" /\ InboxNext /\ Only("inbox")
  \/ focus = "projections" /\ ProjectionNext /\ Only("projections")
  \/ focus = "support" /\ SupportNext /\ Only("support")

ServicesSpec == ServicesInit /\ [][ServicesNext]_servicesVars

\* Every variable of every service keeps to the states its tables and
\* processes can be in (the schema.sql of each service).
ServicesTypeOK ==
  /\ focus \in Service
  /\ focus = "due" => DueTypeOK
  /\ focus = "feed" => FeedTypeOK
  /\ focus = "payments" => PayTypeOK
  /\ focus = "outbox" => OutboxTypeOK
  /\ focus = "admission" => AdmissionTypeOK
  /\ focus = "releases" => ReleaseTypeOK
  /\ focus = "sandbox" => SandboxTypeOK
  /\ focus = "devices" => DeviceTypeOK
  /\ focus = "grants" => GrantTypeOK
  /\ focus = "handoffs" => HandoffTypeOK
  /\ focus = "inbox" => InboxTypeOK
  /\ focus = "projections" => ProjectionTypeOK
  /\ focus = "support" => SupportTypeOK

\* Due work adds up from step to step: no occurrence is lost or made twice, a
\* Task has its intent and an intent its Task, and a rule that was stopped stays
\* quiet (recurring/store.js:25-53, deferred/store.js:29-54).
DueWorkHolds ==
  /\ [](OccurrencesAccounted /\ IntentsMatchTasks)
  /\ StoppedRulesAreQuiet

\* No limit is passed by admissions that cross: of the provider's load
\* (agent/capacity-store.js:9-17, rate-store.js:12-26), and of the calls and Tasks
\* of a grant (collaboration/authority.js:17-42).
LimitsHold == ProviderLoadBounded /\ GrantBoundsWork

\* What is told to people and monitors is so: a protection that is reported did
\* happen, a resolution rests on the revision that was verified, a page of the
\* Inbox hides nothing and what was delivered stays delivered
\* (observation/cycles.js:21-28, support/service.js:52-63, inbox/store.js:24-28, 78-88).
OutcomesHold == ProtectionHolds /\ ResolutionsHold /\ ListHidesNothing /\ DeliveredStays

\* What hosts make of a hand-off stays true, whatever crosses with whatever: what a
\* delegation told its parent, that a row nobody looks at has no live child, and
\* what a parent reads of row and child together
\* (handoffs/service.js:60-145, agent/delegation.js:29-36).
HandoffsHold == ReceiptIsFinal /\ ReconciledIsQuiet /\ ToldFitsTogether
=============================================================================
