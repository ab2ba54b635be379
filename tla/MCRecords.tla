----------------------------- MODULE MCRecords -----------------------------
(***************************************************************************)
(* The records the host keeps around its Tasks (memories and workspaces,    *)
(* accounts and keys, access, profiles, routes, subscriptions, sessions,    *)
(* channels, reviews and plans, feedback, knowledge, presence, deployments,  *)
(* evaluations, and the views of Tasks), which share no tables: one instance *)
(* of each.  As in MCServices, a behaviour has a focus, and only what is in  *)
(* focus moves.                                                             *)
(***************************************************************************)
EXTENDS Workspaces, Accounts, Access, Subscriptions, Sessions, Channels,
        Conversations, FeedbackQueue, AccessProfiles, Routing, Papers,
        Knowledge, Registry, Deployments, Evaluations, Views, Peers, TLC

\* One snapshot holds every memory key; what hands link is nothing, or all of it.
WholeSnapshots == [s \in ImportRequest |-> MemoryKey]
\* The later version of the access profile grants one permission more.
SecondGrants == [v \in ProfileVersion |-> IF v = FirstVersion THEN {"read"} ELSE {"read"} \cup Permission]
\* The cases of an evaluation are of one category.
OneCategory(case) == "category"
EditEvidences == {{"task"} \cup ReleaseEvidence}

\* Processes, request keys and what they carry are alike; the parts share the values.
Alike == {f @@ g : f \in Permutations(Reader), g \in Permutations(EntryKey)}

CONSTANTS
  i0,          \* the scope of every source event in the other parts
  AnyProfile   \* the model selected in the other parts

\* The user's own profile, or two of the host.
FewPolicies == {<<p>> : p \in Own} \cup {<<AnyProfile, p>> : p \in Platform \ {AnyProfile}}

VARIABLE focus

Part == {"workspaces", "accounts", "access", "subscriptions",
         "sessions", "channels", "conversations", "feedback", "profiles", "routes", "papers",
         "knowledge", "registry", "deployments", "evaluations", "views", "peers"}

recordsVars == <<focus, workspaceVars, accountVars, accessVars, subscriptionVars,
                 sessionVars, channelVars, conversationVars, feedbackVars,
                 profileVars, routingVars, paperVars, knowledgeVars, registryVars,
                 deploymentVars, evaluationVars, viewVars, peerVars>>

RecordsInit ==
  /\ focus \in Part
  /\ WorkspacesInit /\ AccountsInit /\ AccessInit /\ SubscriptionsInit
  /\ focus # "workspaces" => \A p \in Path : heads[p].revision = 0
  /\ SessionsInit /\ ChannelsInit /\ ConversationsInit /\ FeedbackInit
  /\ focus # "subscriptions" =>
       sourceFacts = [o \in SourceEvent |-> [scope |-> i0, sequence |-> 1, state |-> "active"]]
  /\ ProfilesInit /\ RoutingInit /\ PapersInit
  /\ focus # "routes" => selection = AnyProfile /\ routePolicy[1] = AnyProfile
  /\ focus # "channels" => boundTo = Asker
  /\ KnowledgeInit /\ RegistryInit
  /\ DeploymentsInit /\ (focus # "deployments" => adapter = "plain")
  /\ EvaluationsInit /\ (focus # "evaluations" => \A c \in Case : baseline[c].status = "error")
  /\ ViewsInit /\ (focus # "views" => inView = "results")
  /\ PeersInit /\ (focus # "peers" => peerWork = "order")

Only(part) ==
  /\ UNCHANGED focus
  /\ IF part = "workspaces" THEN TRUE ELSE UNCHANGED workspaceVars
  /\ IF part = "accounts" THEN TRUE ELSE UNCHANGED accountVars
  /\ IF part = "access" THEN TRUE ELSE UNCHANGED accessVars
  /\ IF part = "subscriptions" THEN TRUE ELSE UNCHANGED subscriptionVars
  /\ IF part = "sessions" THEN TRUE ELSE UNCHANGED sessionVars
  /\ IF part = "channels" THEN TRUE ELSE UNCHANGED channelVars
  /\ IF part = "conversations" THEN TRUE ELSE UNCHANGED conversationVars
  /\ IF part = "feedback" THEN TRUE ELSE UNCHANGED feedbackVars
  /\ IF part = "profiles" THEN TRUE ELSE UNCHANGED profileVars
  /\ IF part = "routes" THEN TRUE ELSE UNCHANGED routingVars
  /\ IF part = "papers" THEN TRUE ELSE UNCHANGED paperVars
  /\ IF part = "knowledge" THEN TRUE ELSE UNCHANGED knowledgeVars
  /\ IF part = "registry" THEN TRUE ELSE UNCHANGED registryVars
  /\ IF part = "deployments" THEN TRUE ELSE UNCHANGED deploymentVars
  /\ IF part = "evaluations" THEN TRUE ELSE UNCHANGED evaluationVars
  /\ IF part = "views" THEN TRUE ELSE UNCHANGED viewVars
  /\ IF part = "peers" THEN TRUE ELSE UNCHANGED peerVars

RecordsNext ==
  \/ focus = "workspaces" /\ Only("workspaces") /\ WorkspacesNext
  \/ focus = "accounts" /\ Only("accounts") /\ AccountsNext
  \/ focus = "access" /\ Only("access") /\ AccessNext
  \/ focus = "subscriptions" /\ Only("subscriptions") /\ SubscriptionsNext
  \/ focus = "sessions" /\ Only("sessions") /\ SessionsNext
  \/ focus = "channels" /\ Only("channels") /\ ChannelsNext
  \/ focus = "conversations" /\ Only("conversations") /\ ConversationsNext
  \/ focus = "feedback" /\ Only("feedback") /\ FeedbackNext
  \/ focus = "profiles" /\ Only("profiles") /\ ProfilesNext
  \/ focus = "routes" /\ Only("routes") /\ RoutingNext
  \/ focus = "papers" /\ Only("papers") /\ PapersNext
  \/ focus = "knowledge" /\ Only("knowledge") /\ KnowledgeNext
  \/ focus = "registry" /\ Only("registry") /\ RegistryNext
  \/ focus = "deployments" /\ Only("deployments") /\ DeploymentsNext
  \/ focus = "evaluations" /\ Only("evaluations") /\ EvaluationsNext
  \/ focus = "views" /\ Only("views") /\ ViewsNext
  \/ focus = "peers" /\ Only("peers") /\ PeersNext

RecordsSpec == RecordsInit /\ [][RecordsNext]_recordsVars

\* Every variable keeps to the states its tables and processes can be in.
RecordsTypeOK ==
  /\ focus \in Part
  /\ focus = "workspaces" => WorkspacesTypeOK
  /\ focus = "accounts" => AccountsTypeOK
  /\ focus = "access" => AccessTypeOK
  /\ focus = "subscriptions" => SubscriptionsTypeOK
  /\ focus = "sessions" => SessionsTypeOK
  /\ focus = "channels" => ChannelsTypeOK
  /\ focus = "conversations" => ConversationsTypeOK
  /\ focus = "feedback" => FeedbackTypeOK
  /\ focus = "profiles" => ProfilesTypeOK
  /\ focus = "routes" => RoutingTypeOK
  /\ focus = "papers" => PapersTypeOK
  /\ focus = "knowledge" => KnowledgeTypeOK
  /\ focus = "registry" => RegistryTypeOK
  /\ focus = "deployments" => DeploymentsTypeOK
  /\ focus = "evaluations" => EvaluationsTypeOK
  /\ focus = "views" => ViewsTypeOK
  /\ focus = "peers" => PeersTypeOK

\* What people are shown and told adds up: the timeline of a session and the Tasks
\* started from it (sessions/store.js:22-57), the turns of a support conversation
\* (support/conversations.js:25-117), the pages of Tasks and documents, and what is
\* told of a delegated Task (tasks/listing.js:19-33, collaboration/progress.js:12-30).
WhatIsToldHolds ==
  /\ focus = "sessions" => TimelineHonest
  /\ focus = "conversations" => ConversationsAddUp
  /\ focus = "views" => PagesComplete /\ ClearIsSettled

\* What comes from elsewhere late, twice or out of order replaces nothing newer: facts of
\* a subscription's source (subscriptions/store.js:9-37), versions of an ingested source
\* (knowledge/ingested-store.js:36-62), reports of an executor, and the health that is
\* told of its Agent (operations/registry.js:35-55, operations/service.js:30-54).
LatestRules ==
  /\ focus = "subscriptions" => LatestSourceRules
  /\ focus = "knowledge" => KnowledgeForward
  /\ focus = "registry" => PresenceFollows /\ HealthIsCurrent

\* What may be asked twice is done once: the Task of a channel message and its reply
\* (channels/assistant.js:57-85), the start of a deployment (developer/activation.js:36-50),
\* the formal action of a peer and what a delivery says of it (collaboration/peer/formal.js:14-18).
WorkHappensOnce ==
  /\ focus = "channels" => MessagesWorkOnce
  /\ focus = "deployments" => LaunchedOnce
  /\ focus = "peers" => FormalOnce

\* What was approved, reviewed or passed stays bound to what was approved or reviewed:
\* plans of access profiles (context/access-profiles.js:85-117), peer reviews and
\* the plans of Tasks (collaboration/reviews.js:60-71, workspace/plans.js:44-50),
\* gates of evaluation runs (evaluation/runner.js:61-97), and messages to the grants
\* of both peers (collaboration/peer/gateway.js:36-43).
ApprovalsBind ==
  /\ focus = "profiles" => PlansApplyOnce
  /\ focus = "papers" => PapersHold
  /\ focus = "evaluations" => GatesAgree
  /\ focus = "peers" => PeerTermsHold
=============================================================================
