------------------------------ MODULE Routing -------------------------------
(***************************************************************************)
(* The model of a Task: chosen when the Task is created, from the user's    *)
(* selection, the routing policy and what is available, then found again    *)
(* under the identity in the Task's row, which its owner may exchange while *)
(* the Task waits.  Policy, profiles and the user's own key are read in     *)
(* separate queries before every call of the provider; an executor that     *)
(* lost its session goes on with the call it has begun.                     *)
(***************************************************************************)
EXTENDS Naturals, Sequences, FiniteSets

CONSTANTS
  Platform,        \* profiles of the host, under the platform's credentials
  Own,             \* profiles of the user, each under a key of its own
  NoProfile,
  RoutedTask,
  Router,          \* hosts, each with the configuration it was started with
  RoutingPolicy,   \* the policies the application may answer
  MaxEndpoint,     \* bound: revisions of the configuration of one profile
  MaxRouteMishaps  \* bound: changes of policy, selection, keys, models; restarts, lost sessions

Profile == Platform \cup Own

\* Orders without repetition.
Orders == {s \in UNION {[1..n -> Profile] : n \in 1..Cardinality(Profile)} :
             \A i, j \in DOMAIN s : s[i] = s[j] => i = j}

\* Bounds are numbers, every profile is deployed with a revision, and a policy is an order.
ASSUME RoutingBounds ==
  MaxEndpoint \in Nat \ {0} /\ MaxRouteMishaps \in Nat /\ RoutingPolicy \subseteq Orders

VARIABLES
  deployed,      \* the revision of each profile or endpoint a host runs with
  ownKeys,       \* iaic_user_models: "live" or "revoked"; saved under the first revision
  selection,     \* iaic_assistant_settings: the profile the user selected
  routePolicy,   \* resolvePolicy: the profiles in the order to try them
  routes,        \* the Task each host resolves a model for, and the gateway it holds
  identities,    \* iaic_tasks.model
  taskStates,    \* iaic_tasks.status, as far as it decides who may do what
  holding,       \* what has allowed the call under way since it began
  routeMishaps

routingVars == <<deployed, ownKeys, selection, routePolicy, routes, identities, taskStates, holding, routeMishaps>>

NoModel == [id |-> NoProfile, revision |-> 0]

\* `session' of an execution: held until the executor's connection is lost.
NoRoute == [step |-> "idle", goal |-> "none", task |-> "none", session |-> "none", ids |-> <<>>, model |-> NoModel]

CredentialsOf(p) == IF p \in Own THEN "BYOK" ELSE "SYSTEM_MANAGED"

RoutingInit ==
  /\ deployed = [w \in Router |-> [p \in Profile |-> 1]] /\ ownKeys = [p \in Own |-> "live"]
  /\ selection \in Profile /\ routePolicy \in RoutingPolicy
  /\ routes = [w \in Router |-> NoRoute] /\ identities = [t \in RoutedTask |-> NoModel]
  /\ taskStates = [t \in RoutedTask |-> "none"]
  /\ holding = [w \in Router |-> {}] /\ routeMishaps = 0

\* What the lists of profiles show: an own profile keeps the revision it was saved under.
Listed(p) == p \in Own => ownKeys[p] = "live"
ModelOf(w, p) == [id |-> p, revision |-> IF p \in Own THEN 1 ELSE deployed[w][p]]

\* row: an own profile also needs the endpoint it was saved for.
Usable(w, p) == p \in Own => ownKeys[p] = "live" /\ deployed[w][p] = 1

\* The host's executor has the Task: each of its transactions asks that.
HasTask(w, t) == routes[w].task = t /\ routes[w].session = "held"
-----------------------------------------------------------------------------
RouteMishap == routeMishaps < MaxRouteMishaps /\ routeMishaps' = routeMishaps + 1

RoutingAlone == UNCHANGED <<routes, identities, taskStates>>

\* A host starts again with another configuration of one profile, or with the same.
RestartHost(w, p, revision) ==
  /\ RouteMishap /\ deployed' = [deployed EXCEPT ![w][p] = revision]
  /\ routes' = [routes EXCEPT ![w] = NoRoute]
  /\ UNCHANGED <<ownKeys, selection, routePolicy, identities, taskStates>>

RevokeOwn(p) ==
  /\ RouteMishap /\ ownKeys[p] = "live" /\ ownKeys' = [ownKeys EXCEPT ![p] = "revoked"]
  /\ RoutingAlone /\ UNCHANGED <<deployed, selection, routePolicy>>

SelectProfile(w, p) ==
  /\ RouteMishap /\ Usable(w, p) /\ selection' = p
  /\ RoutingAlone /\ UNCHANGED <<deployed, ownKeys, routePolicy>>

ChangeRoutePolicy(order) ==
  /\ RouteMishap /\ routePolicy' = order
  /\ RoutingAlone /\ UNCHANGED <<deployed, ownKeys, selection>>

\* The connection of an executor is lost: it can write no more, but it is not stopped.
LoseRouteSession(w) ==
  /\ RouteMishap /\ routes[w].session = "held"
  /\ routes' = [routes EXCEPT ![w].session = "lost"]
  /\ UNCHANGED <<deployed, ownKeys, selection, routePolicy, identities, taskStates>>

TaskBecomesState(t, from, to) ==
  /\ taskStates[t] = from /\ taskStates' = [taskStates EXCEPT ![t] = to]
  /\ UNCHANGED <<deployed, ownKeys, selection, routePolicy, routes, identities, routeMishaps>>

\* recover: the next executor finds a Task that nobody has.
RecoverRouted(t) == (\A w \in Router : ~HasTask(w, t)) /\ TaskBecomesState(t, "running", "waiting")

\* transition: the owner resumes the Task.
ResumeRouted(t) == TaskBecomesState(t, "waiting", "queued")

\* switchModel: the owner gives a waiting Task another model; whether a host knows
\* it is found out when the Task is taken.
SwitchModel(t, model) ==
  /\ RouteMishap /\ taskStates[t] = "waiting" /\ model # identities[t]
  /\ identities' = [identities EXCEPT ![t] = model]
  /\ UNCHANGED <<deployed, ownKeys, selection, routePolicy, routes, taskStates>>
-----------------------------------------------------------------------------
RouteBecomes(w, route) ==
  /\ routes' = [routes EXCEPT ![w] = route]
  /\ UNCHANGED <<deployed, ownKeys, selection, routePolicy, routeMishaps>>

\* What was read of the policy is not looked at again.
RouteStep(w, step) == RouteBecomes(w, [routes[w] EXCEPT !.step = step, !.ids = <<>>])

\* The search or the execution ends; finish needs the session, and without it the
\* Task stays to be recovered.
GivesRouteFor(w, state) ==
  /\ RouteBecomes(w, NoRoute)
  /\ taskStates' = IF routes[w].session = "held" THEN [taskStates EXCEPT ![routes[w].task] = state] ELSE taskStates

GivesRoute(w) == GivesRouteFor(w, "waiting")

\* Admission resolves a model for a new Task.
ResolveRoute(w, t) ==
  /\ routes[w].step = "idle" /\ taskStates[t] = "none"
  /\ RouteBecomes(w, [NoRoute EXCEPT !.step = "policy", !.goal = "create", !.task = t])
  /\ UNCHANGED <<identities, taskStates>>

\* claim: one Task at a time; execution resolves the model of the row it took.
TakeTask(w, t) ==
  /\ routes[w].step = "idle" /\ taskStates[t] = "queued" /\ \A u \in RoutedTask : taskStates[u] # "running"
  /\ taskStates' = [taskStates EXCEPT ![t] = "running"]
  /\ RouteBecomes(w, [NoRoute EXCEPT !.step = "policy", !.goal = "execute", !.task = t,
                                     !.session = "held", !.model = identities[t]])
  /\ UNCHANGED identities

\* state: the policy first, then the selection and the profiles.
ReadPolicy(w) ==
  /\ routes[w].step \in {"policy", "policyCheck", "policyCall"}
  /\ RouteBecomes(w, [routes[w] EXCEPT !.ids = routePolicy,
                  !.step = CASE @ = "policy" -> "profiles" [] @ = "policyCheck" -> "profilesCheck"
                             [] OTHER -> "profilesCall"])
  /\ UNCHANGED <<identities, taskStates>>

PrimaryOf(w) == routes[w].ids[1]

\* A new Task: the policy starts with the selected profile, and every profile it
\* names is listed, under the same mode of credentials.
Routable(w) ==
  /\ PrimaryOf(w) = selection
  /\ \A i \in DOMAIN routes[w].ids : Listed(routes[w].ids[i]) /\ CredentialsOf(routes[w].ids[i]) = CredentialsOf(selection)

Authorized(w, model) ==
  /\ Listed(model.id) /\ ModelOf(w, model.id) = model
  /\ \E i \in DOMAIN routes[w].ids : routes[w].ids[i] = model.id

ReadProfiles(w) ==
  /\ routes[w].step = "profiles"
  /\ \/ /\ routes[w].goal = "create" /\ Routable(w)
        /\ RouteBecomes(w, [routes[w] EXCEPT !.step = "probe"]) /\ UNCHANGED taskStates
     \/ /\ routes[w].goal = "execute" /\ Authorized(w, routes[w].model)
        /\ RouteStep(w, "target") /\ UNCHANGED taskStates
     \/ /\ ~(IF routes[w].goal = "create" THEN Routable(w) ELSE Authorized(w, routes[w].model))
        /\ GivesRoute(w)
  /\ UNCHANGED identities

\* availability: the first that is available; an unknown one ends the search.
ProbeProfile(w) ==
  /\ routes[w].step = "probe"
  /\ \/ /\ RouteBecomes(w, [routes[w] EXCEPT !.step = "target", !.ids = <<>>, !.model = ModelOf(w, PrimaryOf(w))])
        /\ UNCHANGED taskStates
     \/ /\ Len(routes[w].ids) > 1 /\ RouteBecomes(w, [routes[w] EXCEPT !.ids = Tail(@)])
        /\ UNCHANGED taskStates
     \/ GivesRoute(w)
  /\ UNCHANGED identities

\* The gateway is built for the profile as it is now; another identity refuses it.
BuildGateway(w) ==
  /\ routes[w].step = "target"
  /\ IF Usable(w, routes[w].model.id) /\ ModelOf(w, routes[w].model.id) = routes[w].model
       THEN RouteStep(w, "policyCheck") /\ UNCHANGED taskStates ELSE GivesRoute(w)
  /\ UNCHANGED identities

StillAuthorizedMut(w) == TRUE

\* check: the route is still in the policy, and the profile is the same one.
StillAuthorized(w) == Authorized(w, routes[w].model)

CheckProfiles(w) ==
  /\ routes[w].step \in {"profilesCheck", "profilesCall"}
  /\ IF StillAuthorized(w)
       THEN /\ RouteStep(w, IF routes[w].step = "profilesCheck" THEN "gateway" ELSE "key")
            /\ UNCHANGED taskStates
       ELSE GivesRoute(w)
  /\ UNCHANGED identities

\* The Task is created under the name of the gateway; a repeated key finds the first.
AdmitTask(w) ==
  LET t == routes[w].task IN
    /\ routes[w].step = "gateway" /\ routes[w].goal = "create"
    /\ RouteBecomes(w, NoRoute)
    /\ IF taskStates[t] = "none"
         THEN /\ identities' = [identities EXCEPT ![t] = routes[w].model]
              /\ taskStates' = [taskStates EXCEPT ![t] = "queued"]
         ELSE UNCHANGED <<identities, taskStates>>

\* A turn: model_requested is appended, which needs the session, then next of the gateway.
BeginCall(w) ==
  /\ routes[w].step = "gateway" /\ routes[w].goal = "execute" /\ routes[w].session = "held"
  /\ RouteStep(w, "policyCall")
  /\ UNCHANGED <<identities, taskStates>>

\* The row of the user's key is read again, immediately before the call.
ReadOwnKey(w) ==
  /\ routes[w].step = "key"
  /\ IF Usable(w, routes[w].model.id) THEN RouteStep(w, "provider") /\ UNCHANGED taskStates ELSE GivesRoute(w)
  /\ UNCHANGED identities

CallProvider(w) ==
  /\ routes[w].step = "provider" /\ RouteStep(w, "gateway")
  /\ UNCHANGED <<identities, taskStates>>

\* The Task ends or waits, or its session is lost: its gateway is dropped.
DropsGateway(w) ==
  /\ routes[w].step = "gateway" /\ routes[w].goal = "execute"
  /\ \E state \in {"waiting", "ended"} : GivesRouteFor(w, state)
  /\ UNCHANGED identities
-----------------------------------------------------------------------------
\* Whether the model called is in the policy, its key is live, and the Task has it.
HeldNow(w) ==
  (IF \E i \in DOMAIN routePolicy : routePolicy[i] = routes[w].model.id THEN {"policy"} ELSE {})
    \cup (IF routes[w].model.id \in Own => ownKeys[routes[w].model.id] = "live" THEN {"key"} ELSE {})
    \cup (IF routes[w].task \in RoutedTask /\ identities[routes[w].task] = routes[w].model THEN {"model"} ELSE {})

HoldsThrough(w) == IF routes'[w].step = "policyCall" /\ routes[w].step # "policyCall" THEN HeldNow(w)'
            ELSE IF routes'[w].step \in {"policyCall", "profilesCall", "key", "provider"}
              THEN holding[w] \cup HeldNow(w)' ELSE {}

RoutingNext ==
  /\ \/ \E w \in Router : \E p \in Profile :
          SelectProfile(w, p) \/ \E revision \in 1..MaxEndpoint : RestartHost(w, p, revision)
     \/ \E p \in Own : RevokeOwn(p)
     \/ \E order \in RoutingPolicy : ChangeRoutePolicy(order)
     \/ \E t \in RoutedTask :
          \/ RecoverRouted(t) \/ ResumeRouted(t)
          \/ \E model \in [id : Profile, revision : 1..MaxEndpoint] : SwitchModel(t, model)
          \/ \E w \in Router : ResolveRoute(w, t) \/ TakeTask(w, t)
     \/ \E w \in Router :
          \/ LoseRouteSession(w) \/ ReadPolicy(w) \/ ReadProfiles(w) \/ ProbeProfile(w) \/ BuildGateway(w)
          \/ CheckProfiles(w) \/ AdmitTask(w) \/ BeginCall(w) \/ ReadOwnKey(w) \/ CallProvider(w) \/ DropsGateway(w)
  /\ holding' = [w \in Router |-> HoldsThrough(w)]

RoutingSpec == RoutingInit /\ [][RoutingNext]_routingVars
-----------------------------------------------------------------------------
RoutingTypeOK ==
  /\ deployed \in [Router -> [Profile -> 1..MaxEndpoint]] /\ ownKeys \in [Own -> {"live", "revoked"}]
  /\ selection \in Profile /\ routePolicy \in RoutingPolicy /\ routeMishaps \in 0..MaxRouteMishaps
  /\ \A t \in RoutedTask : /\ identities[t].id \in Profile \cup {NoProfile}
                           /\ taskStates[t] \in {"none", "queued", "running", "waiting", "ended"}
  /\ \A w \in Router :
       /\ routes[w].model.id \in Profile \cup {NoProfile}
       /\ routes[w].goal \in {"none", "create", "execute"} /\ routes[w].session \in {"none", "held", "lost"}
       /\ routes[w].task \in RoutedTask \cup {"none"}
       /\ routes[w].step \in {"idle", "policy", "profiles", "probe", "target", "policyCheck", "profilesCheck",
                              "gateway", "policyCall", "profilesCall", "key", "provider"}
       /\ holding[w] \subseteq {"policy", "key", "model"}

\* The model of a Task changes only by its owner, and never under an executor that has
\* the Task: that executor calls the Task's own model, under the revision and the
\* credentials it names, however long it keeps its gateway and whatever restarts in
\* between.  One that lost its session may still make the call it had begun; that call
\* too is of a model the Task had since the call began, and no call is made whose
\* profile was out of the policy, or whose key was revoked, all that time
\* (assistants/model-routing.js:43-52, credentials/user-models.js:63-71,
\* tasks/store.js:144-159, agent/runtime.js:164-166).
TaskKeepsModel ==
  [][ /\ \A t \in RoutedTask : identities'[t] # identities[t] => \A w \in Router : ~HasTask(w, t)
      /\ \A w \in Router : CallProvider(w) =>
           /\ holding[w] = {"policy", "key", "model"}
           /\ routes[w].session = "held" => routes[w].model = identities[routes[w].task]
           /\ routes[w].model.id \in Platform =>
                deployed[w][routes[w].model.id] = routes[w].model.revision ]_routingVars
=============================================================================
