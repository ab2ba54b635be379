--------------------------- MODULE Subscriptions ----------------------------
(***************************************************************************)
(* Subscriptions installed from confirmed facts of a payment source.  A     *)
(* caller resolves the source outside any transaction; the store then       *)
(* applies what was resolved under the lock of the scope, once per source.  *)
(***************************************************************************)
EXTENDS Naturals

CONSTANTS
  Scope,
  SourceEvent,      \* ids of source events, each unique in the namespace
  NoSource,
  MaxSequence,      \* positions of a source's facts in its own order
  Applier,          \* callers of apply
  MaxSubscription,  \* bound: revisions of a subscription
  MaxFactChanges    \* bound: facts the source restates

\* Bounds are numbers.
ASSUME SubscriptionsBounds == MaxSubscription \in Nat /\ MaxFactChanges \in Nat

VARIABLES
  sourceFacts,    \* external: what resolveSource answers for a source now
  subscriptions,  \* iaic_subscriptions
  boundSources,   \* iaic_subscription_sources: payload and result of each source applied
  applying,       \* the applications under way
  factChanges

subscriptionVars == <<sourceFacts, subscriptions, boundSources, applying, factChanges>>

SourceFacts == [scope : Scope, sequence : 1..MaxSequence, state : {"active", "ended"}]

NoSubscription == [revision |-> 0, sequence |-> 0, state |-> "none", source |-> NoSource]

NotBound == [payload |-> [sequence |-> 0], result |-> NoSubscription]

Unresolved == [step |-> "idle"]

SubscriptionsInit ==
  /\ sourceFacts \in [SourceEvent -> SourceFacts]
  /\ subscriptions = [s \in Scope |-> NoSubscription]
  /\ boundSources = [o \in SourceEvent |-> NotBound]
  /\ applying = [a \in Applier |-> Unresolved] /\ factChanges = 0

\* The source restates an event: another position, another state, another scope.
FactsChange(o, restated) ==
  /\ factChanges < MaxFactChanges /\ restated # sourceFacts[o]
  /\ sourceFacts' = [sourceFacts EXCEPT ![o] = restated] /\ factChanges' = factChanges + 1
  /\ UNCHANGED <<subscriptions, boundSources, applying>>

\* apply of the service: only facts confirmed for the scope of the actor; the
\* caller names the revision it has read.
ResolveSource(a, o, expected) ==
  /\ applying[a] = Unresolved
  /\ applying' = [applying EXCEPT ![a] = [step |-> "resolved", source |-> o,
                                          payload |-> sourceFacts[o], expected |-> expected]]
  /\ UNCHANGED <<sourceFacts, subscriptions, boundSources, factChanges>>

\* An error and a lost answer end the call; the caller may begin it again.
GivesUp(a) ==
  /\ applying[a] # Unresolved /\ applying' = [applying EXCEPT ![a] = Unresolved]
  /\ UNCHANGED <<sourceFacts, subscriptions, boundSources, factChanges>>

InstallableMut(a) == subscriptions[applying[a].payload.scope].revision = applying[a].expected

\* The revision the caller read, and a position after the last one installed.
Installable(a) ==
  LET current == subscriptions[applying[a].payload.scope] IN
    /\ current.revision = applying[a].expected
    /\ applying[a].payload.sequence > current.sequence

\* apply of the store, one transaction: a source bound to the same payload is
\* answered with its first result, to another one it is refused.
InstallSubscription(a) ==
  /\ applying[a] # Unresolved
  /\ LET call == applying[a]
         next == [revision |-> call.expected + 1, sequence |-> call.payload.sequence,
                  state |-> call.payload.state, source |-> call.source] IN
       IF boundSources[call.source] = NotBound /\ Installable(a)
         THEN /\ subscriptions' = [subscriptions EXCEPT ![call.payload.scope] = next]
              /\ boundSources' = [boundSources EXCEPT ![call.source] = [payload |-> call.payload, result |-> next]]
         ELSE UNCHANGED <<subscriptions, boundSources>>
  /\ applying' = [applying EXCEPT ![a] = Unresolved]
  /\ UNCHANGED <<sourceFacts, factChanges>>

SubscriptionsNext ==
  \/ \E o \in SourceEvent : \E restated \in SourceFacts : FactsChange(o, restated)
  \/ \E a \in Applier :
       \/ \E o \in SourceEvent : \E expected \in 0..subscriptions[sourceFacts[o].scope].revision :
            expected < MaxSubscription /\ ResolveSource(a, o, expected)
       \/ InstallSubscription(a) \/ GivesUp(a)
-----------------------------------------------------------------------------
SubscriptionsTypeOK ==
  /\ sourceFacts \in [SourceEvent -> SourceFacts] /\ factChanges \in 0..MaxFactChanges
  /\ \A s \in Scope : subscriptions[s].revision \in 0..MaxSubscription
  /\ \A a \in Applier : applying[a] = Unresolved \/ applying[a].payload \in SourceFacts

\* In whatever order and however often the sources of a scope arrive, what is
\* installed is the latest of them: an older source never brings an ended
\* subscription back; each source speaks for one scope, once, and what it installed
\* stays its receipt (subscriptions/store.js:17-26).
AppliedTo(s) == {o \in SourceEvent : boundSources[o] # NotBound /\ boundSources[o].payload.scope = s}

LatestSourceRules ==
  \A s \in Scope :
    /\ \A o \in AppliedTo(s) : boundSources[o].payload.sequence <= subscriptions[s].sequence
    /\ AppliedTo(s) # {} => /\ subscriptions[s].source \in AppliedTo(s)
                         /\ boundSources[subscriptions[s].source].result = subscriptions[s]
    /\ \A r \in 1..subscriptions[s].revision :
         \E o \in AppliedTo(s) : boundSources[o].result.revision = r
=============================================================================
