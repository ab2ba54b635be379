------------------------------ MODULE Channels ------------------------------
(***************************************************************************)
(* Messages of an IM provider as work of an assistant.  A provider delivers *)
(* a message as often as it likes, to any worker; each delivery resolves    *)
(* the sender's binding, records the event, hands the command to the        *)
(* dispatcher under a key of the event, records the result and publishes    *)
(* the Task's state: every step in a query of its own, while the sender's   *)
(* account is linked, moved and unlinked.                                   *)
(***************************************************************************)
EXTENDS Naturals, FiniteSets

CONSTANTS
  ChannelMessage,  \* provider events; each asks for new work or answers a question
  Answering,       \* those that answer: /reply TASK_ID
  Identity,        \* application identities a sender may be bound to
  NoIdentity,      \* no identity: the sender is not linked, or not authorized
  Asker,           \* the identity whose Task asks the questions
  Delivery,        \* deliveries under way
  MaxQuestions,    \* bound: questions the answered Task asks
  MaxDeliveries,   \* bound: deliveries and publications begun
  MaxRebinds       \* bound: changes of the sender's binding

\* Bounds are numbers; a Task asks its first question from the start.
ASSUME ChannelsBounds == MaxQuestions \in Nat \ {0} /\ MaxDeliveries \in Nat /\ MaxRebinds \in Nat

VARIABLES
  boundTo,       \* resolveBinding and authorize: the sender's identity now
  channelInbox,  \* iaic_channel_inbox: identity and result of each event
  channelWork,   \* the identities for which a Task exists under the key of an event
  taskQuestion,  \* the question the Task of the conversation waits with, and its state
  answered,      \* the questions each event has answered
  replies,       \* iaic_notifications: the request keys enqueued
  deliveries, rebinds, deliveriesBegun

channelVars == <<boundTo, channelInbox, channelWork, taskQuestion, answered, replies, deliveries, rebinds,
    deliveriesBegun>>

NotReceived == [identity |-> NoIdentity, result |-> "none"]
NoDelivery == [step |-> "idle", message |-> NoIdentity, identity |-> NoIdentity, seen |-> 0]

ChannelsInit ==
  /\ boundTo \in Identity
  /\ channelInbox = [m \in ChannelMessage |-> NotReceived] /\ channelWork = [m \in ChannelMessage |-> {}]
  /\ taskQuestion = [number |-> 1, state |-> "asked"] /\ answered = [m \in ChannelMessage |-> {}]
  /\ replies = {} /\ deliveries = [d \in Delivery |-> NoDelivery]
  /\ rebinds = 0 /\ deliveriesBegun = 0

Rebind(i) ==
  /\ rebinds < MaxRebinds /\ i # boundTo
  /\ boundTo' = i /\ rebinds' = rebinds + 1
  /\ UNCHANGED <<channelInbox, channelWork, taskQuestion, answered, replies, deliveries, deliveriesBegun>>

\* The Task takes the answer and asks its next question.
AsksAgain ==
  /\ taskQuestion.state = "answered" /\ taskQuestion.number < MaxQuestions
  /\ taskQuestion' = [number |-> taskQuestion.number + 1, state |-> "asked"]
  /\ UNCHANGED <<boundTo, channelInbox, channelWork, answered, replies, deliveries, rebinds,
         deliveriesBegun>>
-----------------------------------------------------------------------------
DeliveryBecomes(d, delivery) ==
  /\ deliveries' = [deliveries EXCEPT ![d] = delivery]
  /\ UNCHANGED <<boundTo, taskQuestion, rebinds>>

DeliveryStep(d, step) == DeliveryBecomes(d, [deliveries[d] EXCEPT !.step = step])

AtDelivery(d, step) == deliveries[d].step = step

StillBound(d) == boundTo = deliveries[d].identity

\* receive: the sender must be bound now.
ReceiveMessage(d, m) ==
  /\ AtDelivery(d, "idle") /\ deliveriesBegun < MaxDeliveries /\ boundTo # NoIdentity
  /\ DeliveryBecomes(d, [NoDelivery EXCEPT !.step = "record", !.message = m, !.identity = boundTo])
  /\ deliveriesBegun' = deliveriesBegun + 1
  /\ UNCHANGED <<channelInbox, channelWork, answered, replies>>

SameBindingMut(d) == TRUE

\* PostgresChannelInbox.bind: inserted or compared; a result is only published again.
SameBinding(d) == channelInbox[deliveries[d].message].identity \in {NoIdentity, deliveries[d].identity}

RecordEvent(d) ==
  LET m == deliveries[d].message IN
    /\ AtDelivery(d, "record")
    /\ IF SameBinding(d)
         THEN /\ channelInbox' = IF channelInbox[m] = NotReceived
                               THEN [channelInbox EXCEPT ![m].identity = deliveries[d].identity]
                                   ELSE channelInbox
              /\ DeliveryStep(d, IF channelInbox[m].result = "none" THEN "execute" ELSE "publish")
         ELSE UNCHANGED channelInbox /\ DeliveryBecomes(d, NoDelivery)
    /\ UNCHANGED <<channelWork, answered, replies, deliveriesBegun>>

BindAgain(d) ==
  /\ AtDelivery(d, "execute")
  /\ IF StillBound(d) THEN DeliveryStep(d, "invoke") ELSE DeliveryBecomes(d, NoDelivery)
  /\ UNCHANGED <<channelInbox, channelWork, answered, replies, deliveriesBegun>>

\* invoke of agent.work: one Task for each identity and key.
InvokeWork(d) ==
  /\ AtDelivery(d, "invoke") /\ deliveries[d].message \notin Answering
  /\ channelWork' = [channelWork EXCEPT ![deliveries[d].message] = @ \cup {deliveries[d].identity}]
  /\ DeliveryStep(d, "complete")
  /\ UNCHANGED <<channelInbox, answered, replies, deliveriesBegun>>

\* invoke of tasks.provide_input with a transition receipt (TaskControls with
\* receipts): the key of the event answers one question, and then its receipt.
Receipted(m) == answered[m] # {}

InvokeReply(d) ==
  LET m == deliveries[d].message IN
    /\ AtDelivery(d, "invoke") /\ m \in Answering /\ deliveries[d].identity = Asker
    /\ deliveries' = [deliveries EXCEPT ![d].step = "complete"]
    /\ \/ Receipted(m) /\ UNCHANGED <<taskQuestion, answered>>
       \/ /\ ~Receipted(m) /\ taskQuestion.state = "asked"
          /\ answered' = [answered EXCEPT ![m] = @ \cup {taskQuestion.number}]
          /\ taskQuestion' = [taskQuestion EXCEPT !.state = "answered"]
    /\ UNCHANGED <<boundTo, channelInbox, channelWork, replies, rebinds, deliveriesBegun>>

\* complete: the first result stays.
CompleteEvent(d) ==
  /\ AtDelivery(d, "complete")
  /\ channelInbox' = [channelInbox EXCEPT ![deliveries[d].message].result = "task"]
  /\ DeliveryStep(d, "publish")
  /\ UNCHANGED <<channelWork, answered, replies, deliveriesBegun>>

\* publish, after a delivery or by the host: the binding, the Task as the current
\* principal may read it and its projection, the binding again, the notification.
PublishAgain(d, m) ==
  /\ AtDelivery(d, "idle") /\ deliveriesBegun < MaxDeliveries /\ channelInbox[m].result # "none"
  /\ DeliveryBecomes(d, [NoDelivery EXCEPT !.step = "publish", !.message = m])
  /\ deliveriesBegun' = deliveriesBegun + 1
  /\ UNCHANGED <<channelInbox, channelWork, answered, replies>>

BindForPublish(d) ==
  /\ AtDelivery(d, "publish")
  /\ IF boundTo # NoIdentity
       THEN DeliveryBecomes(d, [deliveries[d] EXCEPT !.step = "read", !.identity = boundTo])
           ELSE DeliveryBecomes(d, NoDelivery)
  /\ UNCHANGED <<channelInbox, channelWork, answered, replies, deliveriesBegun>>

\* tasks.get: a Task is its owner's.
Readable(d) ==
  deliveries[d].identity \in IF deliveries[d].message \in Answering THEN {Asker}
      ELSE channelWork[deliveries[d].message]

ReadForPublish(d) ==
  /\ AtDelivery(d, "read")
  /\ IF Readable(d) THEN DeliveryBecomes(d, [deliveries[d] EXCEPT !.step = "rebound", !.seen = taskQuestion.number])
                    ELSE DeliveryBecomes(d, NoDelivery)
  /\ UNCHANGED <<channelInbox, channelWork, answered, replies, deliveriesBegun>>

BindToSend(d) ==
  /\ AtDelivery(d, "rebound")
  /\ IF StillBound(d) THEN DeliveryStep(d, "enqueue") ELSE DeliveryBecomes(d, NoDelivery)
  /\ UNCHANGED <<channelInbox, channelWork, answered, replies, deliveriesBegun>>

\* One notification for each identity, Task and state told.
EnqueueReply(d) ==
  /\ AtDelivery(d, "enqueue")
  /\ replies' = replies \cup {[message |-> deliveries[d].message, identity |-> deliveries[d].identity,
                               seen |-> deliveries[d].seen]}
  /\ DeliveryBecomes(d, NoDelivery)
  /\ UNCHANGED <<channelInbox, channelWork, answered, deliveriesBegun>>

\* The worker dies, or any step fails: the provider delivers again.
DeliveryFails(d) ==
  /\ ~AtDelivery(d, "idle") /\ DeliveryBecomes(d, NoDelivery)
  /\ UNCHANGED <<channelInbox, channelWork, answered, replies, deliveriesBegun>>

ChannelsNext ==
  \/ \E i \in Identity \cup {NoIdentity} : Rebind(i)
  \/ AsksAgain
  \/ \E d \in Delivery :
       \/ \E m \in ChannelMessage : ReceiveMessage(d, m) \/ PublishAgain(d, m)
       \/ RecordEvent(d) \/ BindAgain(d) \/ InvokeWork(d) \/ InvokeReply(d) \/ CompleteEvent(d)
       \/ BindForPublish(d) \/ ReadForPublish(d) \/ BindToSend(d) \/ EnqueueReply(d) \/ DeliveryFails(d)
-----------------------------------------------------------------------------
ChannelsTypeOK ==
  /\ boundTo \in Identity \cup {NoIdentity}
  /\ channelInbox \in [ChannelMessage -> [identity : Identity \cup {NoIdentity}, result : {"none", "task"}]]
  /\ channelWork \in [ChannelMessage -> SUBSET Identity] /\ answered \in [ChannelMessage -> SUBSET (1..MaxQuestions)]
  /\ taskQuestion \in [number : 1..MaxQuestions, state : {"asked", "answered"}]
  /\ replies \subseteq [message : ChannelMessage, identity : Identity, seen : 1..MaxQuestions]
  /\ \A d \in Delivery :
       /\ deliveries[d].step \in {"idle", "record", "execute", "invoke", "complete", "publish", "read", "rebound", "enqueue"}
       /\ deliveries[d].message \in ChannelMessage \cup {NoIdentity} /\ deliveries[d].identity \in Identity \cup {NoIdentity}
       /\ deliveries[d].seen \in 0..MaxQuestions
  /\ rebinds \in 0..MaxRebinds /\ deliveriesBegun \in 0..MaxDeliveries

\* However often a message is delivered and however its sender is moved between
\* identities, it starts one Task, that of the identity it first came under; only
\* that identity is told of it; a recorded result has its Task; and an answer that
\* is delivered again never answers a later question (channels/assistant.js:22-30,
\* 57-69; channels/README.md "deterministic Core request keys").
MessagesWorkOnce ==
  \A m \in ChannelMessage :
    /\ channelWork[m] \subseteq {channelInbox[m].identity} \ {NoIdentity}
    /\ \A r \in replies : r.message = m => r.identity = channelInbox[m].identity
    /\ channelInbox[m].result = "task" => channelWork[m] # {} \/ answered[m] # {}
    /\ Cardinality(answered[m]) <= 1
=============================================================================
