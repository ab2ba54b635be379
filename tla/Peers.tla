------------------------------- MODULE Peers -------------------------------
(***************************************************************************)
(* collaboration/peer/: one channel between endpoints of two principals.    *)
(* Every operation is one transaction under the lock of the namespace; what *)
(* is sent, and what is submitted to a domain, happens between two of them.  *)
(* Requests may arrive late and twice; workers lose leases and die.         *)
(*                                                                         *)
(* A message has one recipient.  The lifetime of a grant ends with its      *)
(* channel.  Evidence, content and rates are left out: what they refuse is   *)
(* a request that is never accepted.  Transports keep the contract of       *)
(* notifications: "not_sent" proves that nothing arrived or still may.       *)
(*                                                                         *)
(* Operators ending in Mut are altered forms of the definition below them.  *)
(***************************************************************************)
EXTENDS Naturals, Sequences, FiniteSets, Functions

CONSTANTS
  Endpoint,         \* the two endpoints of the channel
  PeerKey,          \* request keys
  Human,            \* who acts for the owner of the channel
  MaxPeerMessages, MaxPeerAttempts,
  MaxAsks,          \* bound: requests formed where their order is exercised; one elsewhere
  MaxControls       \* bound: decisions of the controllers past the first grants, and
                    \* expiry, in deliveries; see ControlBound

ASSUME PeersAssumption == Cardinality(Endpoint) = 2

VARIABLES
  peerWork,      \* what a behaviour exercises: "order", "delivery", "people" or "formal"
  peerEndpoint,  \* status of each endpoint
  peerChannel,   \* state, subject version, and whether it has expired
  peerGrants,    \* the grants, in the order of their issue
  currentGrant,  \* the current one of each endpoint, or zero
  peerControls,
  asked,         \* the requests formed
  peerMessages,  \* the messages by their sequence
  delivery,      \* of each: outbox row, attempts, and position of its worker
  reached,       \* messages that reached their recipient
  barred,        \* messages whose terms ended for good before they were admitted
  retrying,      \* messages for which a retry was admitted
  humanTask,     \* of each message: state and claimant
  escalated,     \* messages whose escalation is recorded
  formal,        \* the receipt of a formal action: state, and whether it was told confirmed
  formalRun,     \* positions of its invocation and of a reconciliation
  formalEffects  \* how often the domain performed it

controlVars == <<peerEndpoint, peerChannel, peerGrants, currentGrant, peerControls>>
messageVars == <<asked, peerMessages>>
deliveryVars == <<delivery, reached, retrying>>
humanVars == <<humanTask, escalated>>
formalVars == <<formal, formalRun, formalEffects>>
peerVars == <<peerWork, controlVars, messageVars, deliveryVars, barred, humanVars, formalVars>>

Sent == DOMAIN peerMessages
NoHumanTask == [state |-> "none"]

\* Two endpoints were registered and their channel requested.
PeersInit ==
  /\ peerWork \in {"order", "delivery", "people", "formal"}
  /\ peerEndpoint = [e \in Endpoint |-> "active"]
  /\ peerChannel = [state |-> "requested", subject |-> 1, expired |-> "no"]
  /\ peerGrants = <<>> /\ currentGrant = [e \in Endpoint |-> 0]
  /\ peerControls = 0
  /\ asked = {} /\ peerMessages = <<>> /\ delivery = <<>> /\ reached = {} /\ barred = {} /\ retrying = {}
  /\ humanTask = <<>> /\ escalated = {}
  /\ formal = [state |-> "none", told |-> "no"]
  /\ formalRun = [invoke |-> "none", query |-> "none"] /\ formalEffects = 0
-----------------------------------------------------------------------------
Other(e) == CHOOSE f \in Endpoint : f # e

StillUsable == peerChannel.state = "active" /\ peerChannel.expired = "no"

\* grant: the current grant of an endpoint whose binding is active, not revoked.
GrantLive(g) ==
  /\ g # 0 /\ peerChannel.expired = "no"
  /\ currentGrant[peerGrants[g].endpoint] = g /\ peerGrants[g].revoked = "no"
  /\ peerEndpoint[peerGrants[g].endpoint] = "active"

\* What can never hold again for a message: its channel closes, a grant of it is revoked
\* or superseded, an endpoint of it is revoked.
EndedForGood(m) ==
  \/ peerChannel.expired = "yes" \/ peerChannel.state \in {"closing", "closed"}
  \/ \E g \in {peerMessages[m].grant, peerMessages[m].recipientGrant} :
       \/ currentGrant[peerGrants[g].endpoint] # g \/ peerGrants[g].revoked = "yes"
       \/ peerEndpoint[peerGrants[g].endpoint] = "revoked"

(* Controllers *)

ControlBound == CASE peerWork = "delivery" -> MaxControls [] peerWork = "people" -> 1 [] OTHER -> 2

ControlsOnly ==
  /\ UNCHANGED <<peerWork, messageVars, deliveryVars, humanVars, formalVars>>
  /\ barred' = barred \cup {m \in Sent : delivery[m].step # "admitted" /\ m \notin reached /\ EndedForGood(m)'}

Controls ==
  /\ peerControls < ControlBound /\ peerControls' = peerControls + 1
  /\ ControlsOnly

SetEndpoint(e, status) ==
  /\ peerEndpoint[e] \notin {"revoked", status}
  /\ peerEndpoint' = [peerEndpoint EXCEPT ![e] = status]
  /\ UNCHANGED <<peerChannel, peerGrants, currentGrant>> /\ Controls

Transitions ==
  [requested |-> {"active", "closing", "closed"}, active |-> {"suspended", "closing"},
   suspended |-> {"active", "closing", "closed"}, closing |-> {"closed"}, closed |-> {}]

TransitionChannel(state) ==
  /\ peerChannel.expired = "no" /\ state \in Transitions[peerChannel.state]
  /\ peerChannel' = [peerChannel EXCEPT !.state = state]
  /\ UNCHANGED <<peerEndpoint, peerGrants, currentGrant>> /\ Controls

ChangeSubject(subject) ==
  /\ peerChannel.expired = "no" /\ peerChannel.state # "closed" /\ peerChannel.subject # subject
  /\ peerChannel' = [peerChannel EXCEPT !.subject = subject]
  /\ UNCHANGED <<peerEndpoint, peerGrants, currentGrant>> /\ Controls

ChannelExpires ==
  /\ peerChannel.expired = "no" /\ peerChannel' = [peerChannel EXCEPT !.expired = "yes"]
  /\ UNCHANGED <<peerEndpoint, peerGrants, currentGrant>> /\ Controls

IssuePeerGrant(e) ==
  /\ peerChannel.expired = "no" /\ peerChannel.state \notin {"closing", "closed"} /\ peerEndpoint[e] = "active"
  /\ peerGrants' = Append(peerGrants, [endpoint |-> e, revoked |-> "no"])
  /\ currentGrant' = [currentGrant EXCEPT ![e] = Len(peerGrants) + 1]
  /\ UNCHANGED <<peerEndpoint, peerChannel>>
  /\ IF currentGrant[e] = 0 THEN UNCHANGED peerControls /\ ControlsOnly ELSE Controls

RevokePeerGrant(g) ==
  /\ peerGrants[g].revoked = "no" /\ peerGrants' = [peerGrants EXCEPT ![g].revoked = "yes"]
  /\ UNCHANGED <<peerEndpoint, peerChannel, currentGrant>> /\ Controls
-----------------------------------------------------------------------------
(* Messages *)

\* A request is formed from what its sender last read; the key may be one it has used.
Ask(e, key) ==
  /\ Cardinality(asked) < (IF peerWork = "order" THEN MaxAsks ELSE 1)
  /\ currentGrant[e] # 0
  /\ asked' = asked \cup {[sender |-> e, key |-> key, subject |-> peerChannel.subject,
                           expected |-> Len(peerMessages), grant |-> currentGrant[e]]}
  /\ UNCHANGED <<peerWork, controlVars, peerMessages, deliveryVars, barred, humanVars, formalVars>>

KnownKeyMut(r) == FALSE

KnownKey(r) == \E m \in Sent : peerMessages[m].sender = r.sender /\ peerMessages[m].key = r.key

FreshMut(r) == r.subject = peerChannel.subject

Fresh(r) == r.subject = peerChannel.subject /\ r.expected = Len(peerMessages)

\* send: a key that is known is answered with its receipt, or is a conflict.
SendPeerMessage(r) ==
  LET recipient == currentGrant[Other(r.sender)] IN
    /\ StillUsable /\ GrantLive(r.grant) /\ ~KnownKey(r) /\ Fresh(r)
    /\ Len(peerMessages) < MaxPeerMessages /\ GrantLive(recipient)
    /\ peerMessages' = Append(peerMessages, [sender |-> r.sender, key |-> r.key, subject |-> r.subject,
                          expected |-> r.expected, grant |-> r.grant, recipientGrant |-> recipient])
    /\ delivery' = Append(delivery, [row |-> "pending", attempts |-> 0, step |-> "none"])
    /\ humanTask' = Append(humanTask, NoHumanTask)
    /\ UNCHANGED <<peerWork, controlVars, asked, reached, barred, retrying, escalated, formalVars>>
-----------------------------------------------------------------------------
(* Delivery *)

Delivers(m, position) ==
  /\ peerWork \in {"delivery", "people"} /\ delivery' = [delivery EXCEPT ![m] = position]
  /\ UNCHANGED <<peerWork, controlVars, messageVars, barred, humanVars, formalVars>>

ClaimDelivery(m) ==
  /\ delivery[m].row = "pending" /\ delivery[m].step = "none" /\ UNCHANGED <<reached, retrying>>
  /\ Delivers(m, [row |-> "sending", attempts |-> delivery[m].attempts + 1, step |-> "claimed"])

MayDeliverMut(m) == StillUsable /\ peerChannel.subject = peerMessages[m].subject /\ GrantLive(peerMessages[m].grant)

\* The channel, the subject and both pinned grants, as they are now.
MayDeliver(m) ==
  /\ StillUsable /\ peerChannel.subject = peerMessages[m].subject
  /\ GrantLive(peerMessages[m].grant) /\ GrantLive(peerMessages[m].recipientGrant)

\* finish: an attempt that is sending or unknown takes what its worker reports.
Outcome(m, row) == IF delivery[m].row \in {"sending", "unknown"} THEN row ELSE delivery[m].row

CheckDelivery(m) ==
  /\ delivery[m].step = "claimed" /\ UNCHANGED <<reached, retrying>>
  /\ Delivers(m, IF MayDeliver(m) THEN [delivery[m] EXCEPT !.step = "admitted"]
                 ELSE [delivery[m] EXCEPT !.step = "none", !.row = Outcome(m, "failed")])

\* It arrives or not, and the answer is lost or not.
Transport(m) ==
  /\ delivery[m].step = "admitted" /\ UNCHANGED retrying
  /\ \E arrives \in {"no", "yes"} : \E row \in {"unknown", IF arrives = "yes" THEN "delivered" ELSE "failed"} :
       /\ reached' = IF arrives = "yes" THEN reached \cup {m} ELSE reached
       /\ row = "failed" => m \notin reached
       /\ Delivers(m, [delivery[m] EXCEPT !.step = "none", !.row = Outcome(m, row)])

\* A lease runs out under its worker, which may go on, or has died.
DeliveryUnknown(m) ==
  /\ delivery[m].row = "sending" /\ UNCHANGED <<reached, retrying>>
  /\ \E step \in {delivery[m].step, "none"} : Delivers(m, [delivery[m] EXCEPT !.row = "unknown", !.step = step])

ReconcileDelivery(m) ==
  /\ delivery[m].row = "unknown" /\ UNCHANGED <<reached, retrying>>
  /\ \/ m \in reached /\ Delivers(m, [delivery[m] EXCEPT !.row = "delivered"])
     \/ m \notin reached /\ delivery[m].step = "none" /\ Delivers(m, [delivery[m] EXCEPT !.row = "failed"])

\* delivery.retry: what it checks and what it writes are two transactions.
AdmitRetry(m) ==
  /\ m \notin retrying /\ retrying' = retrying \cup {m} /\ UNCHANGED reached
  /\ StillUsable /\ GrantLive(peerMessages[m].grant) /\ delivery[m].attempts < MaxPeerAttempts
  /\ Delivers(m, delivery[m])

RetryDelivery(m) ==
  /\ m \in retrying /\ retrying' = retrying \ {m} /\ UNCHANGED reached
  /\ Delivers(m, IF delivery[m].row = "failed" THEN [delivery[m] EXCEPT !.row = "pending"] ELSE delivery[m])
-----------------------------------------------------------------------------
(* Escalation to humans *)

Problem(m) ==
  delivery[m].row = "unknown" \/ (delivery[m].row = "failed" /\ delivery[m].attempts >= MaxPeerAttempts)

HumansDo == peerWork = "people" /\ UNCHANGED <<peerWork, controlVars, messageVars, deliveryVars, barred, formalVars>>

TaskBecomes(m, task) == humanTask' = [humanTask EXCEPT ![m] = task] /\ UNCHANGED escalated /\ HumansDo

\* The problem is looked at again, then the task is created under its stable key.
EscalateDelivery(m) ==
  /\ m \notin escalated /\ Problem(m) /\ humanTask[m] = NoHumanTask
  /\ TaskBecomes(m, [state |-> "open", by |-> "nobody"])

RecordEscalation(m) ==
  /\ m \notin escalated /\ humanTask[m] # NoHumanTask
  /\ escalated' = escalated \cup {m} /\ UNCHANGED humanTask /\ HumansDo

Actable(m, human) == humanTask[m].state = "open" \/ (humanTask[m].state = "claimed" /\ humanTask[m].by = human)

ActOnTask(m, human) ==
  \/ Actable(m, human) /\ \E state \in {"claimed", "resolved"} : TaskBecomes(m, [state |-> state, by |-> human])
  \/ humanTask[m].state \in {"open", "claimed"} /\ TaskBecomes(m, [humanTask[m] EXCEPT !.state = "cancelled"])
-----------------------------------------------------------------------------
(* Formal actions *)

FormalBecomes(receipt, run) ==
  /\ peerWork = "formal" /\ formal' = receipt /\ formalRun' = run
  /\ UNCHANGED <<peerWork, controlVars, messageVars, deliveryVars, barred, humanVars>>

FirstSubmissionMut == formal.state # "confirmed"

\* A key that is known is answered from its receipt and never invoked again.
FirstSubmission == formal.state = "none"

SubmitFormal(e, m) ==
  /\ StillUsable /\ GrantLive(currentGrant[e]) /\ peerMessages[m].subject = peerChannel.subject
  /\ FirstSubmission /\ UNCHANGED formalEffects
  /\ FormalBecomes([formal EXCEPT !.state = "admitted"], [formalRun EXCEPT !.invoke = "begun"])

\* The domain performs it, be its caller still there or not.
PerformFormal ==
  /\ formalRun.invoke \in {"begun", "lost"} /\ formalEffects' = formalEffects + 1
  /\ FormalBecomes(formal, [formalRun EXCEPT !.invoke = IF @ = "begun" THEN "performed" ELSE "over"])

FormalFinishedMut(state) == [state |-> state, told |-> IF state = "confirmed" THEN "yes" ELSE formal.told]

\* finish: what is confirmed stays.
FormalFinished(state) ==
  IF formal.state = "confirmed" THEN formal
  ELSE [state |-> state, told |-> IF state = "confirmed" THEN "yes" ELSE formal.told]

FinishFormal ==
  /\ UNCHANGED formalEffects
  /\ \/ formalRun.invoke = "performed"
        /\ \E state \in {"confirmed", "unknown"} : FormalBecomes(FormalFinished(state), [formalRun EXCEPT !.invoke = "over"])
     \/ formalRun.invoke = "begun" /\ FormalBecomes(FormalFinished("unknown"), [formalRun EXCEPT !.invoke = "lost"])

FormalCallerDies ==
  /\ formalRun.invoke \in {"begun", "performed"} /\ UNCHANGED formalEffects
  /\ FormalBecomes(formal, [formalRun EXCEPT !.invoke = IF @ = "begun" THEN "lost" ELSE "over"])

\* formal.reconcile: the domain is asked, and what it confirms is recorded afterwards.
QueryFormal ==
  /\ formal.state \in {"admitted", "unknown"} /\ formalRun.query = "none" /\ formalEffects > 0
  /\ FormalBecomes(formal, [formalRun EXCEPT !.query = "confirmed"]) /\ UNCHANGED formalEffects

RecordQuery ==
  /\ formalRun.query = "confirmed" /\ UNCHANGED formalEffects
  /\ FormalBecomes(FormalFinished("confirmed"), [formalRun EXCEPT !.query = "none"])

PeersNext ==
  \/ \E e \in Endpoint : IssuePeerGrant(e) \/ (\E status \in {"active", "suspended", "revoked"} : SetEndpoint(e, status))
  \/ (\E state \in {"active", "suspended", "closing", "closed"} : TransitionChannel(state))
  \/ (\E subject \in {1, 2} : ChangeSubject(subject)) \/ ChannelExpires
  \/ (\E g \in DOMAIN peerGrants : RevokePeerGrant(g))
  \/ (\E e \in Endpoint : \E key \in PeerKey : Ask(e, key)) \/ (\E r \in asked : SendPeerMessage(r))
  \/ \E m \in Sent : \/ ClaimDelivery(m) \/ CheckDelivery(m) \/ Transport(m) \/ DeliveryUnknown(m)
                     \/ ReconcileDelivery(m) \/ AdmitRetry(m) \/ RetryDelivery(m)
                     \/ EscalateDelivery(m) \/ RecordEscalation(m) \/ (\E human \in Human : ActOnTask(m, human))
                     \/ \E e \in Endpoint : SubmitFormal(e, m)
  \/ PerformFormal \/ FinishFormal \/ FormalCallerDies \/ QueryFormal \/ RecordQuery
-----------------------------------------------------------------------------
PeersTypeOK ==
  /\ peerChannel.state \in DOMAIN Transitions /\ Len(delivery) = Len(peerMessages)
  /\ \A e \in Endpoint : currentGrant[e] # 0 => peerGrants[currentGrant[e]].endpoint = e
  /\ \A m \in Sent : delivery[m].row \in {"pending", "sending", "delivered", "failed", "unknown"}
  /\ escalated \subseteq {m \in Sent : humanTask[m].state # "none"}

\* A message reaches nobody once its terms ended before a worker was admitted to send it:
\* grant, endpoint or channel, at whatever point of the queue, of a retry or of a lost lease
\* it was (gateway.js:43); and every message was written by one who had read all before it,
\* once per key, although requests come late and twice (gateway.js:36-38).
PeerTermsHold ==
  /\ barred \cap reached = {}
  /\ IsInjective([m \in Sent |-> <<peerMessages[m].sender, peerMessages[m].key>>])
  /\ \A m \in Sent : peerMessages[m].expected = m - 1

\* What a delivery says happened; a formal action is performed once at most, and
\* once it was told confirmed it is, whoever answers late (formal.js:14-18).
FormalOnce ==
  /\ \A m \in Sent : delivery[m].row = "delivered" => m \in reached
  /\ \A m \in Sent : delivery[m].row = "failed" => m \notin reached
  /\ formalEffects <= 1
  /\ formal.told = "yes" => formal.state = "confirmed" /\ formalEffects = 1
=============================================================================
