------------------------------- MODULE Support -------------------------------
(***************************************************************************)
(* support/: store.js, service.js, consumer.js and follow-up.js.  Issues    *)
(* move along a table of states; an engineer resolves one with evidence     *)
(* verified for one revision of it; a worker without a watermark tells the  *)
(* reporter of each resolution, through notifications with a stable key.    *)
(* Managers notify by hand, record that the reporter has read, on evidence, *)
(* and ask what became of a resolution; what monitors observed has no       *)
(* reporter to tell.                                                       *)
(*                                                                         *)
(* The pending events of the worker are a line: its order is the last       *)
(* attempt, or else the creation.  Events of other states are acknowledged  *)
(* by doing nothing and are left out, as are reports and messages; identity *)
(* and authority, asked before and after each read, are a refusal that may  *)
(* come at any step.  A notification that is not delivered is queued,       *)
(* whatever its state.  Each transaction is one step; a worker and an engineer do    *)
(* one thing between two of them.                                          *)
(*                                                                         *)
(* Operators ending in Mut are altered forms of the definition below them. *)
(* No action uses them; they show that a property can fail.                *)
(***************************************************************************)
EXTENDS Naturals, FiniteSets, Sequences

CONSTANTS
  Issue,
  Untold,              \* issues whose notification the host always refuses
  Engineer, Follower,  \* people who resolve issues; workers that tell
  Manager,             \* people and services that follow a resolution up
  ReadEvidence,        \* what the host's port confirms a reading by
  EventLimit,          \* limit of pendingEvents
  MaxIssueRevision,    \* bound: changes of one issue
  MaxFollowMishaps     \* bound: failed deliveries and store calls, crashes

ASSUME SupportAssumption ==
  /\ Untold \subseteq Issue
  /\ EventLimit \in Nat \ {0} /\ MaxIssueRevision \in Nat \ {0} /\ MaxFollowMishaps \in Nat

VARIABLES
  issues,      \* iaic_support_issues
  resolutions, \* events of resolution, with the revision that was verified
  line,        \* those without a receipt, in the order of pendingEvents
  resting,     \* those whose retry_after is in the future
  told,        \* those with a notification
  delivered,   \* those whose notification was delivered
  opened,        \* external: those that the reporter has read
  readReceipts, \* iaic_support_read_receipts
  manager,     \* position of each manager, with what it has read or told
  engineer,    \* evidence that each engineer holds
  follower,    \* position of each worker
  followMishaps

followUpVars == <<delivered, opened, readReceipts, manager>>
supportVars == <<issues, resolutions, line, resting, told, engineer, follower, followMishaps, followUpVars>>

NoEvidence == [issue |-> "none"]

SupportEvent == [issue : Issue, revision : 1..MaxIssueRevision]

SourceKind == {"reported", "observed"}

NoFollowUp == [step |-> "idle"]

\* A follow-up: its event and the delivery, receipt and age that it has read.
FollowUp ==
  [step : {"receipt", "evidence", "store", "again", "told"}, event : SupportEvent,
   delivery : {"not_admitted", "queued", "delivered"}, read : ReadEvidence \cup {"not_verified"},
   historical : BOOLEAN]

IssueTransitions ==
  [absent |-> {}, received |-> {"triaged"}, triaged |-> {"fixing"}, fixing |-> {"verifying"},
   verifying |-> {"fixing", "resolved"}, resolved |-> {"closed", "reopened"},
   closed |-> {"reopened"}, reopened |-> {"triaged"}]

SupportTypeOK ==
  /\ issues \in [Issue -> [state : DOMAIN IssueTransitions, revision : 0..MaxIssueRevision, source : SourceKind]]
  /\ resolutions \subseteq [event : SupportEvent, verified : 1..MaxIssueRevision]
  /\ line \in Seq(SupportEvent)
  /\ resting \subseteq SupportEvent /\ told \subseteq SupportEvent
  /\ engineer \in [Engineer -> {NoEvidence} \cup SupportEvent]
  /\ follower \in [Follower -> [step : {"idle", "deliver", "acknowledge", "defer"}, page : Seq(SupportEvent)]]
  /\ followMishaps \in Nat
  /\ delivered \subseteq told /\ opened \subseteq delivered
  /\ readReceipts \subseteq [event : SupportEvent, evidence : ReadEvidence]
  /\ manager \in [Manager -> {NoFollowUp} \cup FollowUp]

SupportInit ==
  /\ issues = [i \in Issue |-> [state |-> "absent", revision |-> 0, source |-> "reported"]]
  /\ resolutions = {} /\ line = <<>> /\ resting = {} /\ told = {}
  /\ engineer = [e \in Engineer |-> NoEvidence]
  /\ follower = [f \in Follower |-> [step |-> "idle", page |-> <<>>]]
  /\ followMishaps = 0
  /\ delivered = {} /\ opened = {} /\ readReceipts = {}
  /\ manager = [m \in Manager |-> NoFollowUp]
-----------------------------------------------------------------------------
FollowMishap == followMishaps < MaxFollowMishaps /\ followMishaps' = followMishaps + 1

(* Issues *)

\* Again with the same key, or with another report under it, changes nothing.
CreateIssue(i, source) ==
  /\ issues[i].state = "absent"
  /\ issues' = [issues EXCEPT ![i] = [state |-> "received", revision |-> 1, source |-> source]]
  /\ UNCHANGED <<resolutions, line, resting, told, engineer, follower, followMishaps>>

ReportIssueByUser(i) == CreateIssue(i, "reported")

\* The key is the identity of what was observed: it is one issue.
ObserveIssue(i) == CreateIssue(i, "observed")

Changed(i, state) == [issues EXCEPT ![i].state = state, ![i].revision = @ + 1]

\* update to any other state needs no evidence.
ChangeIssue(i) ==
  /\ issues[i].revision < MaxIssueRevision
  /\ \E state \in IssueTransitions[issues[i].state] \ {"resolved"} : issues' = Changed(i, state)
  /\ UNCHANGED <<resolutions, line, resting, told, engineer, follower, followMishaps>>

\* resolveResolution confirms one revision of the issue.
VerifyResolution(e, i) ==
  /\ engineer[e] = NoEvidence
  /\ issues[i].state = "verifying" /\ issues[i].revision < MaxIssueRevision
  /\ engineer' = [engineer EXCEPT ![e] = [issue |-> i, revision |-> issues[i].revision]]
  /\ UNCHANGED <<issues, resolutions, line, resting, told, follower, followMishaps>>

ResolvableMut(i, expectedRevision) == "resolved" \in IssueTransitions[issues[i].state]

Resolvable(i, expectedRevision) ==
  issues[i].revision = expectedRevision /\ "resolved" \in IssueTransitions[issues[i].state]

ResolveIssue(e) ==
  /\ engineer[e] # NoEvidence
  /\ LET i == engineer[e].issue
         event == [issue |-> i, revision |-> issues[i].revision + 1]
     IN  IF Resolvable(i, engineer[e].revision)
         THEN /\ event.revision <= MaxIssueRevision
              /\ issues' = Changed(i, "resolved")
              /\ resolutions' = resolutions \cup {[event |-> event, verified |-> engineer[e].revision]}
              /\ line' = Append(line, event)
         ELSE UNCHANGED <<issues, resolutions, line>>
  /\ engineer' = [engineer EXCEPT ![e] = NoEvidence]
  /\ UNCHANGED <<resting, told, follower, followMishaps>>

(* SupportEventConsumer.tick with the delivery of createSupportResolutionConsumer *)

\* The places in the line of those that are due and come first.
Due == {n \in DOMAIN line : line[n] \notin resting}
FirstDue == {n \in Due : Cardinality({m \in Due : m < n}) < EventLimit}

FetchEvents(f) ==
  /\ follower[f].step = "idle" /\ FirstDue # {}
  /\ \E place \in [1..Cardinality(FirstDue) -> FirstDue] :
       /\ \A j, k \in DOMAIN place : j < k => place[j] < place[k]
       /\ follower' = [follower EXCEPT ![f] = [step |-> "deliver", page |-> [k \in DOMAIN place |-> line[place[k]]]]]
  /\ UNCHANGED <<issues, resolutions, line, resting, told, engineer, followMishaps>>

Follows(f, step) == follower' = [follower EXCEPT ![f].step = step]

NextEvent(f) ==
  follower' = [follower EXCEPT ![f] = [step |-> IF Len(@.page) > 1 THEN "deliver" ELSE "idle", page |-> Tail(@.page)]]

HasReporter(event) == issues[event.issue].source = "reported"

DeliverEvent(f) ==
  /\ follower[f].step = "deliver"
  /\ LET event == Head(follower[f].page)
     IN  \/ /\ told' = IF HasReporter(event) THEN told \cup {event} ELSE told
            /\ HasReporter(event) => event.issue \notin Untold
            /\ Follows(f, "acknowledge") /\ UNCHANGED followMishaps
         \/ /\ IF HasReporter(event) /\ event.issue \in Untold THEN UNCHANGED followMishaps ELSE FollowMishap
            /\ Follows(f, "defer") /\ UNCHANGED told
  /\ UNCHANGED <<issues, resolutions, line, resting, engineer>>

\* An event stands in the line once.
Without(event) ==
  IF \A n \in DOMAIN line : line[n] # event THEN line
  ELSE LET n == CHOOSE n \in DOMAIN line : line[n] = event
       IN  SubSeq(line, 1, n - 1) \o SubSeq(line, n + 1, Len(line))

\* A lost acknowledgement is not deferred: the event stays where it is.
AcknowledgeEvent(f) ==
  /\ follower[f].step = "acknowledge"
  /\ \/ line' = Without(Head(follower[f].page)) /\ UNCHANGED followMishaps
     \/ FollowMishap /\ UNCHANGED line
  /\ NextEvent(f)
  /\ UNCHANGED <<issues, resolutions, resting, told, engineer>>

RotatedMut(event) == line

\* last_attempted_at = now(): behind everything that waits.
Rotated(event) == IF event \in {line[n] : n \in DOMAIN line} THEN Append(Without(event), event) ELSE line

DeferEvent(f) ==
  /\ follower[f].step = "defer"
  /\ \/ /\ line' = Rotated(Head(follower[f].page))
        /\ resting' = resting \cup {Head(follower[f].page)}
        /\ UNCHANGED followMishaps
     \/ FollowMishap /\ UNCHANGED <<line, resting>>
  /\ NextEvent(f)
  /\ UNCHANGED <<issues, resolutions, told, engineer>>

FollowerDies(f) ==
  /\ follower[f].step # "idle" /\ FollowMishap
  /\ follower' = [follower EXCEPT ![f] = [step |-> "idle", page |-> <<>>]]
  /\ UNCHANGED <<issues, resolutions, line, resting, told, engineer>>

\* retry_after passes for all but the later ones.
RetryTimesCome(later) ==
  /\ resting # later
  /\ resting' = later
  /\ UNCHANGED <<issues, resolutions, line, told, engineer, follower, followMishaps>>

Follow(f) == FetchEvents(f) \/ DeliverEvent(f) \/ AcknowledgeEvent(f) \/ DeferEvent(f)

(* SupportIssues.notify and SupportFollowUp *)

Resolved == {r.event : r \in resolutions}

\* By hand, with the key of the worker: it is the same notification.
NotifyReporter(m, event) ==
  /\ manager[m] = NoFollowUp
  /\ event \in Resolved /\ HasReporter(event) /\ event.issue \notin Untold
  /\ told' = told \cup {event}
  /\ UNCHANGED <<issues, resolutions, line, resting, engineer, follower, followMishaps, followUpVars>>

NotificationArrives(event) ==
  /\ event \in told \ delivered
  /\ delivered' = delivered \cup {event} /\ UNCHANGED <<opened, readReceipts, manager>>

ReporterReads(event) ==
  /\ event \in delivered \ opened
  /\ opened' = opened \cup {event} /\ UNCHANGED <<delivered, readReceipts, manager>>

DeliveryOf(event) ==
  IF event \in delivered THEN "delivered" ELSE IF event \in told THEN "queued" ELSE "not_admitted"

ReceiptOf(event) == {r.evidence : r \in {r \in readReceipts : r.event = event}}

Manages(m, followUp) == manager' = [manager EXCEPT ![m] = followUp] /\ UNCHANGED <<delivered, opened, readReceipts>>

\* The notification is read before the receipt.
FollowUpContext(m, event, step) ==
  Manages(m, [step |-> step, event |-> event, delivery |-> DeliveryOf(event), read |-> "not_verified",
              historical |-> FALSE])

BeginFollowUp(m, event) ==
  /\ manager[m].step \in {"idle", "told"}
  /\ event \in Resolved /\ HasReporter(event)
  /\ \/ FollowUpContext(m, event, "receipt")
     \/ event \in delivered /\ FollowUpContext(m, event, "evidence")

ReceiptFitsMut(followUp, receipt) == TRUE

\* A receipt beside a notification that was not delivered when it was read is refused.
ReceiptFits(followUp, receipt) == receipt # {} => followUp.delivery = "delivered"

\* The age of the event is read last, after the receipt.
TellFollowUp(m) ==
  /\ manager[m].step = "receipt"
  /\ LET followUp == manager[m]
         receipt == ReceiptOf(followUp.event)
     IN  /\ ReceiptFits(followUp, receipt)
         /\ \E read \in IF receipt = {} THEN {"not_verified"} ELSE receipt :
              Manages(m, [followUp EXCEPT !.step = "told", !.read = read, !.historical =
                             issues[followUp.event.issue].revision # followUp.event.revision])

\* resolveRead confirms a reading of this notification by its recipient.
VerifyRead(m, evidence) ==
  /\ manager[m].step = "evidence" /\ manager[m].event \in opened
  /\ Manages(m, [manager[m] EXCEPT !.step = "store", !.read = evidence])

\* Another receipt of the same event is a conflict.
RecordReceipt(m) ==
  /\ manager[m].step = "store"
  /\ ReceiptOf(manager[m].event) \subseteq {manager[m].read}
  /\ readReceipts' = readReceipts \cup {[event |-> manager[m].event, evidence |-> manager[m].read]}
  /\ manager' = [manager EXCEPT ![m].step = "again"] /\ UNCHANGED <<delivered, opened>>

AskAgain(m) == manager[m].step = "again" /\ FollowUpContext(m, manager[m].event, "receipt")

\* A refusal, a conflict, a failed call or a crash.
FollowUpEnds(m) == manager[m] # NoFollowUp /\ Manages(m, NoFollowUp)

FollowUpNext ==
  /\ \/ \E event \in Resolved :
          NotificationArrives(event) \/ ReporterReads(event) \/ (\E m \in Manager : BeginFollowUp(m, event))
     \/ \E m \in Manager : TellFollowUp(m) \/ RecordReceipt(m) \/ AskAgain(m) \/ FollowUpEnds(m)
     \/ \E m \in Manager, evidence \in ReadEvidence : VerifyRead(m, evidence)
  /\ UNCHANGED <<issues, resolutions, line, resting, told, engineer, follower, followMishaps>>
-----------------------------------------------------------------------------
SupportStep ==
  \/ \E i \in Issue : ReportIssueByUser(i) \/ ObserveIssue(i) \/ ChangeIssue(i) \/ (\E e \in Engineer : VerifyResolution(e, i))
  \/ \E e \in Engineer : ResolveIssue(e)
  \/ \E f \in Follower : Follow(f) \/ FollowerDies(f)
  \/ \E later \in SUBSET resting : RetryTimesCome(later)

SupportNext ==
  \/ SupportStep /\ UNCHANGED followUpVars
  \/ \E m \in Manager, event \in Resolved : NotifyReporter(m, event)
  \/ FollowUpNext

\* The host schedules the worker, and time passes.
SupportFairness ==
  /\ \A f \in Follower : WF_supportVars(Follow(f) /\ UNCHANGED followUpVars)
  /\ WF_supportVars(RetryTimesCome({}) /\ UNCHANGED followUpVars)

SupportSpec == SupportInit /\ [][SupportNext]_supportVars
SupportFairSpec == SupportSpec /\ SupportFairness
-----------------------------------------------------------------------------
(* Properties *)

\* A resolution rests on evidence for the revision it changed, although the
\* issue may have moved since it was verified; and only a reporter who was told
\* is no longer pending, although workers crash and answers are lost
\* (support/service.js:52-63, store.js:72-82, consumer.js:15-26).
ResolutionsRest ==
  \A r \in resolutions :
    /\ r.verified = r.event.revision - 1
    /\ HasReporter(r.event) => r.event \in told \/ r.event \in {line[n] : n \in DOMAIN line}

\* What a follow-up says of a reading is so and stays so: the reporter was told and
\* has read, by the one evidence on record, although notification, receipt and
\* issue are read one after the other while others record and change
\* (support/follow-up.js:29-50, store.js:63-71).
FollowUpsTrue ==
  /\ \A r, q \in readReceipts : r.event \in opened /\ (r.event = q.event => r = q)
  /\ \A m \in Manager :
       manager[m].step = "told" =>
         /\ manager[m].read # "not_verified" =>
              /\ manager[m].delivery = "delivered"
              /\ [event |-> manager[m].event, evidence |-> manager[m].read] \in readReceipts
         /\ manager[m].historical => issues[manager[m].event.issue].revision > manager[m].event.revision

ResolutionsHold == ResolutionsRest /\ FollowUpsTrue

Unheard(i) == {event \in Resolved : event.issue = i /\ HasReporter(event)} \ told

\* The reporter of a resolved issue is told at last, even when pages are full
\* of events that fail every time: failed attempts go behind the others
\* (support/store.js:36-53, consumer.js:22-25).
ResolvedIsTold ==
  \A i \in Issue \ Untold : Unheard(i) # {} ~> Unheard(i) = {}
=============================================================================
