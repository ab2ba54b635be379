------------------------------ MODULE Handoffs ------------------------------
(***************************************************************************)
(* handoffs/ and agent/delegation.js: a waiting parent Task hands work to  *)
(* one child Task, under a deadline and a budget of model calls, either    *)
(* for its owner or by a delegation of its own.                            *)
(*                                                                         *)
(* Contract, parent and child are three rows that no transaction spans.    *)
(* Hosts move between them: create() makes the row, activates it, makes    *)
(* the child and attaches it; reconcile() closes rows and cancels          *)
(* children; the delegation tick reports back to the parent.  Each action  *)
(* is one committed statement, or one host's look at several rows.         *)
(*                                                                         *)
(* The parent and the child are Tasks of TaskStore, with the stages that   *)
(* this code tells apart.  Terms, artifacts and authority are left out:    *)
(* what they refuse, a host may also just not do (Forget).  All hosts read *)
(* one clock.  A handoff is named by its request key.                      *)
(*                                                                         *)
(* Operators ending in Mut are altered forms of the definition below them. *)
(* No action uses them; they show that a property can fail.                *)
(***************************************************************************)
EXTENDS Naturals, FiniteSets

CONSTANTS
  Parent, Handoff, ParentOf,  \* Tasks, requests for a handoff, and whose they are
  Delegated,                  \* the requests that come from delegation intents
  Host, MaxModelCalls,        \* hosts; maxModelCalls of the terms
  MaxForgets                  \* bound: crashes and refusals

ASSUME HandoffsAssumption ==
  /\ ParentOf \in [Handoff -> Parent] /\ Delegated \subseteq Handoff
  /\ \A g, h \in Delegated : ParentOf[g] = ParentOf[h] => g = h
  /\ MaxModelCalls \in Nat \ {0} /\ MaxForgets \in Nat

VARIABLES
  handoff,   \* iaic_handoffs
  admitted,  \* iaic_handoff_model_calls: model calls of each child
  parent,    \* stage of each parent Task
  receipt,   \* what a delegation reported to its parent
  childTask, \* the Task that carries the key of the handoff
  turn,      \* how far the child's executor is: "idle", "checked", "calling"
  deadline,  \* handoffs whose deadline has passed
  host,      \* position of each host
  forgets

handoffVars == <<handoff, admitted, parent, receipt, childTask, turn, deadline, host, forgets>>

Open == {"prepared", "active"}
ClosedStates == {"cancelled", "expired"}
Ended == {"succeeded", "cancelled"}

\* activated: admitted_at; attached: child_task_id; reconciled: reconciled_at.
Flag == {"no", "yes"}
HandoffRow ==
  {row \in [state : {"absent", "finished"} \cup Open \cup ClosedStates,
            activated : Flag, attached : Flag, reconciled : Flag] :
     /\ row.state = "active" => row.activated = "yes"
     /\ row.attached = "yes" => row.activated = "yes"
     /\ row.reconciled = "yes" => row.state \notin Open}

HostStep ==
  {"checked", "inserted", "approved", "activated", "bound", "made",  \* create
   "close", "look", "decide", "cancel", "mark",                      \* cancel, reconcile
   "children", "resume", "report",                                   \* others
   "read", "told"}                                                   \* read, context

Free == [step |-> "free"]

HandoffTypeOK ==
  /\ handoff \in [Handoff -> HandoffRow]
  /\ admitted \in [Handoff -> 0..MaxModelCalls]
  /\ parent \in [Parent -> {"working", "input", "delegating", "succeeded", "cancelled"}]
  /\ receipt \in [Delegated -> {"none", "pending", "ended", "childless"}]
  /\ childTask \in [Handoff -> {"absent", "live"} \cup Ended]
  /\ turn \in [Handoff -> {"idle", "checked", "calling"}]
  /\ deadline \in SUBSET Handoff
  /\ host \in [Host -> {Free} \cup [step : HostStep, on : Handoff, seen : HandoffRow,
                                     report : {"ended", "childless", "none", "live"} \cup Ended]]
  /\ forgets \in Nat

HandoffInit ==
  /\ handoff = [h \in Handoff |-> [state |-> "absent", activated |-> "no", attached |-> "no", reconciled |-> "no"]]
  /\ admitted = [h \in Handoff |-> 0]
  /\ parent = [p \in Parent |-> "working"]
  /\ receipt = [h \in Delegated |-> "none"]
  /\ childTask = [h \in Handoff |-> "absent"]
  /\ turn = [h \in Handoff |-> "idle"]
  /\ deadline = {}
  /\ host = [q \in Host |-> Free]
  /\ forgets = 0
-----------------------------------------------------------------------------
At(q, step) == host[q] # Free /\ host[q].step = step

\* Host q goes to a step on handoff h, with the row as it has it in hand.
HostGoes(q, step, h, row) ==
  host' = [host EXCEPT ![q] = [step |-> step, on |-> h, seen |-> row, report |-> "ended"]]

HostLeaves(q) == host' = [host EXCEPT ![q] = Free]

Writes(h, row) == handoff' = [handoff EXCEPT ![h] = row]

IsOpen(h) == handoff[h].state \in Open

\* The wait of the parent that a handoff belongs to.
ParentWaits(h) ==
  /\ parent[ParentOf[h]] = IF h \in Delegated THEN "delegating" ELSE "input"
  /\ h \in Delegated => receipt[h] = "pending"

\* parentForExecution, after the look at the state of the row.
Executable(h) == h \notin deadline /\ ParentWaits(h)

(* create *)

\* An earlier row is taken as it is; for a new one the parent must wait.
BeginHandoff(q, h) ==
  /\ host[q] = Free
  /\ handoff[h].state = "absent" => Executable(h)
  /\ HostGoes(q, "checked", h, handoff[h])
  /\ UNCHANGED <<handoff, admitted, parent, receipt, childTask, turn, deadline, forgets>>

\* HandoffStore.create: unique by key, and one open row for each parent.
Insert(q) ==
  /\ At(q, "checked")
  /\ LET h == host[q].on
         taken == \E g \in Handoff : g # h /\ ParentOf[g] = ParentOf[h] /\ IsOpen(g)
         row == IF handoff[h].state = "absent" THEN [handoff[h] EXCEPT !.state = "prepared"] ELSE handoff[h]
     IN  IF handoff[h].state = "absent" /\ taken
         THEN HostLeaves(q) /\ UNCHANGED handoff
         ELSE /\ Writes(h, row)
              /\ IF row.state \in Open THEN HostGoes(q, "inserted", h, row) ELSE HostLeaves(q)
  /\ UNCHANGED <<admitted, parent, receipt, childTask, turn, deadline, forgets>>

Attached(h) == [handoff[h] EXCEPT !.attached = "yes"]

\* matchTask: the Task that carries the key was made for this handoff.
HasChild(h) == childTask[h] # "absent"

\* A Task with the key is the receipt of an activated handoff.
FindChild(q) ==
  /\ At(q, "inserted")
  /\ LET h == host[q].on
     IN  IF HasChild(h)
         THEN /\ IF host[q].seen.activated = "yes" THEN Writes(h, Attached(h)) ELSE UNCHANGED handoff
              /\ HostLeaves(q)
         ELSE /\ IF Executable(h) THEN HostGoes(q, "approved", h, host[q].seen) ELSE HostLeaves(q)
              /\ UNCHANGED handoff
  /\ UNCHANGED <<admitted, parent, receipt, childTask, turn, deadline, forgets>>

ActivableMut(h) == TRUE

Activable(h) == IsOpen(h)

Activate(q) ==
  /\ At(q, "approved")
  /\ LET h == host[q].on
         row == [handoff[h] EXCEPT !.state = "active", !.activated = "yes"]
     IN  IF Activable(h) THEN Writes(h, row) /\ HostGoes(q, "activated", h, row)
         ELSE HostLeaves(q) /\ UNCHANGED handoff
  /\ UNCHANGED <<admitted, parent, receipt, childTask, turn, deadline, forgets>>

\* bind, inside the admission of the Task.
Bind(q) ==
  /\ At(q, "activated")
  /\ LET h == host[q].on
     IN  IF handoff[h].state = "active" /\ Executable(h) THEN HostGoes(q, "bound", h, handoff[h]) ELSE HostLeaves(q)
  /\ UNCHANGED <<handoff, admitted, parent, receipt, childTask, turn, deadline, forgets>>

\* The Task is created, unless one has the key already.
MakeChild(q) ==
  /\ At(q, "bound")
  /\ LET h == host[q].on
     IN  /\ childTask' = [childTask EXCEPT ![h] = IF @ = "absent" THEN "live" ELSE @]
         /\ HostGoes(q, "made", h, handoff[h])
  /\ UNCHANGED <<handoff, admitted, parent, receipt, turn, deadline, forgets>>

Attach(q) ==
  /\ At(q, "made")
  /\ Writes(host[q].on, Attached(host[q].on))
  /\ HostLeaves(q)
  /\ UNCHANGED <<admitted, parent, receipt, childTask, turn, deadline, forgets>>

(* reconcile, by the tick for every row that is open or not reconciled, *)
(* and by cancel for the row it has closed                              *)

PendingHandoffMut(h) == IsOpen(h)

\* HandoffStore.open
PendingHandoff(h) == IsOpen(h) \/ (handoff[h].state \in ClosedStates /\ handoff[h].reconciled = "no")

Poll(q, h) ==
  /\ host[q] = Free
  /\ PendingHandoff(h)
  /\ HostGoes(q, "look", h, handoff[h])
  /\ UNCHANGED <<handoff, admitted, parent, receipt, childTask, turn, deadline, forgets>>

\* close: an outcome is written over an open row only.
ClosedAs(h, state) == IF IsOpen(h) THEN [handoff[h] EXCEPT !.state = state] ELSE handoff[h]

Reconciled(h) == [handoff[h] EXCEPT !.reconciled = "yes"]

CancelHandoff(q, h) ==
  /\ host[q] = Free /\ handoff[h].state # "absent"
  /\ HostGoes(q, "close", h, handoff[h])
  /\ UNCHANGED <<handoff, admitted, parent, receipt, childTask, turn, deadline, forgets>>

Close(q) ==
  /\ At(q, "close")
  /\ LET h == host[q].on
     IN  Writes(h, ClosedAs(h, "cancelled")) /\ HostGoes(q, "look", h, ClosedAs(h, "cancelled"))
  /\ UNCHANGED <<admitted, parent, receipt, childTask, turn, deadline, forgets>>

\* A child that lost its attachment is found by its key.
Look(q) ==
  /\ At(q, "look")
  /\ LET h == host[q].on
         found == host[q].seen.attached = "no" /\ host[q].seen.activated = "yes" /\ HasChild(h)
         row == IF found THEN Attached(h) ELSE host[q].seen
     IN  /\ IF found THEN Writes(h, row) ELSE UNCHANGED handoff
         /\ IF row.attached = "yes" /\ childTask[h] \in Ended THEN HostGoes(q, "mark", h, row)
            ELSE HostGoes(q, "decide", h, row)
  /\ UNCHANGED <<admitted, parent, receipt, childTask, turn, deadline, forgets>>

\* reconcile, past its look at the child, which was not ended then.
Decide(q) ==
  /\ At(q, "decide")
  /\ LET h == host[q].on
         seen == host[q].seen
         over == IF parent[ParentOf[h]] \in Ended THEN "cancelled" ELSE "expired"
         row == IF seen.state \in Open /\ (over = "cancelled" \/ h \in deadline) THEN ClosedAs(h, over) ELSE seen
     IN  /\ IF row # seen /\ row # handoff[h] THEN Writes(h, row) ELSE UNCHANGED handoff
         /\ IF row.state \notin ClosedStates THEN HostLeaves(q)
            ELSE IF seen.attached = "yes" THEN HostGoes(q, "cancel", h, row)
            ELSE IF row.activated = "no" THEN HostGoes(q, "mark", h, row) ELSE HostLeaves(q)
  /\ UNCHANGED <<admitted, parent, receipt, childTask, turn, deadline, forgets>>

\* A child that ended meanwhile cannot be cancelled; the next tick sees it.
CancelChild(q) ==
  /\ At(q, "cancel")
  /\ LET h == host[q].on
     IN  /\ childTask' = [childTask EXCEPT ![h] = IF @ = "live" THEN "cancelled" ELSE @]
         /\ IF childTask[h] = "succeeded" THEN HostLeaves(q) ELSE HostGoes(q, "mark", h, host[q].seen)
  /\ UNCHANGED <<handoff, admitted, parent, receipt, turn, deadline, forgets>>

\* An ended child finishes a row that was open; otherwise it is reconciled.
Mark(q) ==
  /\ At(q, "mark")
  /\ LET h == host[q].on
     IN  Writes(h, IF host[q].seen.state \in Open THEN ClosedAs(h, "finished") ELSE Reconciled(h))
  /\ HostLeaves(q)
  /\ UNCHANGED <<admitted, parent, receipt, childTask, turn, deadline, forgets>>

(* The parent *)

Pause(p) ==
  /\ parent[p] = "working"
  /\ \/ /\ parent' = [parent EXCEPT ![p] = "input"]
        /\ UNCHANGED receipt
     \/ \E h \in Delegated :
          /\ ParentOf[h] = p /\ receipt[h] = "none"
          /\ parent' = [parent EXCEPT ![p] = "delegating"]
          /\ receipt' = [receipt EXCEPT ![h] = "pending"]
     \/ parent' = [parent EXCEPT ![p] = "succeeded"] /\ UNCHANGED receipt
  /\ UNCHANGED <<handoff, admitted, childTask, turn, deadline, host, forgets>>

\* checkTask of the parent: an open handoff holds it back until its child ended.
CheckResume(q, h) ==
  LET p == ParentOf[h]
      open == {g \in Handoff : ParentOf[g] = p /\ IsOpen(g)}
  IN  /\ host[q] = Free /\ parent[p] = "input"
      /\ \A g \in open : handoff[g].attached = "yes" /\ childTask[g] \in Ended
      /\ handoff' = [g \in Handoff |-> IF g \in open THEN ClosedAs(g, "finished") ELSE handoff[g]]
      /\ HostGoes(q, "resume", h, handoff[h])
      /\ UNCHANGED <<admitted, parent, receipt, childTask, turn, deadline, forgets>>

Resume(q) ==
  /\ At(q, "resume")
  /\ LET p == ParentOf[host[q].on]
     IN  parent' = [parent EXCEPT ![p] = IF @ = "input" THEN "working" ELSE @]
  /\ HostLeaves(q)
  /\ UNCHANGED <<handoff, admitted, receipt, childTask, turn, deadline, forgets>>

\* cancel commits; the children are cancelled in transactions of their own.
CancelParent(q, h) ==
  LET p == ParentOf[h]
  IN  /\ host[q] = Free /\ parent[p] # "succeeded"
      /\ parent' = [parent EXCEPT ![p] = "cancelled"]
      /\ HostGoes(q, "children", h, handoff[h])
      /\ UNCHANGED <<handoff, admitted, receipt, childTask, turn, deadline, forgets>>

CancelChildren(q) ==
  /\ At(q, "children")
  /\ LET open == {g \in Handoff : ParentOf[g] = ParentOf[host[q].on] /\ IsOpen(g)}
     IN  \/ \E g \in open : HostGoes(q, "close", g, handoff[g])
         \/ open = {} /\ HostLeaves(q)
  /\ UNCHANGED <<handoff, admitted, parent, receipt, childTask, turn, deadline, forgets>>

ChildlessOpenMut(h) == handoff[h].state = "absent" /\ h \in deadline

\* delegationReceipt: no row has the key of the intent.
NoReceipt(h) == handoff[h].state = "absent"

ChildlessMut(h) == IF NoReceipt(h) THEN h \in deadline ELSE childTask[h] = "absent"

\* The handoff ended, or was never made, without a child to wait for.
Childless(h) ==
  IF NoReceipt(h) THEN h \in deadline
  ELSE handoff[h].state \in ClosedStates /\ handoff[h].attached = "no"

\* Delegations.tick: what the parent will be told, once there is something.
Report(q, h) ==
  /\ host[q] = Free /\ h \in Delegated
  /\ ParentWaits(h)
  /\ Childless(h) \/ (handoff[h].attached = "yes" /\ childTask[h] \in Ended)
  /\ host' = [host EXCEPT ![q] = [step |-> "report", on |-> h, seen |-> handoff[h],
                                  report |-> IF Childless(h) THEN "childless" ELSE "ended"]]
  /\ UNCHANGED <<handoff, admitted, parent, receipt, childTask, turn, deadline, forgets>>

\* TaskStore.receiveDelegation
Receive(q) ==
  /\ At(q, "report")
  /\ LET h == host[q].on
     IN  IF ParentWaits(h)
         THEN /\ receipt' = [receipt EXCEPT ![h] = host[q].report]
              /\ parent' = [parent EXCEPT ![ParentOf[h]] = "working"]
         ELSE UNCHANGED <<receipt, parent>>
  /\ HostLeaves(q)
  /\ UNCHANGED <<handoff, admitted, childTask, turn, deadline, forgets>>

(* read, and context, which reads for the parent's next turn *)

ReadHandoff(q, h) ==
  /\ host[q] = Free /\ handoff[h].state # "absent"
  /\ HostGoes(q, "read", h, handoff[h])
  /\ UNCHANGED <<handoff, admitted, parent, receipt, childTask, turn, deadline, forgets>>

\* The child is read after the row, which may have moved on.
TellHandoff(q) ==
  /\ At(q, "read")
  /\ LET told == IF host[q].seen.attached = "yes" THEN childTask[host[q].on] ELSE "none"
     IN  host' = [host EXCEPT ![q] = [@ EXCEPT !.step = "told", !.report = told]]
  /\ UNCHANGED <<handoff, admitted, parent, receipt, childTask, turn, deadline, forgets>>

EndReading(q) ==
  /\ At(q, "told")
  /\ HostLeaves(q)
  /\ UNCHANGED <<handoff, admitted, parent, receipt, childTask, turn, deadline, forgets>>

(* The child *)

\* checkTask of the child, before each model turn.
CheckChild(h) ==
  /\ childTask[h] = "live" /\ turn[h] = "idle"
  /\ IsOpen(h) /\ Executable(h)
  /\ Writes(h, Attached(h))
  /\ turn' = [turn EXCEPT ![h] = "checked"]
  /\ UNCHANGED <<admitted, parent, receipt, childTask, deadline, host, forgets>>

MayCallMut(h) ==
  handoff[h].state = "active" /\ handoff[h].attached = "yes" /\ h \notin deadline

MayCall(h) ==
  /\ handoff[h].state = "active" /\ handoff[h].attached = "yes"
  /\ h \notin deadline /\ admitted[h] < MaxModelCalls

\* HandoffStore.admitModel: a refusal leaves the child waiting for its owner.
AdmitModel(h) ==
  /\ turn[h] = "checked"
  /\ IF MayCall(h) THEN /\ admitted' = [admitted EXCEPT ![h] = @ + 1]
                        /\ turn' = [turn EXCEPT ![h] = "calling"]
     ELSE turn' = [turn EXCEPT ![h] = "idle"] /\ UNCHANGED admitted
  /\ UNCHANGED <<handoff, parent, receipt, childTask, deadline, host, forgets>>

\* The turn ends the child or not, unless somebody cancelled it meanwhile.
EndTurn(h) ==
  /\ turn[h] = "calling"
  /\ turn' = [turn EXCEPT ![h] = "idle"]
  /\ childTask' \in {childTask, [childTask EXCEPT ![h] = IF @ = "live" THEN "succeeded" ELSE @]}
  /\ UNCHANGED <<handoff, admitted, parent, receipt, deadline, host, forgets>>

CancelledByOwner(h) ==
  /\ childTask[h] = "live"
  /\ childTask' = [childTask EXCEPT ![h] = "cancelled"]
  /\ UNCHANGED <<handoff, admitted, parent, receipt, turn, deadline, host, forgets>>

(* The world *)

DeadlinePasses(h) ==
  /\ h \notin deadline /\ deadline' = deadline \cup {h}
  /\ UNCHANGED <<handoff, admitted, parent, receipt, childTask, turn, host, forgets>>

\* A crash, a lost reply, or a port of the host that refuses.
Forget(q) ==
  /\ host[q] # Free /\ forgets < MaxForgets
  /\ HostLeaves(q) /\ forgets' = forgets + 1
  /\ UNCHANGED <<handoff, admitted, parent, receipt, childTask, turn, deadline>>

Create(q) == Insert(q) \/ FindChild(q) \/ Activate(q) \/ Bind(q) \/ MakeChild(q) \/ Attach(q)
ReconcileHandoff(q) == Close(q) \/ Look(q) \/ Decide(q) \/ CancelChild(q) \/ Mark(q)
Carry(q) ==
  \/ Create(q) \/ ReconcileHandoff(q) \/ Resume(q) \/ CancelChildren(q) \/ Receive(q)
  \/ TellHandoff(q) \/ EndReading(q)

HandoffNext ==
  \/ \E q \in Host : \/ Carry(q) \/ Forget(q)
                     \/ \E h \in Handoff : \/ BeginHandoff(q, h) \/ Poll(q, h) \/ CancelHandoff(q, h)
                                           \/ CheckResume(q, h) \/ CancelParent(q, h) \/ Report(q, h)
                                           \/ ReadHandoff(q, h)
  \/ \E p \in Parent : Pause(p)
  \/ \E h \in Handoff : \/ CheckChild(h) \/ AdmitModel(h) \/ EndTurn(h)
                        \/ CancelledByOwner(h) \/ DeadlinePasses(h)

HandoffSpec == HandoffInit /\ [][HandoffNext]_handoffVars

\* The runtime's tick polls every open row and, by a cursor, every pending
\* delegation; hosts come back after a crash; deadlines are wall-clock times.
HandoffFairness ==
  /\ \A q \in Host : WF_handoffVars(Carry(q))
  /\ \A h \in Handoff : /\ SF_handoffVars(\E q \in Host : Poll(q, h))
                        /\ SF_handoffVars(\E q \in Host : Report(q, h))
                        /\ WF_handoffVars(DeadlinePasses(h))

HandoffFairSpec == HandoffSpec /\ HandoffFairness
-----------------------------------------------------------------------------
(* Properties *)

\* What a delegation told its parent stays true: a child that was reported
\* ended has ended, and a handoff that was reported without a child never
\* gets a model call, though a host that bound it before may still make the
\* child (agent/delegation.js:29-36, handoffs/service.js:60-84, store.js:27-38).
ReceiptIsFinal ==
  \A h \in Delegated :
    /\ receipt[h] = "ended" => childTask[h] \in Ended
    /\ receipt[h] = "childless" => admitted[h] = 0 /\ childTask[h] # "succeeded"

\* What a parent is told of a handoff fits together, though row and child are read
\* one after the other: a finished handoff is told with its ended child, a
\* reconciled one without a live child, and a result is that of a child that
\* succeeded (handoffs/service.js:102-131).
ToldFitsTogether ==
  \A q \in Host :
    At(q, "told") =>
      /\ host[q].seen.state = "finished" => host[q].report \in Ended
      /\ host[q].seen.reconciled = "yes" => host[q].report # "live"
      /\ host[q].report = "succeeded" => childTask[host[q].on] = "succeeded"

\* A handoff that nobody looks at any more has no live child, and no host on
\* its way to make one (handoffs/service.js:135-145, store.js:26, 29).
ReconciledIsQuiet ==
  \A h \in Handoff :
    handoff[h].state = "finished" \/ handoff[h].reconciled = "yes"
    => /\ childTask[h] # "live"
       /\ childTask[h] = "absent" => \A q \in Host : ~(At(q, "bound") /\ host[q].on = h)

\* No child outlives its handoff for ever: not the end of its parent, when the
\* host dies before it cancels the children (runtime.js:123-124), nor its
\* deadline, nor a cancellation that met it half made.
ChildrenEnd ==
  \A h \in Handoff :
    childTask[h] = "live" /\ (parent[ParentOf[h]] \in Ended \/ h \in deadline \/ ~IsOpen(h))
    ~> childTask[h] \in Ended

\* A delegating parent goes on in the end, whatever became of its child.
DelegationReturns == \A h \in Delegated : receipt[h] = "pending" ~> ~ParentWaits(h)
=============================================================================
