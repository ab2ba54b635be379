------------------------------- MODULE Grants -------------------------------
(***************************************************************************)
(* collaboration/: authority.js, tasks.js, delegations.js and parents.js.   *)
(* A parent Task that waits delegates work to another principal: a grant    *)
(* with terms, a Task of the delegate bound to it, admissions of tool calls *)
(* and model calls against its limits, and a tick that cancels Tasks whose  *)
(* grant or parent closed.                                                 *)
(*                                                                         *)
(* One parent; every grant is for a Task.  The Task of a grant is reduced   *)
(* to what matters here; TaskStore has its life.  Principals, schemas and   *)
(* domain policies are left out: what they refuse is a step not taken.      *)
(*                                                                         *)
(* Operators ending in Mut are altered forms of the definition below them. *)
(* No action uses them; they show that a property can fail.                *)
(***************************************************************************)
EXTENDS Naturals, FiniteSets

CONSTANTS
  Grants,           \* number of grants; their ids are 1..Grants, in order
  GrantCall,        \* call ids of tools
  Delegator,        \* processes that create or cancel delegations
  Executor,         \* processes that run Tasks of grants
  MaxCalls, MaxGrantModelCalls,   \* terms of every grant
  MaxGrantMishaps   \* bound: stops and takeovers

Grant == 1..Grants

ASSUME GrantsAssumption == {Grants, MaxCalls, MaxGrantModelCalls, MaxGrantMishaps} \subseteq Nat

VARIABLES
  parentWaits,  \* the parent waits as it did when it was delegated
  grants,       \* iaic_delegation_grants
  child,        \* Task of each grant
  calls,        \* iaic_delegation_calls: outcome of each
  modelCalls,   \* rows of iaic_delegation_model_calls
  performed,    \* how often the tool of each call ran
  delegator,    \* position of each delegator
  executor,     \* position of each executor
  tickCursor,   \* cursor of DelegatedTasks.tick
  grantMishaps

grantVars == <<parentWaits, grants, child, calls, modelCalls, performed, delegator, executor, tickCursor, grantMishaps>>

NoErrand == [step |-> "idle"]

GrantTypeOK ==
  /\ parentWaits \in {"yes", "no"}
  /\ grants \in [Grant -> {"absent", "active", "revoked", "expired"}]
  /\ child \in [Grant -> {"none", "queued", "running", "succeeded", "cancelled"}]
  /\ calls \in [Grant -> [GrantCall -> {"none", "admitted", "returned", "unknown"}]]
  /\ modelCalls \in [Grant -> 0..MaxGrantModelCalls]
  /\ performed \in [Grant -> [GrantCall -> Nat]]
  /\ delegator \in [Delegator -> {NoErrand} \cup [step : {"receipt", "submit", "create", "cancel"}, grant : Grant]]
  /\ executor \in [Executor -> {NoErrand} \cup [step : {"ready"}, grant : Grant] \cup
                    [step : {"admit", "perform", "settle"}, grant : Grant, call : GrantCall]]
  /\ tickCursor \in 0..Grants /\ grantMishaps \in Nat

GrantInit ==
  /\ parentWaits = "yes"
  /\ grants = [g \in Grant |-> "absent"] /\ child = [g \in Grant |-> "none"]
  /\ calls = [g \in Grant |-> [c \in GrantCall |-> "none"]]
  /\ performed = [g \in Grant |-> [c \in GrantCall |-> 0]]
  /\ modelCalls = [g \in Grant |-> 0]
  /\ delegator = [d \in Delegator |-> NoErrand] /\ executor = [x \in Executor |-> NoErrand]
  /\ tickCursor = 0 /\ grantMishaps = 0
-----------------------------------------------------------------------------
GrantMishap == grantMishaps < MaxGrantMishaps /\ grantMishaps' = grantMishaps + 1

Errand(d, step, g) == delegator' = [delegator EXCEPT ![d] = [step |-> step, grant |-> g]]

NoMoreErrand(d) == delegator' = [delegator EXCEPT ![d] = NoErrand]

\* DelegatedTasks.current with DelegationParents.check.
Current(g) == grants[g] = "active" /\ parentWaits = "yes"

(* CrossPrincipalDelegations.createDelegation, DelegatedTasks.submit *)

\* issue, unless the row is there already.
IssueGrant(d, g) ==
  /\ delegator[d] = NoErrand /\ parentWaits = "yes"
  /\ grants' = [grants EXCEPT ![g] = IF @ = "absent" THEN "active" ELSE @]
  /\ Errand(d, "receipt", g)
  /\ UNCHANGED <<parentWaits, child, calls, modelCalls, performed, executor, tickCursor, grantMishaps>>

ReadDelegation(d) ==
  /\ delegator[d].step = "receipt"
  /\ LET g == delegator[d].grant IN
       IF child[g] = "none" /\ grants[g] = "active" THEN Errand(d, "submit", g) ELSE NoMoreErrand(d)
  /\ UNCHANGED <<parentWaits, grants, child, calls, modelCalls, performed, executor, tickCursor, grantMishaps>>

\* current, then bind, before the Task is inserted in another transaction.
CheckSubmit(d) ==
  /\ delegator[d].step = "submit"
  /\ IF Current(delegator[d].grant) THEN Errand(d, "create", delegator[d].grant) ELSE NoMoreErrand(d)
  /\ UNCHANGED <<parentWaits, grants, child, calls, modelCalls, performed, executor, tickCursor, grantMishaps>>

\* One Task for the request key of the grant.
CreateChild(d) ==
  /\ delegator[d].step = "create"
  /\ child' = [child EXCEPT ![delegator[d].grant] = IF @ = "none" THEN "queued" ELSE @]
  /\ NoMoreErrand(d)
  /\ UNCHANGED <<parentWaits, grants, calls, modelCalls, performed, executor, tickCursor, grantMishaps>>

(* Closing: DelegatedTasks.cancel, the deadline, the parent, and tick *)

Live(g) == child[g] \in {"queued", "running"}

CancelledChild(g) == [child EXCEPT ![g] = IF Live(g) THEN "cancelled" ELSE @]

RevokeGrant(d, g) ==
  /\ delegator[d] = NoErrand /\ grants[g] = "active"
  /\ grants' = [grants EXCEPT ![g] = "revoked"]
  /\ Errand(d, "cancel", g)
  /\ UNCHANGED <<parentWaits, child, calls, modelCalls, performed, executor, tickCursor, grantMishaps>>

\* #cancelClosed; a Task that is not there yet is not cancelled.
CancelRevoked(d) ==
  /\ delegator[d].step = "cancel"
  /\ child' = CancelledChild(delegator[d].grant)
  /\ NoMoreErrand(d)
  /\ UNCHANGED <<parentWaits, grants, calls, modelCalls, performed, executor, tickCursor, grantMishaps>>

ExpireGrant(g) ==
  /\ grants[g] = "active"
  /\ grants' = [grants EXCEPT ![g] = "expired"]
  /\ UNCHANGED <<parentWaits, child, calls, modelCalls, performed, delegator, executor, tickCursor, grantMishaps>>

\* The parent was cancelled or goes on without its result.
ParentCloses ==
  /\ parentWaits = "yes"
  /\ parentWaits' = "no"
  /\ UNCHANGED <<grants, child, calls, modelCalls, performed, delegator, executor, tickCursor, grantMishaps>>

ClosedMut(g) == grants[g] \in {"revoked", "expired"}

Closed(g) == grants[g] \in {"revoked", "expired"} \/ (grants[g] = "active" /\ parentWaits = "no")

\* taskPage behind the cursor, one grant at a time, and from the start again.
TickGrants ==
  /\ LET rest == {g \in Grant : g > tickCursor /\ grants[g] # "absent"}
         next == IF rest = {} THEN 0 ELSE CHOOSE g \in rest : \A h \in rest : g <= h
     IN  /\ tickCursor' = next
         /\ child' = IF next # 0 /\ Closed(next) THEN CancelledChild(next) ELSE child
  /\ UNCHANGED <<parentWaits, grants, calls, modelCalls, performed, delegator, executor, grantMishaps>>

(* The Runtime with the checks of DelegatedTasks *)

RunChild(x, g) ==
  /\ executor[x] = NoErrand
  /\ \/ child[g] = "queued" /\ UNCHANGED grantMishaps
     \/ child[g] = "running" /\ GrantMishap
  /\ child' = [child EXCEPT ![g] = "running"]
  /\ executor' = [executor EXCEPT ![x] = [step |-> "ready", grant |-> g]]
  /\ UNCHANGED <<parentWaits, grants, calls, modelCalls, performed, delegator, tickCursor>>

\* check and admitModel before each inference.
AdmitModelCall(x) ==
  /\ executor[x].step = "ready"
  /\ LET g == executor[x].grant IN
       /\ Current(g) /\ modelCalls[g] < MaxGrantModelCalls
       /\ modelCalls' = [modelCalls EXCEPT ![g] = @ + 1]
  /\ UNCHANGED <<parentWaits, grants, child, calls, performed, delegator, executor, tickCursor, grantMishaps>>

CheckTool(x, c) ==
  /\ executor[x].step = "ready" /\ Current(executor[x].grant)
  /\ executor' = [executor EXCEPT ![x] = [step |-> "admit", grant |-> executor[x].grant, call |-> c]]
  /\ UNCHANGED <<parentWaits, grants, child, calls, modelCalls, performed, delegator, tickCursor, grantMishaps>>

Used(g) == {c \in GrantCall : calls[g][c] # "none"}

AdmitsCallMut(g, c) == grants[g] = "active" /\ Cardinality(Used(g) \cup {c}) <= MaxCalls

\* PostgresDelegationStore.admit, under the lock of the grant.
AdmitsCall(g, c) == grants[g] = "active" /\ calls[g][c] = "none" /\ Cardinality(Used(g)) < MaxCalls

AdmitTool(x) ==
  /\ executor[x].step = "admit"
  /\ LET g == executor[x].grant
         c == executor[x].call
     IN  IF AdmitsCall(g, c)
         THEN /\ calls' = [calls EXCEPT ![g][c] = "admitted"]
              /\ executor' = [executor EXCEPT ![x].step = "perform"]
         ELSE UNCHANGED calls /\ executor' = [executor EXCEPT ![x] = NoErrand]
  /\ UNCHANGED <<parentWaits, grants, child, modelCalls, performed, delegator, tickCursor, grantMishaps>>

\* dispatcher.invoke with the effect key of the call.
Perform(x) ==
  /\ executor[x].step = "perform"
  /\ performed' = [performed EXCEPT ![executor[x].grant][executor[x].call] = @ + 1]
  /\ executor' = [executor EXCEPT ![x].step = "settle"]
  /\ UNCHANGED <<parentWaits, grants, child, calls, modelCalls, delegator, tickCursor, grantMishaps>>

\* It raised before or after the effect, or returned.
SettleCall(x) ==
  /\ executor[x].step \in {"perform", "settle"}
  /\ \E outcome \in {"unknown"} \cup (IF executor[x].step = "settle" THEN {"returned"} ELSE {}) :
       calls' = [calls EXCEPT ![executor[x].grant][executor[x].call] = IF @ = "admitted" THEN outcome ELSE @]
  /\ executor' = [executor EXCEPT ![x] = [step |-> "ready", grant |-> executor[x].grant]]
  /\ UNCHANGED <<parentWaits, grants, child, modelCalls, performed, delegator, tickCursor, grantMishaps>>

\* The Task ends, or is put back: its last check failed or it waits.
EndChild(x) ==
  /\ executor[x].step = "ready"
  /\ \E status \in {"succeeded", "queued"} :
       child' = [child EXCEPT ![executor[x].grant] = IF @ = "running" THEN status ELSE @]
  /\ executor' = [executor EXCEPT ![x] = NoErrand]
  /\ UNCHANGED <<parentWaits, grants, calls, modelCalls, performed, delegator, tickCursor, grantMishaps>>

(* Mishaps: a process stops; the tick forgets its cursor *)

DelegationStops ==
  /\ GrantMishap
  /\ \/ \E d \in Delegator : delegator[d] # NoErrand /\ NoMoreErrand(d) /\ UNCHANGED <<executor, tickCursor>>
     \/ \E x \in Executor : /\ executor[x] # NoErrand
                            /\ executor' = [executor EXCEPT ![x] = NoErrand]
                            /\ UNCHANGED <<delegator, tickCursor>>
     \/ tickCursor # 0 /\ tickCursor' = 0 /\ UNCHANGED <<delegator, executor>>
  /\ UNCHANGED <<parentWaits, grants, child, calls, modelCalls, performed>>

GrantNext ==
  \/ \E d \in Delegator : \/ ReadDelegation(d) \/ CheckSubmit(d) \/ CreateChild(d) \/ CancelRevoked(d)
                          \/ \E g \in Grant : IssueGrant(d, g) \/ RevokeGrant(d, g)
  \/ \E g \in Grant : ExpireGrant(g) \/ \E x \in Executor : RunChild(x, g)
  \/ \E x \in Executor : \/ AdmitModelCall(x) \/ AdmitTool(x) \/ Perform(x) \/ SettleCall(x) \/ EndChild(x)
                         \/ \E c \in GrantCall : CheckTool(x, c)
  \/ ParentCloses \/ TickGrants \/ DelegationStops

\* The Runtime calls tick at every tick of its own.
GrantFairness == WF_grantVars(TickGrants)

GrantSpec == GrantInit /\ [][GrantNext]_grantVars
GrantFairSpec == GrantSpec /\ GrantFairness
-----------------------------------------------------------------------------
(* Properties *)

\* A grant pays for what it says: each call runs at most once, no more calls
\* run than its terms allow, what is settled as returned ran, although two
\* executors may hold the Task and each may stop anywhere (collaboration/
\* authority.js:17-44 and 67-82, tasks.js:52-53).
GrantBoundsWork ==
  \A g \in Grant :
    /\ \A c \in GrantCall : performed[g][c] <= 1 /\ (calls[g][c] = "returned" => performed[g][c] = 1)
    /\ Cardinality({c \in GrantCall : performed[g][c] > 0}) <= MaxCalls

\* A Task whose grant is revoked or expired, or whose parent stopped waiting,
\* ends, even one that was created by a submission that was checked before
\* that (collaboration/tasks.js:54-82, parents.js:14-30).
ClosedGrantsEnd == \A g \in Grant : ~Current(g) /\ Live(g) ~> ~Live(g)
=============================================================================
