----------------------------- MODULE TaskStore -----------------------------
(***************************************************************************)
(* The Task module of IAiC Core: tasks/store.js (TaskStore and             *)
(* TaskExecutor), tasks/ownership.js and tasks/transition-requests.js,     *)
(* driven the way agent/runtime.js drives them.                            *)
(*                                                                         *)
(* One PostgreSQL schema holds Tasks, their calls, an append-only event    *)
(* log, transition receipts and one executor-ownership row.  Several host  *)
(* processes share it.  The process that holds a session-level advisory    *)
(* lock is the executor: it takes a new generation, recovers what its      *)
(* predecessor left, then claims one Task at a time and runs its tool      *)
(* calls one after the other (prepare, dispatch, invoke, settle).  Any     *)
(* process serves owners: create, cancel, resume, clarify, switch model,   *)
(* reconcile.  Every action below is one committed transaction, or one     *)
(* step of a process between transactions.                                 *)
(*                                                                         *)
(* Abstractions.  Row ids are numbers in creation order (the order in      *)
(* which claim takes queued Tasks).  An executor token is named by the     *)
(* generation it was issued with: both are fresh at every takeover.  The   *)
(* event log is projected to what the code reads back from it.  Waiting    *)
(* reason "interrupted" stands for every reason that a plain resume may    *)
(* end (interrupted, limit, token_balance, usage_reconciliation,           *)
(* model_timeout, provider_error), "restart" for the two that nothing may  *)
(* end (model_output_limit, invalid_model_action).                         *)
(*                                                                         *)
(* Operators ending in Mut, RecoveredCallBlind and RecoveredCallIdle are   *)
(* altered forms of the definition below them.  No action uses them; they  *)
(* show that a property can fail.                                          *)
(***************************************************************************)
EXTENDS Naturals, FiniteSets

CONSTANTS
  Process, NoProcess,  \* host processes, and the holder of a free lock
  Version, VersionOf,  \* code/Skill versions; VersionOf[p] is what p runs
  Key, NoKey,          \* transition request keys; NoKey is a call without one
  MaxTasks, MaxCalls,  \* bounds: rows
  MaxFaults,           \* bound: crashes, lost sessions, drains, stops
  MaxStoreErrors       \* bound: settle transactions the database refuses

ASSUME TaskStoreAssumption ==
  /\ NoProcess \notin Process
  /\ NoKey \notin Key
  /\ Version # {} /\ VersionOf \in [Process -> Version]
  /\ MaxTasks \in Nat /\ MaxCalls \in Nat
  /\ MaxFaults \in Nat /\ MaxStoreErrors \in Nat

VARIABLES
  tasks,        \* iaic_tasks
  calls,        \* iaic_calls
  log,          \* what the code reads back from iaic_task_events
  receipts,     \* request keys in iaic_task_transition_receipts, by Task
  inputs,       \* inputs[t][k]: 'input' events with the text sent under key k
  ownership,    \* the row of iaic_executor_ownership
  lock,         \* who holds the session advisory lock
  proc,         \* executor object and runtime loop of each process
  outbound,     \* calls handed to a tool that may still perform them
  performed,    \* calls whose tool has performed them
  faults, storeErrors

vars == <<tasks, calls, log, receipts, inputs, ownership, lock, proc,
          outbound, performed, faults, storeErrors>>

Task == 1..MaxTasks
Call == 1..MaxCalls

\* Owners and observers reach the store through a runtime, which names its version.
HostVersion == {VersionOf[p] : p \in Process}

TaskStatus == {"absent", "queued", "running", "waiting", "succeeded", "cancelled"}
Reason == {"none", "input", "external_result", "interrupted", "restart"}

\* "child": the Task is somebody's handoff, and may not delegate.
TaskRow ==
  {row \in [status : TaskStatus, reason : Reason, token : Nat, version : Version,
            delegation : {"none", "child", "pending", "received"}] :
     row.reason # "none" <=> row.status = "waiting"}

CallStatus == {"absent", "prepared", "running", "succeeded", "failed", "unknown"}

\* error: "unsent" for the text which says that no operation was sent.
CallRow ==
  {row \in [task : Task \cup {0}, effect : {"read", "write"}, status : CallStatus,
            error : {"none", "unsent"}] :
     row.status = "absent" <=> row.task = 0}

\* last: kind of the latest event, as far as it matters; waits: how many
\* result_wait events; served: the result_wait that the latest result_ready
\* names; pause: the event that entered the pause the Task is in.
LogView ==
  {view \in [last : {"result_wait", "other"}, waits : Nat, served : Nat,
             pause : {"result_wait", "other"}] :
     view.served <= view.waits}

\* former: generation of the closed executor object a reacquiring runtime still holds.
Phase == {"off", "again", "locked", "owner", "ready", "lost", "closing", "retired"}
Step == {"idle", "loop", "prepared", "dispatched", "returned", "refused", "uncertain",
         "doubtful", "abort"}
ProcRow ==
  {row \in [phase : Phase, generation : Nat, former : Nat, task : Task \cup {0},
            call : Call \cup {0}, step : Step] :
     /\ row.step = "idle" <=> row.task = 0
     /\ row.step \notin {"idle", "loop"} => row.call # 0}

OwnershipRow == [generation : Nat, token : Nat, state : {"active", "draining", "released"}]

Off == [phase |-> "off", generation |-> 0, former |-> 0,
        task |-> 0, call |-> 0, step |-> "idle"]

Init ==
  /\ tasks = [t \in Task |-> [status |-> "absent", reason |-> "none", token |-> 0,
                              version |-> CHOOSE v \in Version : TRUE,
                              delegation |-> "none"]]
  /\ calls = [c \in Call |-> [task |-> 0, effect |-> "read", status |-> "absent",
                              error |-> "none"]]
  /\ log = [t \in Task |-> [last |-> "other", waits |-> 0, served |-> 0, pause |-> "other"]]
  /\ receipts = [t \in Task |-> {}]
  /\ inputs = [t \in Task |-> [k \in Key |-> 0]]
  /\ ownership = [generation |-> 0, token |-> 0, state |-> "released"]
  /\ lock = NoProcess
  /\ proc = [p \in Process |-> Off]
  /\ outbound = {} /\ performed = {}
  /\ faults = 0 /\ storeErrors = 0

-----------------------------------------------------------------------------
(* Reading rows *)

Uncertain == {"running", "unknown"}
Unresolved == {"prepared", "running", "unknown"}

HasCall(t, statuses) == \E c \in Call : calls[c].task = t /\ calls[c].status \in statuses

Least(S) == {x \in S : \A y \in S : x <= y}

Absent(rows) == {x \in DOMAIN rows : rows[x].status = "absent"}

\* Every event but result_wait only moves the end of the log.
Event(t) == [log EXCEPT ![t] = [@ EXCEPT !.last = "other"]]

\* A pause entered by anything but a result wait.
Pausing(view) == [view EXCEPT !.last = "other", !.pause = "other"]
PauseEvent(t) == [log EXCEPT ![t] = Pausing(@)]

\* A pause entered by a result_wait, which gets the next number.
Registering(view) ==
  [view EXCEPT !.last = "result_wait", !.waits = @ + 1, !.pause = "result_wait"]

\* assertOwnership, inside every executor transaction.
Owns(p) ==
  /\ ownership.token = proc[p].generation
  /\ ownership.generation = proc[p].generation
  /\ ownership.state # "released"

\* A transaction of p commits: its session lives and its ownership holds.
InSession(p) == proc[p].phase = "ready" /\ Owns(p)

\* TaskExecutor.active for the Task the process is working on.
Active(p) ==
  /\ tasks[proc[p].task].status = "running"
  /\ tasks[proc[p].task].token = proc[p].generation

At(p, step) == InSession(p) /\ proc[p].step = step

Idle(p) == [proc EXCEPT ![p] = [@ EXCEPT !.step = "idle", !.task = 0, !.call = 0]]

GoTo(p, step) == [proc EXCEPT ![p] = [@ EXCEPT !.step = step]]

\* Row updates of the statements that several operations share.
Queued(row) == [row EXCEPT !.status = "queued", !.reason = "none", !.token = 0]

Waiting(row, reason) == [row EXCEPT !.status = "waiting", !.reason = reason, !.token = 0]

\* finish keeps the token; only the outcome and its reason are written.
Ended(row, status, reason) == [row EXCEPT !.status = status, !.reason = reason]

-----------------------------------------------------------------------------
(* Owners: any process may serve these, with or without an executor *)

\* create: a repeated key returns the prior row, which changes nothing.
Create(t, v, delegation) ==
  /\ t \in Least(Absent(tasks))
  /\ tasks' = [tasks EXCEPT ![t] = [@ EXCEPT !.status = "queued", !.version = v,
                                            !.delegation = delegation]]
  /\ log' = Event(t)
  /\ UNCHANGED <<calls, receipts, inputs, ownership, lock, proc, outbound, performed,
                 faults, storeErrors>>

CancelledRowMut(row) == [row EXCEPT !.status = "cancelled"]

CancelledRow(row) == [row EXCEPT !.status = "cancelled", !.reason = "none"]

\* transition 'cancel': the token stays, so an admitted call may still settle.
Cancel(t) ==
  /\ tasks[t].status \in {"queued", "running", "waiting"}
  /\ tasks' = [tasks EXCEPT ![t] = CancelledRow(@)]
  /\ log' = Event(t)
  /\ UNCHANGED <<calls, receipts, inputs, ownership, lock, proc, outbound, performed,
                 faults, storeErrors>>

MayTransitionMut(t, v) ==
  /\ tasks[t].status = "waiting"
  /\ tasks[t].reason # "restart"
  /\ tasks[t].delegation # "pending"
  /\ tasks[t].version = v
  /\ ~HasCall(t, {"running"})

MayTransition(t, v) ==
  /\ tasks[t].status = "waiting"
  /\ tasks[t].reason # "restart"
  /\ tasks[t].delegation # "pending"
  /\ tasks[t].version = v
  /\ ~HasCall(t, Uncertain)

NewRequestMut(t, k) == TRUE

\* A keyed request with a receipt returns the original outcome and stops.
NewRequest(t, k) == k \notin receipts[t]

Receipted(t, k) == [receipts EXCEPT ![t] = @ \cup ({k} \cap Key)]

Resume(t, k, v) ==
  /\ NewRequest(t, k) /\ MayTransition(t, v)
  /\ tasks[t].reason # "input"
  /\ tasks' = [tasks EXCEPT ![t] = Queued(@)]
  /\ log' = Event(t)
  /\ receipts' = Receipted(t, k)
  /\ UNCHANGED <<calls, inputs, ownership, lock, proc, outbound, performed,
                 faults, storeErrors>>

ProvideInput(t, k, v) ==
  /\ NewRequest(t, k) /\ MayTransition(t, v)
  /\ tasks[t].reason = "input"
  /\ tasks' = [tasks EXCEPT ![t] = Queued(@)]
  /\ log' = Event(t)
  /\ inputs' = [inputs EXCEPT ![t] = [x \in Key |-> IF x = k THEN @[x] + 1 ELSE @[x]]]
  /\ receipts' = Receipted(t, k)
  /\ UNCHANGED <<calls, ownership, lock, proc, outbound, performed, faults, storeErrors>>

\* The model itself is not modelled; the event the switch appends is.
SwitchModel(t, v) ==
  /\ tasks[t].status = "waiting" /\ tasks[t].version = v
  /\ ~HasCall(t, Uncertain)
  /\ log' = Event(t)
  /\ UNCHANGED <<tasks, calls, receipts, inputs, ownership, lock, proc, outbound, performed,
                 faults, storeErrors>>

\* A host reconciles an unknown call with the domain's receipt that it happened.
ResolveCall(c) ==
  /\ calls[c].status = "unknown" /\ c \in performed
  /\ tasks[calls[c].task].status \in {"waiting", "cancelled"}
  /\ calls' = [calls EXCEPT ![c] = [@ EXCEPT !.status = "succeeded"]]
  /\ log' = Event(calls[c].task)
  /\ UNCHANGED <<tasks, receipts, inputs, ownership, lock, proc, outbound, performed,
                 faults, storeErrors>>

-----------------------------------------------------------------------------
(* Observers: read a wait, look at the world, then come back to the row *)

SameWaitMut(t, n) == tasks[t].status = "waiting" /\ tasks[t].reason = "external_result"

\* The observation is of the result_wait that is still the end of the log.
SameWait(t, n) ==
  /\ tasks[t].status = "waiting" /\ tasks[t].reason = "external_result"
  /\ tasks[t].version \in HostVersion
  /\ log[t].last = "result_wait" /\ log[t].waits = n

\* wakeResultWait, by an observer that read result_wait n of Task t, however
\* long ago, and found its external condition true.
Wake(t, n) ==
  /\ n \in 1..log[t].waits
  /\ SameWait(t, n)
  /\ ~HasCall(t, Unresolved)
  /\ tasks' = [tasks EXCEPT ![t] = Queued(@)]
  /\ log' = [log EXCEPT ![t] = [@ EXCEPT !.last = "other", !.served = n]]
  /\ UNCHANGED <<calls, receipts, inputs, ownership, lock, proc, outbound, performed,
                 faults, storeErrors>>

ReceiveDelegation(t) ==
  /\ tasks[t].status = "waiting" /\ tasks[t].reason = "external_result"
  /\ tasks[t].delegation = "pending" /\ tasks[t].version \in HostVersion
  /\ ~HasCall(t, Unresolved)
  /\ tasks' = [tasks EXCEPT ![t] = [Queued(@) EXCEPT !.delegation = "received"]]
  /\ log' = Event(t)
  /\ UNCHANGED <<calls, receipts, inputs, ownership, lock, proc, outbound, performed,
                 faults, storeErrors>>

(* Executor sessions: lock, generation, recovery, loss, drain, release *)

LockFreeMut == TRUE

LockFree == lock = NoProcess

\* acquireExecutor: pg_try_advisory_lock on a dedicated session.
TryLock(p) ==
  /\ proc[p].phase \in {"off", "again"} /\ LockFree
  /\ lock' = p
  /\ proc' = [proc EXCEPT ![p] = [@ EXCEPT !.phase = "locked"]]
  /\ UNCHANGED <<tasks, calls, log, receipts, inputs, ownership, outbound, performed,
                 faults, storeErrors>>

\* Another session holds the lock: the runtime forgets its closed executor.
LockTaken(p) ==
  /\ proc[p].phase = "again" /\ ~LockFree
  /\ proc' = [proc EXCEPT ![p] = Off]
  /\ UNCHANGED <<tasks, calls, log, receipts, inputs, ownership, lock, outbound, performed,
                 faults, storeErrors>>

TakeOwnership(p) ==
  /\ proc[p].phase = "locked"
  /\ LET g == ownership.generation + 1 IN
       /\ ownership' = [generation |-> g, token |-> g, state |-> "active"]
       /\ proc' = [proc EXCEPT ![p] = [@ EXCEPT !.phase = "owner", !.generation = g]]
  /\ UNCHANGED <<tasks, calls, log, receipts, inputs, lock, outbound, performed,
                 faults, storeErrors>>

RecoveredCallBlind(row) ==
  IF row.status \in {"prepared", "running"}
  THEN [row EXCEPT !.status = "failed", !.error = "unsent"] ELSE row

RecoveredCallIdle(row) ==
  IF row.status = "prepared" THEN [row EXCEPT !.status = "failed", !.error = "unsent"] ELSE row

\* A dispatched call may have happened; a prepared one was never sent.
RecoveredCall(row) ==
  CASE row.status = "running"  -> [row EXCEPT !.status = "unknown"]
    [] row.status = "prepared" -> [row EXCEPT !.status = "failed", !.error = "unsent"]
    [] OTHER -> row

\* recover: one transaction over every call and every running Task.
Recover(p) ==
  /\ proc[p].phase = "owner" /\ Owns(p)
  /\ calls' = [c \in Call |-> RecoveredCall(calls[c])]
  /\ tasks' = [t \in Task |-> IF tasks[t].status = "running"
                              THEN Waiting(tasks[t], "interrupted") ELSE tasks[t]]
  /\ log' = [t \in Task |-> IF tasks[t].status = "running"
                            THEN Pausing(log[t]) ELSE log[t]]
  /\ proc' = [proc EXCEPT ![p] = [@ EXCEPT !.phase = "ready", !.former = 0]]
  /\ UNCHANGED <<receipts, inputs, ownership, lock, outbound, performed, faults, storeErrors>>

Fault == faults < MaxFaults /\ faults' = faults + 1

Unlocked(p) == IF lock = p THEN NoProcess ELSE lock

\* An acquisition that fails leaves the executor object that was there before.
Unacquired(p) ==
  IF proc[p].former = 0 THEN Off
  ELSE [Off EXCEPT !.phase = "lost", !.generation = proc[p].former]

\* The database session ends under a live process.  An executor that was being
\* acquired is given up; a ready one finds out at its next query.
LoseSession(p) ==
  /\ Fault
  /\ proc[p].phase \in {"locked", "owner", "ready", "closing"}
  /\ lock' = Unlocked(p)
  /\ proc' = CASE proc[p].phase = "ready"   -> [proc EXCEPT ![p] = [@ EXCEPT !.phase = "lost"]]
               [] proc[p].phase = "closing" -> [proc EXCEPT ![p] = [Off EXCEPT !.phase = "retired"]]
               [] OTHER -> [proc EXCEPT ![p] = Unacquired(p)]
  /\ UNCHANGED <<tasks, calls, log, receipts, inputs, ownership, outbound, performed,
                 storeErrors>>

\* The process dies and is started again; a request it sent is still on its way.
Crash(p) ==
  /\ Fault
  /\ proc[p].phase # "off"
  /\ lock' = Unlocked(p)
  /\ proc' = [proc EXCEPT ![p] = Off]
  /\ UNCHANGED <<tasks, calls, log, receipts, inputs, ownership, outbound, performed,
                 storeErrors>>

\* After a lost session the tool in flight is awaited, then the loop gives up:
\* neither settle nor finish reaches the database.
GiveUp(p) ==
  /\ proc[p].phase = "lost" /\ proc[p].step \notin {"idle", "dispatched"}
  /\ proc' = Idle(p)
  /\ UNCHANGED <<tasks, calls, log, receipts, inputs, ownership, lock, outbound, performed,
                 faults, storeErrors>>

\* tick without an executor: retire if superseded or draining, else reacquire.
Superseded(p) == ownership.generation # proc[p].generation \/ ownership.state = "draining"

Retick(p) ==
  /\ proc[p].phase = "lost" /\ proc[p].step = "idle"
  /\ proc' = [proc EXCEPT ![p] = IF Superseded(p) THEN [Off EXCEPT !.phase = "retired"]
                                 ELSE [Off EXCEPT !.phase = "again",
                                                  !.former = proc[p].generation]]
  /\ UNCHANGED <<tasks, calls, log, receipts, inputs, ownership, lock, outbound, performed,
                 faults, storeErrors>>

\* requestExecutorDrain, for the generation the caller observed.
RequestDrain(g) ==
  /\ Fault
  /\ ownership.generation = g /\ ownership.token # 0 /\ ownership.state = "active"
  /\ ownership' = [ownership EXCEPT !.state = "draining"]
  /\ UNCHANGED <<tasks, calls, log, receipts, inputs, lock, proc, outbound, performed,
                 storeErrors>>

\* close, first half: the row is released while the lock is still held.
Release(p) ==
  /\ At(p, "idle")
  /\ ownership' = [ownership EXCEPT !.state = "released", !.token = 0]
  /\ proc' = [proc EXCEPT ![p] = [@ EXCEPT !.phase = "closing"]]
  /\ UNCHANGED <<tasks, calls, log, receipts, inputs, lock, outbound, performed, storeErrors>>

RetireDrainingMut(p) == ownership.state = "released" /\ Release(p) /\ UNCHANGED faults

\* A draining executor retires at the end of the tick that noticed.
RetireDraining(p) == ownership.state = "draining" /\ Release(p) /\ UNCHANGED faults

\* The host stops the runtime (stop, or drain once its tick completed).
Stop(p) == Fault /\ Release(p)

UnlockMut(p) ==
  /\ proc[p].phase = "closing"
  /\ proc' = [proc EXCEPT ![p] = [Off EXCEPT !.phase = "retired"]]
  /\ UNCHANGED <<tasks, calls, log, receipts, inputs, ownership, lock, outbound, performed,
                 faults, storeErrors>>

\* close, second half: unlock; a runtime that closed never ticks again.
Unlock(p) ==
  /\ proc[p].phase = "closing"
  /\ lock' = Unlocked(p)
  /\ proc' = [proc EXCEPT ![p] = [Off EXCEPT !.phase = "retired"]]
  /\ UNCHANGED <<tasks, calls, log, receipts, inputs, ownership, outbound, performed,
                 faults, storeErrors>>

\* The supervisor constructs a new runtime in place of a retired one.
Replace(p) ==
  /\ proc[p].phase = "retired"
  /\ proc' = [proc EXCEPT ![p] = Off]
  /\ UNCHANGED <<tasks, calls, log, receipts, inputs, ownership, lock, outbound, performed,
                 faults, storeErrors>>

(* The executor's Task: claim, then tool calls one after the other *)

QueueHead == Least({t \in Task : tasks[t].status = "queued"})

NothingRunsMut == \A t \in Task : tasks[t].status # "running"

\* claim refuses while any Task runs, or any call is still dispatched.
NothingRuns ==
  /\ \A t \in Task : tasks[t].status # "running"
  /\ \A c \in Call : calls[c].status # "running"

MayClaim(p, t) ==
  /\ At(p, "idle") /\ ownership.state = "active"
  /\ NothingRuns
  /\ t \in QueueHead

Claim(p, t) ==
  /\ MayClaim(p, t)
  /\ tasks[t].version = VersionOf[p]
  /\ tasks' = [tasks EXCEPT ![t] = [@ EXCEPT !.status = "running",
                                            !.token = proc[p].generation]]
  /\ proc' = [proc EXCEPT ![p] = [@ EXCEPT !.step = "loop", !.task = t]]
  /\ UNCHANGED <<calls, log, receipts, inputs, ownership, lock, outbound, performed,
                 faults, storeErrors>>

ClaimMismatch(p, t) ==
  /\ MayClaim(p, t)
  /\ tasks[t].version # VersionOf[p]
  /\ tasks' = [tasks EXCEPT ![t] = Ended(@, "waiting", "interrupted")]
  /\ log' = PauseEvent(t)
  /\ UNCHANGED <<calls, receipts, inputs, ownership, lock, proc, outbound, performed,
                 faults, storeErrors>>

\* The Task was cancelled under the loop: the next read or transaction ends it.
LoopEnds(p) ==
  /\ At(p, "loop") /\ ~Active(p)
  /\ proc' = Idle(p)
  /\ UNCHANGED <<tasks, calls, log, receipts, inputs, ownership, lock, outbound, performed,
                 faults, storeErrors>>

Prepare(p, c, effect) ==
  /\ At(p, "loop") /\ Active(p)
  /\ c \in Least(Absent(calls))
  /\ calls' = [calls EXCEPT ![c] = [task |-> proc[p].task, effect |-> effect,
                                    status |-> "prepared", error |-> "none"]]
  /\ log' = Event(proc[p].task)
  /\ proc' = [proc EXCEPT ![p] = [@ EXCEPT !.step = "prepared", !.call = c]]
  /\ UNCHANGED <<tasks, receipts, inputs, ownership, lock, outbound, performed,
                 faults, storeErrors>>

\* Tool authority refuses between prepare and dispatch, or dispatch finds the
\* Task no longer active.  The prepared call stays as it is.
Unadmitted(p) ==
  /\ At(p, "prepared")
  /\ proc' = GoTo(p, "abort")
  /\ UNCHANGED <<tasks, calls, log, receipts, inputs, ownership, lock, outbound, performed,
                 faults, storeErrors>>

Dispatch(p) ==
  /\ At(p, "prepared") /\ Active(p)
  /\ calls[proc[p].call].status = "prepared"
  /\ calls' = [calls EXCEPT ![proc[p].call] = [@ EXCEPT !.status = "running"]]
  /\ log' = Event(proc[p].task)
  /\ proc' = GoTo(p, "dispatched")
  /\ outbound' = outbound \cup {proc[p].call}
  /\ UNCHANGED <<tasks, receipts, inputs, ownership, lock, performed, faults, storeErrors>>

\* The tool's side of an invocation, wherever the caller is by now.
Perform(c) ==
  /\ c \in outbound
  /\ outbound' = outbound \ {c} /\ performed' = performed \cup {c}
  /\ UNCHANGED <<tasks, calls, log, receipts, inputs, ownership, lock, proc, faults, storeErrors>>

\* Dispatcher.invoke came back with a verified result.
ToolReturns(p) ==
  /\ proc[p].step = "dispatched" /\ proc[p].call \in performed
  /\ proc' = GoTo(p, "returned")
  /\ UNCHANGED <<tasks, calls, log, receipts, inputs, ownership, lock, outbound, performed,
                 faults, storeErrors>>

\* Denied, invalid or failed preflight: the tool was never entered.
ToolRefuses(p) ==
  /\ proc[p].step = "dispatched" /\ proc[p].call \in outbound
  /\ proc' = GoTo(p, "refused")
  /\ outbound' = outbound \ {proc[p].call}
  /\ UNCHANGED <<tasks, calls, log, receipts, inputs, ownership, lock, performed,
                 faults, storeErrors>>

\* The tool was entered and threw: a write is outcomeUnknown, a read is not.
ToolThrows(p) ==
  /\ proc[p].step = "dispatched"
  /\ \/ /\ calls[proc[p].call].effect = "write"
        /\ proc' = GoTo(p, "uncertain")
        /\ UNCHANGED outbound
     \/ /\ calls[proc[p].call].effect = "read"
        /\ proc' = GoTo(p, "refused")
        /\ outbound' = outbound \ {proc[p].call}
  /\ UNCHANGED <<tasks, calls, log, receipts, inputs, ownership, lock, performed,
                 faults, storeErrors>>

SettledAs(step) ==
  CASE step = "returned" -> "succeeded" [] step = "uncertain" -> "unknown" [] OTHER -> "failed"

\* settle asks for the Task's token, not for a running Task.
Settles(p) ==
  /\ InSession(p) /\ proc[p].step \in {"returned", "refused", "uncertain"}
  /\ tasks[proc[p].task].token = proc[p].generation
  /\ calls[proc[p].call].status = "running"
  /\ calls' = [calls EXCEPT ![proc[p].call] =
                 [@ EXCEPT !.status = SettledAs(proc[p].step)]]

Settle(p) ==
  /\ Settles(p)
  /\ log' = Event(proc[p].task)
  /\ proc' = IF proc[p].step = "uncertain"
             THEN GoTo(p, "doubtful")
             ELSE [proc EXCEPT ![p] = [@ EXCEPT !.step = "loop", !.call = 0]]
  /\ UNCHANGED <<tasks, receipts, inputs, ownership, lock, outbound, performed,
                 faults, storeErrors>>

\* settle with wait: the read succeeded, its external condition is not true yet.
SettleWait(p) ==
  /\ Settles(p)
  /\ proc[p].step = "returned" /\ calls[proc[p].call].effect = "read" /\ Active(p)
  /\ tasks' = [tasks EXCEPT ![proc[p].task] = Waiting(@, "external_result")]
  /\ log' = [log EXCEPT ![proc[p].task] = Registering(@)]
  /\ proc' = Idle(p)
  /\ UNCHANGED <<receipts, inputs, ownership, lock, outbound, performed, faults, storeErrors>>

\* The database refuses a transaction, or the read before it, and the session
\* survives.  A settle that fails after a returned tool is settled again by the
\* catch block, now as an error; after an error the whole Task is given up; the
\* last catch block has none around it, and leaves the Task running.
StoreRefuses(p) ==
  /\ storeErrors < MaxStoreErrors /\ storeErrors' = storeErrors + 1
  /\ InSession(p) /\ proc[p].step \in {"returned", "refused", "uncertain", "doubtful", "abort"}
  /\ proc' = CASE proc[p].step = "returned" -> GoTo(p, "refused")
               [] proc[p].step = "abort"    -> Idle(p)
               [] OTHER                     -> GoTo(p, "abort")
  /\ UNCHANGED <<tasks, calls, log, receipts, inputs, ownership, lock, outbound, performed,
                 faults>>

\* The outer catch: finish as waiting unless the Task was cancelled meanwhile.
EndsWith(p, reason) ==
  /\ proc' = Idle(p)
  /\ IF Active(p)
     THEN /\ tasks' = [tasks EXCEPT ![proc[p].task] = Ended(@, "waiting", reason)]
          /\ log' = PauseEvent(proc[p].task)
     ELSE UNCHANGED <<tasks, log>>
  /\ UNCHANGED <<calls, receipts, inputs, ownership, lock, outbound, performed,
                 faults, storeErrors>>

Abort(p) == At(p, "abort") /\ EndsWith(p, "interrupted")

AwaitReconciliation(p) == At(p, "doubtful") /\ EndsWith(p, "external_result")

\* The loop pauses for its owner, or fails in one of the ways of Reason.
FinishWaiting(p, reason) ==
  /\ At(p, "loop") /\ Active(p)
  /\ EndsWith(p, reason)

FinishSucceeded(p) ==
  /\ At(p, "loop") /\ Active(p)
  /\ ~HasCall(proc[p].task, Unresolved)
  /\ tasks' = [tasks EXCEPT ![proc[p].task] = Ended(@, "succeeded", "none")]
  /\ log' = Event(proc[p].task)
  /\ proc' = Idle(p)
  /\ UNCHANGED <<calls, receipts, inputs, ownership, lock, outbound, performed,
                 faults, storeErrors>>

Delegate(p) ==
  /\ At(p, "loop") /\ Active(p)
  /\ tasks[proc[p].task].delegation = "none"
  /\ ~HasCall(proc[p].task, Unresolved)
  /\ tasks' = [tasks EXCEPT ![proc[p].task] =
                 [Waiting(@, "external_result") EXCEPT !.delegation = "pending"]]
  /\ log' = PauseEvent(proc[p].task)
  /\ proc' = Idle(p)
  /\ UNCHANGED <<calls, receipts, inputs, ownership, lock, outbound, performed,
                 faults, storeErrors>>

-----------------------------------------------------------------------------
Owner ==
  \/ \E t \in Task, v \in Version, d \in {"none", "child"} : Create(t, v, d)
  \/ \E t \in Task : Cancel(t) \/ ReceiveDelegation(t)
  \/ \E t \in Task, k \in Key \cup {NoKey}, v \in HostVersion : Resume(t, k, v) \/ ProvideInput(t, k, v)
  \/ \E t \in Task, v \in HostVersion : SwitchModel(t, v)
  \/ \E t \in Task, n \in 1..MaxCalls : Wake(t, n)
  \/ \E c \in Call : ResolveCall(c) \/ Perform(c)
  \/ \E g \in 1..(MaxFaults + 1) : RequestDrain(g)

Session(p) == TryLock(p) \/ LockTaken(p) \/ TakeOwnership(p) \/ Recover(p) \/ GiveUp(p) \/ Retick(p)
              \/ RetireDraining(p) \/ Unlock(p) \/ Replace(p)

Tool(p) == ToolReturns(p) \/ ToolRefuses(p) \/ ToolThrows(p)

Work(p) ==
  \/ \E t \in Task : Claim(p, t) \/ ClaimMismatch(p, t)
  \/ LoopEnds(p) \/ Dispatch(p) \/ Unadmitted(p)
  \/ \E c \in Call, effect \in {"read", "write"} : Prepare(p, c, effect)
  \/ Settle(p) \/ SettleWait(p) \/ Abort(p) \/ AwaitReconciliation(p)
  \/ \E reason \in {"input", "interrupted", "restart"} : FinishWaiting(p, reason)
  \/ FinishSucceeded(p) \/ Delegate(p)

Mishap(p) == LoseSession(p) \/ Crash(p) \/ Stop(p) \/ StoreRefuses(p)

Next == Owner \/ \E p \in Process : Session(p) \/ Tool(p) \/ Work(p) \/ Mishap(p)

Spec == Init /\ [][Next]_vars

\* Hosts poll: AgentRuntime.start ticks every second, a supervisor replaces a
\* retired host, every tool invocation ends.  Owners and mishaps get no fairness.
Fairness == \A p \in Process : WF_vars(Session(p)) /\ WF_vars(Tool(p)) /\ WF_vars(Work(p))

FairSpec == Spec /\ Fairness
-----------------------------------------------------------------------------
(* Safety *)

\* Every row is well formed.  Three of the rows relate their fields: a Task has
\* a waiting reason exactly while it waits (cancel, resume, wake and finish all
\* have to clear it), its log serves no result_wait that was not appended, and a
\* process holds a Task, and a call, while it works on one.
TypeOK ==
  /\ tasks \in [Task -> TaskRow]
  /\ calls \in [Call -> CallRow]
  /\ log \in [Task -> LogView]
  /\ receipts \in [Task -> SUBSET Key]
  /\ inputs \in [Task -> [Key -> Nat]]
  /\ ownership \in OwnershipRow
  /\ lock \in Process \cup {NoProcess}
  /\ proc \in [Process -> ProcRow]
  /\ outbound \in SUBSET Call /\ performed \in SUBSET Call
  /\ faults \in Nat /\ storeErrors \in Nat

\* The call table never lies about the world: what may still happen is recorded
\* as dispatched or unknown, what was recorded as succeeded did happen, and what
\* was recorded as never sent neither happened nor will.  It holds across crashes,
\* cancellation, lost sessions and tools that outlive their caller.
EffectsAccounted ==
  /\ \A c \in outbound : calls[c].status \in Uncertain /\ c \notin performed
  /\ \A c \in performed : calls[c].status \in {"running", "unknown", "succeeded", "failed"}
  /\ \A c \in Call : calls[c].status = "succeeded" => c \in performed
  /\ \A c \in Call : calls[c].error = "unsent" => calls[c].status = "failed" /\ c \notin performed

\* A Task is in the queue, and a Task has succeeded, only with no call in doubt:
\* transition, wakeResultWait, receiveDelegation and finish each check it on their
\* own, against calls that recovery or a late settle turned unknown.
NoWorkOnDoubt ==
  \A t \in Task :
    /\ tasks[t].status = "queued" => ~HasCall(t, Uncertain)
    /\ tasks[t].status = "succeeded" => ~HasCall(t, Unresolved)

\* A process whose session lives holds the lock and is the recorded owner, so a
\* live executor is never fenced and no two processes are executors at once.
LiveSessionOwns ==
  \A p \in Process :
    /\ proc[p].phase \in {"locked", "owner", "ready", "closing"} => lock = p
    /\ proc[p].phase \in {"owner", "ready"} => Owns(p)

\* One clarification reaches a Task at most once per request key, however often
\* the host repeats the request, and whatever the Task did in between.
InputDeliveredOnce == \A t \in Task, k \in Key : inputs[t][k] <= 1

\* An observer ends only the wait it observed: the pause was entered by that
\* result_wait, which is the newest one, and no call of the Task is unresolved.
OwnEvidenceEndsWait ==
  [][\A t \in Task : log'[t].served # log[t].served =>
       /\ tasks[t].status = "waiting" /\ log[t].pause = "result_wait"
       /\ log'[t].served = log[t].waits
       /\ ~HasCall(t, Unresolved)]_vars

\* Every behaviour of the store is a behaviour of the abstract promise.
PromiseStage(status) == IF status = "running" THEN "working" ELSE status

PromiseRecord(row) ==
  LET open == [absent |-> "absent", prepared |-> "intended", running |-> "inflight",
               unknown |-> "uncertain"]
  IN  IF row.status \notin {"succeeded", "failed"} THEN open[row.status]
      ELSE IF row.error = "unsent" THEN "void" ELSE "known"

Promise == INSTANCE TaskPromise WITH
  stage <- [t \in Task |-> PromiseStage(tasks[t].status)],
  owner <- [c \in Call |-> calls[c].task],
  effect <- [c \in Call |-> PromiseRecord(calls[c])],
  world <- performed

\* The store, its executor sessions, crashes and fencing implement TaskPromise.
ImplementsPromise == Promise!Spec

-----------------------------------------------------------------------------
(* Liveness, under Fairness *)

\* Whatever happens to its executor, a dispatched call gets a recorded outcome,
\* if only "unknown" by the recovery of a later generation.
DispatchedCallsSettle ==
  \A c \in Call : calls[c].status = "running" ~> calls[c].status # "running"

\* The queue never stalls: while a Task is queued, some Task gets to run or the
\* queue is emptied, through every bounded number of crashes, drains and stops.
QueueNeverStalls ==
  (\E t \in Task : tasks[t].status = "queued")
    ~> (\E t \in Task : tasks[t].status = "running") \/ (\A t \in Task : tasks[t].status # "queued")

\* A drained generation is succeeded by another one.
DrainHandsOver ==
  \A g \in 1..(MaxFaults + 1) :
    ownership.state = "draining" /\ ownership.generation = g ~> ownership.generation > g

-----------------------------------------------------------------------------
(* What the documentation says, and the code does not do *)

\* agent/README.md: "Lost observations leave the wait intact; process replacement
\* can rediscover it."  A Task that is paused on a result wait is one that
\* pendingResultWait finds.
ResultWaitRediscoverable ==
  \A t \in Task :
    tasks[t].status = "waiting" /\ tasks[t].reason = "external_result" /\ log[t].pause = "result_wait"
      => log[t].last = "result_wait"

\* capabilities/index.js: "A failed response/verification after a write does not
\* prove no side effect."  A write that happened is never recorded as failed.
PerformedWriteNotFailed ==
  \A c \in Call : calls[c].effect = "write" /\ calls[c].status = "failed" => c \notin performed
=============================================================================
