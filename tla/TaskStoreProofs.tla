-------------------------- MODULE TaskStoreProofs --------------------------
(***************************************************************************)
(* Proofs about TaskStore, for every set of processes and versions and any *)
(* number of Tasks, calls, mishaps and refused transactions: its types and *)
(* ownership, that it accounts for effects and lets no Task go on in doubt, *)
(* and that it implements TaskPromise.                                     *)
(***************************************************************************)
EXTENDS TaskStore, TLAPS

USE TaskStoreAssumption

\* 0 stands for "no Task" and "no call" in the rows.
LEMMA Named == 0 \notin Task /\ 0 \notin Call
  BY DEF Task, Call

-----------------------------------------------------------------------------
(* Row updates keep rows well formed *)

\* Owner transitions and a successful end keep the row of a Task well formed
\* (store.js:119, 132, 298).
LEMMA TaskRows ==
  ASSUME NEW row \in TaskRow
  PROVE  /\ Queued(row) \in TaskRow
         /\ [Queued(row) EXCEPT !.delegation = "received"] \in TaskRow
         /\ CancelledRow(row) \in TaskRow
         /\ Ended(row, "succeeded", "none") \in TaskRow
  BY DEF TaskRow, TaskStatus, Reason, Queued, CancelledRow, Ended

\* So do the pauses of recovery, of finish and of delegation (store.js:239, 290, 298).
LEMMA PausedRows ==
  ASSUME NEW row \in TaskRow, NEW reason \in Reason \ {"none"}
  PROVE  /\ Waiting(row, reason) \in TaskRow
         /\ [Waiting(row, reason) EXCEPT !.delegation = "pending"] \in TaskRow
         /\ Ended(row, "waiting", reason) \in TaskRow
  BY DEF TaskRow, TaskStatus, Reason, Waiting, Ended

\* So does the creation of a Task (store.js:28-46).
LEMMA NewTaskRow ==
  ASSUME NEW row \in TaskRow, row.status = "absent", NEW v \in Version,
         NEW d \in {"none", "child"}
  PROVE  [row EXCEPT !.status = "queued", !.version = v, !.delegation = d] \in TaskRow
  BY DEF TaskRow, TaskStatus, Reason

\* So does a claim (store.js:244-254).
LEMMA RunningRow ==
  ASSUME NEW row \in TaskRow, row.status = "queued", NEW g \in Nat
  PROVE  [row EXCEPT !.status = "running", !.token = g] \in TaskRow
  BY DEF TaskRow, TaskStatus, Reason

\* A call that exists keeps a well-formed row when its status changes.
LEMMA CallRows ==
  ASSUME NEW row \in CallRow, row.status # "absent", NEW status \in CallStatus \ {"absent"}
  PROVE  [row EXCEPT !.status = status] \in CallRow
  BY DEF CallRow, CallStatus

\* Recovery keeps the rows of calls well formed (store.js:234-235).
LEMMA RecoveredRows ==
  ASSUME NEW row \in CallRow
  PROVE  RecoveredCall(row) \in CallRow
  BY DEF CallRow, CallStatus, RecoveredCall

\* Every event that is appended keeps the view of the log well formed: an answer is
\* never recorded for a wait that was not registered.
LEMMA LogViews ==
  ASSUME NEW view \in LogView
  PROVE  /\ [view EXCEPT !.last = "other"] \in LogView
         /\ Pausing(view) \in LogView
         /\ \A n \in 1..view.waits : [view EXCEPT !.last = "other", !.served = n] \in LogView
         /\ Registering(view) \in LogView
<1> DEFINE View == [last : {"result_wait", "other"}, waits : Nat, served : Nat,
                    pause : {"result_wait", "other"}]
<1>0. view \in View /\ view.served <= view.waits
  BY DEF LogView
<1>1. [view EXCEPT !.last = "other"] \in LogView /\ Pausing(view) \in LogView
  BY DEF LogView, Pausing
<1>2. ASSUME NEW n \in Nat, n <= view.waits
      PROVE  [view EXCEPT !.last = "other", !.served = n] \in LogView
  <2> DEFINE next == [view EXCEPT !.last = "other", !.served = n]
  <2>1. next \in View
    BY <1>0
  <2>2. next.served <= next.waits
    BY <1>0, <1>2
  <2> QED
    BY <2>1, <2>2 DEF LogView
<1>3. ASSUME NEW m \in Nat, m = view.waits + 1
      PROVE  [view EXCEPT !.last = "result_wait", !.waits = m, !.pause = "result_wait"]
               \in LogView
  <2> DEFINE next == [view EXCEPT !.last = "result_wait", !.waits = m, !.pause = "result_wait"]
  <2>1. next \in View
    BY <1>0
  <2>2. next.served <= next.waits
    BY <1>0, <1>3
  <2> QED
    BY <2>1, <2>2 DEF LogView
<1> HIDE DEF View
<1>4. /\ view.waits + 1 \in Nat
      /\ \A n \in 1..view.waits : n \in Nat /\ n <= view.waits
  BY <1>0 DEF View
<1>5. Registering(view) \in LogView
  BY <1>3, <1>4 DEF Registering
<1>6. QED
  BY <1>1, <1>2, <1>4, <1>5

\* The executor object of a process stays well formed wherever the process goes.
LEMMA ProcRows ==
  ASSUME NEW row \in ProcRow
  PROVE  /\ [row EXCEPT !.step = "idle", !.task = 0, !.call = 0] \in ProcRow
         /\ Off \in ProcRow
         /\ \A phase \in Phase : [row EXCEPT !.phase = phase] \in ProcRow
         /\ \A phase \in Phase : [Off EXCEPT !.phase = phase] \in ProcRow
  BY DEF ProcRow, Phase, Step, Off

\* So does it while the process acquires the lock (store.js:208-219).
LEMMA AcquiringRows ==
  ASSUME NEW row \in ProcRow, NEW phase \in Phase, NEW g \in Nat
  PROVE  /\ [row EXCEPT !.phase = phase, !.generation = g] \in ProcRow
         /\ [row EXCEPT !.phase = phase, !.former = 0] \in ProcRow
         /\ [Off EXCEPT !.phase = phase, !.former = g] \in ProcRow
         /\ [Off EXCEPT !.phase = phase, !.generation = g] \in ProcRow
  BY DEF ProcRow, Phase, Step, Off

\* And while it works on a Task (runtime.js:157-334).
LEMMA WorkingRows ==
  ASSUME NEW row \in ProcRow
  PROVE  /\ row.step \notin {"idle", "loop"} =>
              \A step \in Step \ {"idle"} : [row EXCEPT !.step = step] \in ProcRow
         /\ row.step # "idle" => [row EXCEPT !.step = "loop", !.call = 0] \in ProcRow
         /\ \A c \in Call : row.step # "idle" =>
              [row EXCEPT !.step = "prepared", !.call = c] \in ProcRow
         /\ \A t \in Task : [row EXCEPT !.step = "loop", !.task = t] \in ProcRow
<1>1. ASSUME row.step \notin {"idle", "loop"}, NEW step \in Step \ {"idle"}
      PROVE  [row EXCEPT !.step = step] \in ProcRow
  BY <1>1 DEF ProcRow, Step
<1>2. ASSUME row.step # "idle"
      PROVE  [row EXCEPT !.step = "loop", !.call = 0] \in ProcRow
  BY <1>2 DEF ProcRow, Step
<1>3. ASSUME row.step # "idle", NEW c \in Call
      PROVE  [row EXCEPT !.step = "prepared", !.call = c] \in ProcRow
  BY <1>3, Named DEF ProcRow, Step
<1>4. ASSUME NEW t \in Task
      PROVE  [row EXCEPT !.step = "loop", !.task = t] \in ProcRow
  BY <1>4, Named DEF ProcRow, Step
<1>5. QED
  BY <1>1, <1>2, <1>3, <1>4

-----------------------------------------------------------------------------
(* Type correctness *)

\* A fresh database and processes that are off are well formed.
LEMMA TypeInit == Init => TypeOK
<1> SUFFICES ASSUME Init PROVE TypeOK
  OBVIOUS
<1>1. tasks \in [Task -> TaskRow]
  BY DEF Init, TaskRow, TaskStatus, Reason
<1>2. calls \in [Call -> CallRow]
  BY DEF Init, CallRow, CallStatus
<1>3. log \in [Task -> LogView]
  BY DEF Init, LogView
<1>4. proc \in [Process -> ProcRow]
  BY DEF Init, Off, ProcRow, Phase, Step
<1>5. QED
  BY <1>1, <1>2, <1>3, <1>4 DEF Init, TypeOK, OwnershipRow

\* The owner's transitions keep the types (store.js:28-206).
LEMMA TypeOwner ==
  ASSUME TypeOK, Owner
  PROVE  TypeOK'
<1> USE DEF TypeOK
<1>1. ASSUME NEW t \in Task, NEW v \in Version, NEW d \in {"none", "child"}, Create(t, v, d)
      PROVE  TypeOK'
  BY <1>1, NewTaskRow, LogViews DEF Create, Absent, Least, Event
<1>2. ASSUME NEW t \in Task, Cancel(t)
      PROVE  TypeOK'
  BY <1>2, TaskRows, LogViews DEF Cancel, Event
<1>3. ASSUME NEW t \in Task, ReceiveDelegation(t)
      PROVE  TypeOK'
  BY <1>3, TaskRows, LogViews DEF ReceiveDelegation, Event
<1>4. ASSUME NEW t \in Task, NEW k, NEW v, Resume(t, k, v)
      PROVE  TypeOK'
  BY <1>4, TaskRows, LogViews DEF Resume, Event, Receipted
<1>5. ASSUME NEW t \in Task, NEW k, NEW v, ProvideInput(t, k, v)
      PROVE  TypeOK'
  <2>1. inputs' \in [Task -> [Key -> Nat]]
    BY <1>5 DEF ProvideInput
  <2>2. QED
    BY <1>5, <2>1, TaskRows, LogViews DEF ProvideInput, Event, Receipted
<1>6. ASSUME NEW t \in Task, NEW v, SwitchModel(t, v)
      PROVE  TypeOK'
  BY <1>6, LogViews DEF SwitchModel, Event
<1>7. ASSUME NEW t \in Task, NEW n, Wake(t, n)
      PROVE  TypeOK'
  BY <1>7, TaskRows, LogViews DEF Wake, Event
<1>8. ASSUME NEW c \in Call, ResolveCall(c)
      PROVE  TypeOK'
  BY <1>8, CallRows, LogViews DEF ResolveCall, Event, CallStatus
<1>9. ASSUME NEW c \in Call, Perform(c)
      PROVE  TypeOK'
  BY <1>9 DEF Perform
<1>10. ASSUME NEW g, RequestDrain(g)
      PROVE  TypeOK'
  BY <1>10 DEF RequestDrain, Fault, OwnershipRow
<1>11. QED
  BY <1>1, <1>2, <1>3, <1>4, <1>5, <1>6, <1>7, <1>8, <1>9, <1>10 DEF Owner

\* A process that is at work has a Task, and past the head of its loop a call.
LEMMA AtWork ==
  ASSUME TypeOK, NEW p \in Process, proc[p].step # "idle"
  PROVE  /\ proc[p].task \in Task /\ tasks[proc[p].task] \in TaskRow
         /\ log[proc[p].task] \in LogView
         /\ proc[p].step # "loop" => proc[p].call \in Call /\ calls[proc[p].call] \in CallRow
<1>1. proc[p] \in ProcRow
  BY DEF TypeOK
<1>2. proc[p].task \in Task /\ (proc[p].step # "loop" => proc[p].call \in Call)
  BY <1>1 DEF ProcRow
<1>3. QED
  BY <1>2 DEF TypeOK

\* Acquiring, recovering and releasing the executor keep the types (store.js:207-242, 310-311).
LEMMA TypeSession ==
  ASSUME TypeOK, NEW p \in Process, Session(p)
  PROVE  TypeOK'
<1> USE DEF TypeOK
<1>0. proc[p] \in ProcRow
  OBVIOUS
<1>1. ASSUME TryLock(p)
      PROVE  TypeOK'
  BY <1>1, ProcRows DEF TryLock, Phase
<1>2. ASSUME LockTaken(p)
      PROVE  TypeOK'
  BY <1>2, ProcRows DEF LockTaken, Phase
<1>3. ASSUME TakeOwnership(p)
      PROVE  TypeOK'
  <2>1. ownership' \in OwnershipRow
    BY <1>3, <1>0 DEF TakeOwnership, OwnershipRow
  <2>2. proc' \in [Process -> ProcRow]
    BY <1>3, <1>0, <2>1, AcquiringRows DEF TakeOwnership, Phase, OwnershipRow
  <2>3. QED
    BY <1>3, <2>1, <2>2 DEF TakeOwnership
<1>4. ASSUME Recover(p)
      PROVE  TypeOK'
  <2>1. tasks' \in [Task -> TaskRow]
    BY <1>4, <1>0, PausedRows DEF Recover, Reason
  <2>2. calls' \in [Call -> CallRow]
    BY <1>4, RecoveredRows DEF Recover
  <2>3. log' \in [Task -> LogView]
    BY <1>4, <1>0, LogViews DEF Recover
  <2>4. proc' \in [Process -> ProcRow]
    BY <1>4, <1>0, AcquiringRows DEF Recover, Phase
  <2>5. QED
    BY <1>4, <2>1, <2>2, <2>3, <2>4 DEF Recover
<1>5. ASSUME GiveUp(p)
      PROVE  TypeOK'
  BY <1>5, ProcRows DEF GiveUp, Idle
<1>6. ASSUME Retick(p)
      PROVE  TypeOK'
  <2>1. proc[p].generation \in Nat
    BY <1>0 DEF ProcRow
  <2>2. /\ [Off EXCEPT !.phase = "retired"] \in ProcRow
        /\ [Off EXCEPT !.phase = "again", !.former = proc[p].generation] \in ProcRow
    BY <1>0, <2>1, ProcRows, AcquiringRows DEF Phase
  <2>3. proc' \in [Process -> ProcRow]
    BY <1>6, <2>2 DEF Retick
  <2>4. QED
    BY <1>6, <2>3 DEF Retick
<1>7. ASSUME RetireDraining(p)
      PROVE  TypeOK'
  BY <1>7, ProcRows DEF RetireDraining, Release, Phase, OwnershipRow
<1>8. ASSUME Unlock(p)
      PROVE  TypeOK'
  BY <1>8, ProcRows DEF Unlock, Unlocked, Phase
<1>9. ASSUME Replace(p)
      PROVE  TypeOK'
  BY <1>9, ProcRows DEF Replace
<1>10. QED
  BY <1>1, <1>2, <1>3, <1>4, <1>5, <1>6, <1>7, <1>8, <1>9 DEF Session

\* The two sides of a tool invocation keep the types (capabilities/index.js:83-123).
LEMMA TypeTool ==
  ASSUME TypeOK, NEW p \in Process, Tool(p)
  PROVE  TypeOK'
<1> USE DEF TypeOK
<1>0. proc[p] \in ProcRow
  OBVIOUS
<1>1. ASSUME ToolReturns(p)
      PROVE  TypeOK'
  BY <1>1, WorkingRows DEF ToolReturns, GoTo, Step
<1>2. ASSUME ToolRefuses(p)
      PROVE  TypeOK'
  BY <1>2, WorkingRows DEF ToolRefuses, GoTo, Step
<1>3. ASSUME ToolThrows(p)
      PROVE  TypeOK'
  <2>1. proc' \in [Process -> ProcRow]
    <3>1. \A step \in Step \ {"idle"} : GoTo(p, step) \in [Process -> ProcRow]
      BY <1>3, <1>0, WorkingRows DEF ToolThrows, GoTo
    <3>2. QED
      BY <1>3, <3>1 DEF ToolThrows, Step
  <2>2. QED
    BY <1>3, <2>1 DEF ToolThrows
<1>4. QED
  BY <1>1, <1>2, <1>3 DEF Tool

\* Lost sessions, crashes and refused transactions keep the types.
LEMMA TypeMishap ==
  ASSUME TypeOK, NEW p \in Process, Mishap(p)
  PROVE  TypeOK'
<1> USE DEF TypeOK
<1>0. proc[p] \in ProcRow
  OBVIOUS
<1>1. ASSUME LoseSession(p)
      PROVE  TypeOK'
  <2>1. proc' \in [Process -> ProcRow]
    <3>1. proc[p].former \in Nat
      BY <1>0 DEF ProcRow
    <3>2. Unacquired(p) \in ProcRow
      BY <1>0, <3>1, ProcRows, AcquiringRows DEF Unacquired, Phase
    <3>3. /\ [Off EXCEPT !.phase = "retired"] \in ProcRow
          /\ [proc[p] EXCEPT !.phase = "lost"] \in ProcRow
      BY <1>0, ProcRows DEF Phase
    <3>4. QED
      BY <1>1, <3>2, <3>3 DEF LoseSession
  <2>2. QED
    BY <1>1, <2>1 DEF LoseSession, Fault, Unlocked
<1>2. ASSUME Crash(p)
      PROVE  TypeOK'
  <2>1. Off \in ProcRow
    BY <1>0, ProcRows
  <2>2. proc' \in [Process -> ProcRow] /\ lock' \in Process \cup {NoProcess}
    BY <1>2, <2>1 DEF Crash, Unlocked
  <2>3. QED
    BY <1>2, <2>2 DEF Crash, Fault
<1>3. ASSUME Stop(p)
      PROVE  TypeOK'
  <2>1. proc' \in [Process -> ProcRow]
    BY <1>3, <1>0, ProcRows DEF Stop, Release, Phase
  <2>2. ownership' \in OwnershipRow
    BY <1>3, <1>0 DEF Stop, Release, OwnershipRow
  <2>3. QED
    BY <1>3, <2>1, <2>2 DEF Stop, Fault, Release
<1>4. ASSUME StoreRefuses(p)
      PROVE  TypeOK'
  <2>1. proc' \in [Process -> ProcRow]
    BY <1>4, <1>0, ProcRows, WorkingRows DEF StoreRefuses, GoTo, Idle, Step
  <2>2. QED
    BY <1>4, <2>1 DEF StoreRefuses
<1>5. QED
  BY <1>1, <1>2, <1>3, <1>4 DEF Mishap

\* The outer catch of the Task loop keeps the types (runtime.js:329-332).
LEMMA TypeEndsWith ==
  ASSUME TypeOK, NEW p \in Process, NEW reason \in Reason \ {"none"},
         proc[p].step # "idle", EndsWith(p, reason)
  PROVE  TypeOK'
<1>1. /\ proc[p].task \in Task /\ tasks[proc[p].task] \in TaskRow
      /\ log[proc[p].task] \in LogView
  BY AtWork
<1>2. proc' \in [Process -> ProcRow]
  BY ProcRows DEF TypeOK, EndsWith, Idle
<1>3. CASE Active(p)
  <2> DEFINE t == proc[p].task
  <2>0. /\ tasks' = [tasks EXCEPT ![t] = Ended(tasks[t], "waiting", reason)]
        /\ log' = [log EXCEPT ![t] = Pausing(log[t])]
    BY <1>3 DEF EndsWith, PauseEvent
  <2>a. Ended(tasks[t], "waiting", reason) \in TaskRow /\ Pausing(log[t]) \in LogView
    BY <1>1, PausedRows, LogViews
  <2>1. tasks' \in [Task -> TaskRow]
    BY <1>1, <2>0, <2>a DEF TypeOK
  <2>2. log' \in [Task -> LogView]
    BY <1>1, <2>0, <2>a DEF TypeOK
  <2>3. QED
    BY <1>2, <2>1, <2>2 DEF TypeOK, EndsWith
<1>4. CASE ~Active(p)
  BY <1>2, <1>4 DEF TypeOK, EndsWith
<1>5. QED
  BY <1>3, <1>4

\* Every step of the Task loop keeps the types (runtime.js:157-334).
LEMMA TypeWork ==
  ASSUME TypeOK, NEW p \in Process, Work(p)
  PROVE  TypeOK'
<1> USE DEF TypeOK
<1>0. proc[p] \in ProcRow
  OBVIOUS
<1>1. ASSUME NEW t \in Task, Claim(p, t)
      PROVE  TypeOK'
  <2>1. tasks' \in [Task -> TaskRow]
    BY <1>1, <1>0, RunningRow DEF Claim, MayClaim, QueueHead, Least, ProcRow
  <2>2. proc' \in [Process -> ProcRow]
    BY <1>1, <1>0, WorkingRows DEF Claim
  <2>3. QED
    BY <1>1, <2>1, <2>2 DEF Claim
<1>2. ASSUME NEW t \in Task, ClaimMismatch(p, t)
      PROVE  TypeOK'
  BY <1>2, PausedRows, LogViews DEF ClaimMismatch, PauseEvent, Reason
<1>3. ASSUME LoopEnds(p)
      PROVE  TypeOK'
  BY <1>3, ProcRows DEF LoopEnds, Idle
<1>4. ASSUME Dispatch(p)
      PROVE  TypeOK'
  <2>1. proc[p].task \in Task /\ tasks[proc[p].task] \in TaskRow /\ log[proc[p].task] \in LogView
        /\ proc[p].call \in Call /\ calls[proc[p].call] \in CallRow
    BY <1>4, AtWork DEF Dispatch, At
  <2>2. calls' \in [Call -> CallRow]
    BY <1>4, <1>0, <2>1, CallRows DEF Dispatch, CallStatus
  <2>3. log' \in [Task -> LogView]
    BY <1>4, <1>0, <2>1, LogViews DEF Dispatch, Event
  <2>4. proc' \in [Process -> ProcRow]
    BY <1>4, <1>0, <2>1, WorkingRows DEF Dispatch, At, GoTo, Step
  <2>5. QED
    BY <1>4, <2>2, <2>3, <2>4, <2>1 DEF Dispatch, At
<1>5. ASSUME Unadmitted(p)
      PROVE  TypeOK'
  BY <1>5, WorkingRows DEF Unadmitted, At, GoTo, Step
<1>6. ASSUME NEW c \in Call, NEW effect \in {"read", "write"}, Prepare(p, c, effect)
      PROVE  TypeOK'
  <2>1. proc[p].task \in Task /\ tasks[proc[p].task] \in TaskRow /\ log[proc[p].task] \in LogView
    BY <1>6, AtWork DEF Prepare, At
  <2>2. calls' \in [Call -> CallRow]
    BY <1>6, <1>0, <2>1, Named DEF Prepare, CallRow, CallStatus
  <2>3. log' \in [Task -> LogView]
    BY <1>6, <1>0, <2>1, LogViews DEF Prepare, Event
  <2>4. proc' \in [Process -> ProcRow]
    BY <1>6, <1>0, <2>1, WorkingRows DEF Prepare, At
  <2>5. QED
    BY <1>6, <2>2, <2>3, <2>4, <2>1 DEF Prepare, At
<1>7. ASSUME Settle(p)
      PROVE  TypeOK'
  <2>1. proc[p].task \in Task /\ tasks[proc[p].task] \in TaskRow /\ log[proc[p].task] \in LogView
        /\ proc[p].call \in Call /\ calls[proc[p].call] \in CallRow
    BY <1>7, AtWork DEF Settle, Settles
  <2>2. calls' \in [Call -> CallRow]
    BY <1>7, <1>0, <2>1, CallRows DEF Settle, Settles, SettledAs, CallStatus
  <2>3. log' \in [Task -> LogView]
    BY <1>7, <1>0, <2>1, LogViews DEF Settle, Event
  <2>4. proc' \in [Process -> ProcRow]
    BY <1>7, <1>0, <2>1, WorkingRows DEF Settle, Settles, GoTo, Step
  <2>5. QED
    BY <1>7, <2>2, <2>3, <2>4, <2>1 DEF Settle, Settles
<1>8. ASSUME SettleWait(p)
      PROVE  TypeOK'
  <2>1. proc[p].task \in Task /\ tasks[proc[p].task] \in TaskRow /\ log[proc[p].task] \in LogView
        /\ proc[p].call \in Call /\ calls[proc[p].call] \in CallRow
    BY <1>8, AtWork DEF SettleWait, Settles
  <2>2. tasks' \in [Task -> TaskRow]
    BY <1>8, <1>0, <2>1, PausedRows DEF SettleWait, Reason
  <2>3. calls' \in [Call -> CallRow]
    BY <1>8, <1>0, <2>1, CallRows DEF SettleWait, Settles, SettledAs, CallStatus
  <2>4. log' \in [Task -> LogView]
    BY <1>8, <1>0, <2>1, LogViews DEF SettleWait
  <2>5. proc' \in [Process -> ProcRow]
    BY <1>8, <1>0, <2>1, ProcRows DEF SettleWait, Idle
  <2>6. QED
    BY <1>8, <2>2, <2>3, <2>4, <2>5, <2>1 DEF SettleWait, Settles
<1>9. ASSUME Abort(p)
      PROVE  TypeOK'
  BY <1>9, TypeEndsWith DEF Abort, At, Reason
<1>10. ASSUME AwaitReconciliation(p)
      PROVE  TypeOK'
  BY <1>10, TypeEndsWith DEF AwaitReconciliation, At, Reason
<1>11. ASSUME NEW reason \in {"input", "interrupted", "restart"}, FinishWaiting(p, reason)
      PROVE  TypeOK'
  BY <1>11, TypeEndsWith DEF FinishWaiting, At, Reason
<1>12. ASSUME FinishSucceeded(p)
      PROVE  TypeOK'
  <2>1. proc[p].task \in Task /\ tasks[proc[p].task] \in TaskRow /\ log[proc[p].task] \in LogView
    BY <1>12, AtWork DEF FinishSucceeded, At
  <2>2. tasks' \in [Task -> TaskRow]
    BY <1>12, <1>0, <2>1, TaskRows DEF FinishSucceeded
  <2>3. log' \in [Task -> LogView]
    BY <1>12, <1>0, <2>1, LogViews DEF FinishSucceeded, Event
  <2>4. proc' \in [Process -> ProcRow]
    BY <1>12, <1>0, <2>1, ProcRows DEF FinishSucceeded, Idle
  <2>5. QED
    BY <1>12, <2>2, <2>3, <2>4, <2>1 DEF FinishSucceeded, At
<1>13. ASSUME Delegate(p)
      PROVE  TypeOK'
  <2>1. proc[p].task \in Task /\ tasks[proc[p].task] \in TaskRow /\ log[proc[p].task] \in LogView
    BY <1>13, AtWork DEF Delegate, At
  <2>2. tasks' \in [Task -> TaskRow]
    BY <1>13, <1>0, <2>1, PausedRows DEF Delegate, Reason
  <2>3. log' \in [Task -> LogView]
    BY <1>13, <1>0, <2>1, LogViews DEF Delegate, PauseEvent
  <2>4. proc' \in [Process -> ProcRow]
    BY <1>13, <1>0, <2>1, ProcRows DEF Delegate, Idle
  <2>5. QED
    BY <1>13, <2>2, <2>3, <2>4, <2>1 DEF Delegate, At
<1>14. QED
  BY <1>1, <1>2, <1>3, <1>4, <1>5, <1>6, <1>7, <1>8, <1>9, <1>10, <1>11, <1>12, <1>13 DEF Work

\* Every row of every table stays well formed, whoever acts and whatever fails.
THEOREM TypeCorrect == Spec => []TypeOK
<1>1. TypeOK /\ [Next]_vars => TypeOK'
  <2>1. CASE UNCHANGED vars
    BY <2>1 DEF TypeOK, vars
  <2>2. QED
    BY <2>1, TypeOwner, TypeSession, TypeTool, TypeWork, TypeMishap DEF Next
<1>2. QED
  BY TypeInit, <1>1, PTL DEF Spec

-----------------------------------------------------------------------------
(* One live session owns the executor *)

\* What a session holds: neither the lock, nor the ownership row, nor any
\* process's phase or generation changes.
SameSessions ==
  /\ UNCHANGED <<lock, ownership>>
  /\ \A q \in Process : /\ proc'[q].phase = proc[q].phase
                        /\ proc'[q].generation = proc[q].generation

\* A step that keeps lock, ownership and sessions keeps who owns.
LEMMA SessionFrame == LiveSessionOwns /\ SameSessions => LiveSessionOwns'
  BY DEF LiveSessionOwns, SameSessions, Owns

\* Work and tools move a process's step, Task and call, never its session.
LEMMA WorkFrame ==
  ASSUME TypeOK, NEW p \in Process, Work(p) \/ Tool(p)
  PROVE  SameSessions
<1>0. proc \in [Process -> ProcRow]
  BY DEF TypeOK
<1> USE DEF SameSessions, ProcRow
<1> DEFINE Same == \A q \in Process : /\ proc'[q].phase = proc[q].phase
                                      /\ proc'[q].generation = proc[q].generation
<1>r. ASSUME NEW row, row.phase = proc[p].phase, row.generation = proc[p].generation,
             proc' = [proc EXCEPT ![p] = row]
      PROVE  Same
  BY <1>0, <1>r
<1>a. ASSUME NEW step, proc' = GoTo(p, step) PROVE Same
  BY <1>0, <1>a DEF GoTo
<1>b. ASSUME proc' = Idle(p) PROVE Same
  <2> DEFINE row == [proc[p] EXCEPT !.step = "idle", !.task = 0, !.call = 0]
  <2>1. row.phase = proc[p].phase /\ row.generation = proc[p].generation
    BY <1>0
  <2>2. proc' = [proc EXCEPT ![p] = row]
    BY <1>b DEF Idle
  <2> QED
    BY <1>r, <2>1, <2>2
<1>c. ASSUME NEW t, proc' = [proc EXCEPT ![p] = [@ EXCEPT !.step = "loop", !.task = t]]
      PROVE  Same
  BY <1>0, <1>c
<1>d. ASSUME NEW step, NEW c, proc' = [proc EXCEPT ![p] = [@ EXCEPT !.step = step, !.call = c]]
      PROVE  Same
  <2> DEFINE row == [proc[p] EXCEPT !.step = step, !.call = c]
  <2>1. row.phase = proc[p].phase /\ row.generation = proc[p].generation
    BY <1>0
  <2>2. proc' = [proc EXCEPT ![p] = row]
    BY <1>d
  <2> QED
    BY <1>r, <2>1, <2>2
<1>e. UNCHANGED proc => Same
  OBVIOUS
<1>1. ASSUME NEW t \in Task, Claim(p, t) \/ ClaimMismatch(p, t)
      PROVE  SameSessions
  BY <1>a, <1>b, <1>c, <1>d, <1>e, <1>1 DEF Claim, ClaimMismatch
<1>2. ASSUME LoopEnds(p) \/ Dispatch(p) \/ Unadmitted(p)
      PROVE  SameSessions
  BY <1>a, <1>b, <1>c, <1>d, <1>e, <1>2 DEF LoopEnds, Dispatch, Unadmitted
<1>3. ASSUME NEW c \in Call, NEW effect \in {"read", "write"}, Prepare(p, c, effect)
      PROVE  SameSessions
  BY <1>a, <1>b, <1>c, <1>d, <1>e, <1>3 DEF Prepare
<1>4. ASSUME Settle(p) \/ SettleWait(p)
      PROVE  SameSessions
  BY <1>a, <1>b, <1>c, <1>d, <1>e, <1>4 DEF Settle, SettleWait
<1>5. ASSUME NEW reason, EndsWith(p, reason)
      PROVE  SameSessions
  BY <1>a, <1>b, <1>c, <1>d, <1>e, <1>5 DEF EndsWith
<1>6. ASSUME FinishSucceeded(p) \/ Delegate(p)
      PROVE  SameSessions
  BY <1>a, <1>b, <1>c, <1>d, <1>e, <1>6 DEF FinishSucceeded, Delegate
<1>7. ASSUME Tool(p)
      PROVE  SameSessions
  BY <1>a, <1>b, <1>c, <1>d, <1>e, <1>7 DEF Tool, ToolReturns, ToolRefuses, ToolThrows
<1>8. QED
  BY <1>1, <1>2, <1>3, <1>4, <1>5, <1>6, <1>7 DEF Work, Abort, AwaitReconciliation, FinishWaiting

\* The owner's transitions touch neither the lock nor a session.
LEMMA OwnerFrame == ASSUME Owner PROVE LiveSessionOwns => LiveSessionOwns'
<1>1. ASSUME NEW g, RequestDrain(g)
      PROVE  LiveSessionOwns => LiveSessionOwns'
  BY <1>1 DEF RequestDrain, LiveSessionOwns, Owns
<1>2. ASSUME UNCHANGED <<lock, ownership, proc>>
      PROVE  LiveSessionOwns => LiveSessionOwns'
  BY <1>2 DEF LiveSessionOwns, Owns
<1>3. QED
  BY <1>1, <1>2 DEF Owner, Create, Cancel, ReceiveDelegation, Resume, ProvideInput,
     SwitchModel, Wake, ResolveCall, Perform

\* What acquires, loses or releases a session keeps live sessions the owners.
LEMMA SessionStep ==
  ASSUME TypeOK, LiveSessionOwns, NEW p \in Process, Session(p) \/ Mishap(p)
  PROVE  LiveSessionOwns'
<1>0. proc \in [Process -> ProcRow] /\ ownership \in OwnershipRow
  BY DEF TypeOK
<1> USE DEF LiveSessionOwns, Owns, ProcRow, OwnershipRow
<1>1. ASSUME TryLock(p) \/ LockTaken(p)
      PROVE  LiveSessionOwns'
  BY <1>0, <1>1 DEF TryLock, LockTaken, LockFree, Off
<1>2. ASSUME TakeOwnership(p)
      PROVE  LiveSessionOwns'
  BY <1>0, <1>2 DEF TakeOwnership
<1>3. ASSUME Recover(p)
      PROVE  LiveSessionOwns'
  BY <1>0, <1>3 DEF Recover
<1>4. ASSUME GiveUp(p) \/ Retick(p)
      PROVE  LiveSessionOwns'
  <2>1. CASE GiveUp(p)
    BY <1>0, <2>1 DEF GiveUp, Idle
  <2>2. CASE Retick(p)
    <3> DEFINE retired == [Off EXCEPT !.phase = "retired"]
               again == [Off EXCEPT !.phase = "again", !.former = proc[p].generation]
    <3>1. retired.phase = "retired" /\ again.phase = "again"
      BY DEF Off
    <3>2. /\ UNCHANGED <<lock, ownership>>
          /\ proc' = [proc EXCEPT ![p] = retired] \/ proc' = [proc EXCEPT ![p] = again]
      BY <2>2 DEF Retick
    <3> HIDE DEF retired, again
    <3>3. /\ proc'[p] = retired \/ proc'[p] = again
          /\ \A q \in Process \ {p} : proc'[q] = proc[q]
      BY <1>0, <3>2
    <3>4. QED
      BY <3>1, <3>2, <3>3
  <2>3. QED
    BY <1>4, <2>1, <2>2
<1>5. ASSUME Release(p) /\ UNCHANGED lock
      PROVE  LiveSessionOwns'
  BY <1>0, <1>5 DEF Release, At, InSession
<1>6. ASSUME Unlock(p) \/ Replace(p)
      PROVE  LiveSessionOwns'
  BY <1>0, <1>6 DEF Unlock, Unlocked, Replace, Off
<1>7. ASSUME LoseSession(p)
      PROVE  LiveSessionOwns'
  BY <1>0, <1>7 DEF LoseSession, Unlocked, Unacquired, Off
<1>8. ASSUME Crash(p)
      PROVE  LiveSessionOwns'
  BY <1>0, <1>8 DEF Crash, Unlocked, Off
<1>9. ASSUME StoreRefuses(p)
      PROVE  LiveSessionOwns'
  BY <1>0, <1>9 DEF StoreRefuses, GoTo, Idle
<1>10. QED
  BY <1>1, <1>2, <1>3, <1>4, <1>5, <1>6, <1>7, <1>8, <1>9 DEF Session, Mishap, RetireDraining, Stop, Release

\* While a session lives its process holds the advisory lock and the ownership row
\* names its generation: takeovers, drains, lost sessions and crashes never leave
\* two executors, and never fence a live one.
THEOREM SessionsOwn == Spec => []LiveSessionOwns
<1>1. Init => LiveSessionOwns
  BY DEF Init, LiveSessionOwns, Off
<1>2. TypeOK /\ LiveSessionOwns /\ [Next]_vars => LiveSessionOwns'
  <2>1. CASE UNCHANGED vars
    BY <2>1 DEF LiveSessionOwns, Owns, vars
  <2>2. QED
    BY <2>1, OwnerFrame, SessionFrame, WorkFrame, SessionStep DEF Next
<1>3. QED
  BY TypeCorrect, <1>1, <1>2, PTL DEF Spec

-----------------------------------------------------------------------------
(* A request is served once *)

\* A text that was delivered under a key has left its receipt, and was delivered once.
InputReceipted ==
  \A t \in Task, k \in Key : inputs[t][k] <= 1 /\ (inputs[t][k] # 0 => k \in receipts[t])

\* Only a clarification whose key has no receipt delivers a text, and it leaves the
\* receipt in the same transaction (store.js:104-140).
LEMMA InputStep ==
  ASSUME TypeOK, InputReceipted, [Next]_vars
  PROVE  InputReceipted'
<1>0. inputs \in [Task -> [Key -> Nat]] /\ receipts \in [Task -> SUBSET Key]
  BY DEF TypeOK
<1>1. ASSUME NEW t \in Task, NEW k \in Key \cup {NoKey}, NEW v, ProvideInput(t, k, v)
      PROVE  InputReceipted'
  <2>1. /\ k \notin receipts[t]
        /\ inputs' = [inputs EXCEPT ![t] = [x \in Key |-> IF x = k THEN @[x] + 1 ELSE @[x]]]
        /\ receipts' = [receipts EXCEPT ![t] = @ \cup ({k} \cap Key)]
    BY <1>1 DEF ProvideInput, NewRequest, Receipted
  <2>2. QED
    BY <1>0, <2>1 DEF InputReceipted
<1>2. ASSUME NEW t \in Task, NEW k, NEW v, Resume(t, k, v)
      PROVE  InputReceipted'
  BY <1>0, <1>2 DEF Resume, Receipted, InputReceipted
<1>3. ASSUME UNCHANGED <<inputs, receipts>>
      PROVE  InputReceipted'
  BY <1>3 DEF InputReceipted
<1>4. ASSUME Owner
      PROVE  InputReceipted'
  BY <1>1, <1>2, <1>3, <1>4 DEF Owner, Create, Cancel, ReceiveDelegation, SwitchModel, Wake,
     ResolveCall, Perform, RequestDrain
<1>5. ASSUME NEW p \in Process, Session(p) \/ Mishap(p)
      PROVE  InputReceipted'
  BY <1>3, <1>5 DEF Session, Mishap, TryLock, LockTaken, TakeOwnership, Recover, GiveUp, Retick,
     RetireDraining, Stop, Release, Unlock, Replace, LoseSession, Crash, StoreRefuses
<1>6. ASSUME NEW p \in Process, Tool(p) \/ Work(p)
      PROVE  InputReceipted'
  BY <1>3, <1>6 DEF Tool, Work, ToolReturns, ToolRefuses, ToolThrows, Claim, ClaimMismatch, LoopEnds,
     Dispatch, Unadmitted, Prepare, Settle, SettleWait, Abort, AwaitReconciliation, FinishWaiting,
     EndsWith, FinishSucceeded, Delegate
<1>7. QED
  BY <1>3, <1>4, <1>5, <1>6 DEF Next, vars

\* However often a request is repeated, its text reaches the Task at most once.
THEOREM InputsOnce == Spec => []InputDeliveredOnce
<1>1. Init => InputReceipted
  BY DEF Init, InputReceipted
<1>2. InputReceipted => InputDeliveredOnce
  BY DEF InputReceipted, InputDeliveredOnce
<1>3. QED
  BY TypeCorrect, InputStep, <1>1, <1>2, PTL DEF Spec

-----------------------------------------------------------------------------
(* An observer ends its own wait *)

\* While a result_wait ends the log, it is what the Task pauses for.
WaitIsPause == \A t \in Task : log[t].last = "result_wait" => log[t].pause = "result_wait"

\* An event other than result_ready answers no wait, and only a result_wait makes
\* the log end with one.
Appends(t) ==
  \/ log'[t] = log[t]
  \/ /\ log'[t].served = log[t].served
     /\ log'[t].last = "other" \/ log'[t].pause = "result_wait"

LEMMA AppendedViews ==
  ASSUME NEW view \in LogView
  PROVE  /\ LET next == [view EXCEPT !.last = "other"]
            IN  next.served = view.served /\ next.last = "other"
         /\ Pausing(view).served = view.served /\ Pausing(view).last = "other"
         /\ Registering(view).served = view.served /\ Registering(view).pause = "result_wait"
         /\ \A n : [view EXCEPT !.last = "other", !.served = n].last = "other"
  BY DEF LogView, Pausing, Registering

\* Every step but an observer's appends to the log in this way.
LEMMA LogStep ==
  ASSUME TypeOK, [Next]_vars, ~(\E t \in Task, n \in 1..MaxCalls : Wake(t, n))
  PROVE  \A t \in Task : Appends(t)
<1>0. log \in [Task -> LogView]
  BY DEF TypeOK
<1>1. ASSUME UNCHANGED log
      PROVE  \A t \in Task : Appends(t)
  BY <1>1 DEF Appends
<1>2. ASSUME NEW u \in Task, NEW view, log' = [log EXCEPT ![u] = view],
             view.served = log[u].served, view.last = "other" \/ view.pause = "result_wait"
      PROVE  \A t \in Task : Appends(t)
  BY <1>0, <1>2 DEF Appends
<1>3. ASSUME NEW u \in Task,
             log' = Event(u) \/ log' = PauseEvent(u) \/ log' = [log EXCEPT ![u] = Registering(@)]
      PROVE  \A t \in Task : Appends(t)
  <2> DEFINE moved == [log[u] EXCEPT !.last = "other"]
  <2>1. moved.served = log[u].served /\ moved.last = "other"
    BY <1>0, AppendedViews
  <2>2. \/ log' = [log EXCEPT ![u] = moved]
        \/ log' = [log EXCEPT ![u] = Pausing(log[u])]
        \/ log' = [log EXCEPT ![u] = Registering(log[u])]
    BY <1>3 DEF Event, PauseEvent
  <2> HIDE DEF moved
  <2>3. QED
    BY <1>0, <1>2, <2>1, <2>2, AppendedViews
<1>4. ASSUME NEW p \in Process, Recover(p)
      PROVE  \A t \in Task : Appends(t)
  BY <1>0, <1>4, AppendedViews DEF Recover, Appends
<1>5. ASSUME Owner
      PROVE  \A t \in Task : Appends(t)
  <2>1. ASSUME NEW c \in Call, ResolveCall(c)
        PROVE  calls[c].task \in Task
    BY <2>1 DEF ResolveCall, TypeOK, CallRow
  <2>2. QED
    BY <1>1, <1>3, <1>5, <2>1 DEF Owner, Create, Cancel, ReceiveDelegation, Resume, ProvideInput,
       SwitchModel, ResolveCall, Perform, RequestDrain
<1>6. ASSUME NEW p \in Process, Session(p) \/ Mishap(p)
      PROVE  \A t \in Task : Appends(t)
  BY <1>1, <1>4, <1>6 DEF Session, Mishap, TryLock, LockTaken, TakeOwnership, GiveUp, Retick,
     RetireDraining, Stop, Release, Unlock, Replace, LoseSession, Crash, StoreRefuses
<1>7. ASSUME NEW p \in Process, Tool(p) \/ Work(p)
      PROVE  \A t \in Task : Appends(t)
  <2>1. proc[p].step # "idle" => proc[p].task \in Task
    BY AtWork
  <2>2. ASSUME NEW reason, EndsWith(p, reason), proc[p].step # "idle"
        PROVE  \A t \in Task : Appends(t)
    BY <1>1, <1>3, <2>1, <2>2 DEF EndsWith
  <2>3. CASE Tool(p)
    BY <1>1, <2>3 DEF Tool, ToolReturns, ToolRefuses, ToolThrows
  <2>4. ASSUME NEW t \in Task, Claim(p, t) \/ ClaimMismatch(p, t)
        PROVE  \A u \in Task : Appends(u)
    BY <1>1, <1>3, <2>4 DEF Claim, ClaimMismatch
  <2>5. ASSUME NEW c \in Call, NEW effect, Prepare(p, c, effect)
        PROVE  \A u \in Task : Appends(u)
    BY <1>3, <2>1, <2>5 DEF Prepare, At
  <2>6. CASE LoopEnds(p) \/ Dispatch(p) \/ Unadmitted(p) \/ Settle(p) \/ SettleWait(p)
             \/ FinishSucceeded(p) \/ Delegate(p)
    BY <1>1, <1>3, <2>1, <2>6 DEF LoopEnds, Dispatch, Unadmitted, Settle, SettleWait, Settles,
       FinishSucceeded, Delegate, At
  <2>7. QED
    BY <1>7, <2>2, <2>3, <2>4, <2>5, <2>6 DEF Work, Abort, AwaitReconciliation, FinishWaiting, At
<1>8. QED
  BY <1>1, <1>5, <1>6, <1>7 DEF Next, vars

\* An observation that comes late, twice, or for a wait that is over wakes nobody:
\* what it ends is the wait it observed, with no call unresolved.
THEOREM WaitsAnswered == Spec => OwnEvidenceEndsWait
<1> DEFINE Own == \A t \in Task : log'[t].served # log[t].served =>
                    /\ tasks[t].status = "waiting" /\ log[t].pause = "result_wait"
                    /\ log'[t].served = log[t].waits
                    /\ ~HasCall(t, Unresolved)
<1>1. Init => WaitIsPause
  BY DEF Init, WaitIsPause
<1>2. TypeOK /\ WaitIsPause /\ [Next]_vars => WaitIsPause' /\ Own
  <2> SUFFICES ASSUME TypeOK, WaitIsPause, [Next]_vars
               PROVE  WaitIsPause' /\ Own
    OBVIOUS
  <2>0. log \in [Task -> LogView]
    BY DEF TypeOK
  <2>1. ASSUME NEW u \in Task, NEW n \in 1..MaxCalls, Wake(u, n)
        PROVE  WaitIsPause' /\ Own
    <3> DEFINE view == [log[u] EXCEPT !.last = "other", !.served = n]
    <3>1. view.last = "other" /\ view.served = n
      BY <2>0 DEF LogView
    <3>2. log' = [log EXCEPT ![u] = view]
      BY <2>1 DEF Wake
    <3> HIDE DEF view
    <3>3. /\ log'[u].last = "other" /\ log'[u].served = n
          /\ \A t \in Task \ {u} : log'[t] = log[t]
      BY <2>0, <3>1, <3>2
    <3>4. /\ tasks[u].status = "waiting" /\ log[u].last = "result_wait" /\ log[u].waits = n
          /\ ~HasCall(u, Unresolved)
      BY <2>1 DEF Wake, SameWait
    <3>5. QED
      BY <3>3, <3>4 DEF WaitIsPause
  <2>2. CASE ~(\E t \in Task, n \in 1..MaxCalls : Wake(t, n))
    <3>1. \A t \in Task : Appends(t)
      BY <2>2, LogStep
    <3>2. QED
      BY <3>1 DEF Appends, WaitIsPause
  <2>3. QED
    BY <2>1, <2>2
<1>3. Own => [Own]_vars
  OBVIOUS
<1> HIDE DEF Own
<1>4. Spec => [][Own]_vars
  BY TypeCorrect, <1>1, <1>2, <1>3, PTL DEF Spec
<1>5. QED
  BY <1>4 DEF OwnEvidenceEndsWait, Own
-----------------------------------------------------------------------------
(* Effects: what is in doubt stays in doubt, and the promise to callers *)

\* What a process knows of the call in its hand: it belongs to its Task, was
\* dispatched before it came back, was performed if it came back with a result,
\* and is not on its way any more if the tool was not entered.
InCourse ==
  \A p \in Process : proc[p].step \notin {"idle", "loop"} =>
    /\ calls[proc[p].call].task = proc[p].task
    /\ proc[p].step \in {"dispatched", "returned", "refused", "uncertain"} =>
         calls[proc[p].call].status \notin {"absent", "prepared"}
    /\ proc[p].step = "returned" => proc[p].call \in performed
    /\ proc[p].step = "refused" => proc[p].call \notin outbound

\* A call belongs to a Task that was created.
Created == \A c \in Call : calls[c].task # 0 => tasks[calls[c].task].status # "absent"

EffectInv == TypeOK /\ InCourse /\ EffectsAccounted /\ NoWorkOnDoubt /\ Created

\* A fresh database has no calls and nothing on its way.
LEMMA EffectInit == Init => EffectInv
  BY TypeInit
  DEF Init, EffectInv, InCourse, EffectsAccounted, NoWorkOnDoubt, Created, HasCall, Off,
      Uncertain, Unresolved

-----------------------------------------------------------------------------
(* What steps of a kind have in common *)

\* A process keeps its call in hand, lays it down, or gives it up; a settle that
\* is refused after a result is tried again as a failure.
Keeps(q) ==
  \/ proc'[q].step \in {"idle", "loop"}
  \/ /\ proc'[q].task = proc[q].task /\ proc'[q].call = proc[q].call
     /\ proc[q].step \notin {"idle", "loop"}
     /\ \/ proc'[q].step = proc[q].step
        \/ proc'[q].step \in {"abort", "doubtful"}
        \/ proc[q].step = "returned" /\ proc'[q].step = "refused"

\* Only what the processes hold changes.
QuietEffects == UNCHANGED <<calls, outbound, performed>> /\ \A q \in Process : Keeps(q)

\* Such a step keeps calls in course and effects accounted for.
LEMMA QuietFrame ==
  ASSUME TypeOK, InCourse, EffectsAccounted, QuietEffects
  PROVE  InCourse' /\ EffectsAccounted'
<1>1. EffectsAccounted'
  BY DEF EffectsAccounted, QuietEffects
<1>2. ASSUME NEW q \in Process, proc'[q].step \notin {"idle", "loop"}
      PROVE  /\ calls'[proc'[q].call].task = proc'[q].task
             /\ proc'[q].step \in {"dispatched", "returned", "refused", "uncertain"} =>
                  calls'[proc'[q].call].status \notin {"absent", "prepared"}
             /\ proc'[q].step = "returned" => proc'[q].call \in performed'
             /\ proc'[q].step = "refused" => proc'[q].call \notin outbound'
  <2>1. /\ proc'[q].task = proc[q].task /\ proc'[q].call = proc[q].call
        /\ proc[q].step \notin {"idle", "loop"}
        /\ \/ proc'[q].step = proc[q].step
           \/ proc'[q].step \in {"abort", "doubtful"}
           \/ proc[q].step = "returned" /\ proc'[q].step = "refused"
    BY <1>2 DEF QuietEffects, Keeps
  <2>2. proc[q].step = "returned" => proc[q].call \notin outbound
    BY DEF InCourse, EffectsAccounted
  <2>3. QED
    BY <2>1, <2>2 DEF InCourse, QuietEffects
<1>3. QED
  BY <1>1, <1>2 DEF InCourse

\* A Task keeps its place, leaves the queue, enters it with no call in doubt, or
\* succeeds with no call unresolved.
Proceeds(t) ==
  \/ tasks'[t].status = tasks[t].status
  \/ tasks'[t].status \in {"running", "waiting", "cancelled"}
  \/ tasks'[t].status = "queued" /\ (tasks[t].status = "absent" \/ ~HasCall(t, Uncertain))
  \/ tasks'[t].status = "succeeded" /\ ~HasCall(t, Unresolved)

\* Such a step lets no Task go on in doubt, as long as no call changes.
LEMMA ProceedsFrame ==
  ASSUME TypeOK, NoWorkOnDoubt, Created, UNCHANGED calls, \A t \in Task : Proceeds(t)
  PROVE  NoWorkOnDoubt' /\ Created'
<1>1. ASSUME NEW t \in Task
      PROVE  /\ tasks'[t].status = "queued" => ~HasCall(t, Uncertain)'
             /\ tasks'[t].status = "succeeded" => ~HasCall(t, Unresolved)'
  <2>1. tasks[t].status = "absent" => ~HasCall(t, Uncertain)
    BY Named DEF Created, HasCall
  <2>2. QED
    BY <2>1 DEF NoWorkOnDoubt, Proceeds, HasCall, Uncertain, Unresolved
<1>2. ASSUME NEW c \in Call, calls'[c].task # 0
      PROVE  tasks'[calls'[c].task].status # "absent"
  <2>1. calls[c].task \in Task /\ tasks[calls[c].task].status # "absent"
    BY <1>2 DEF Created, TypeOK, CallRow
  <2>2. QED
    BY <2>1 DEF Proceeds
<1>3. QED
  BY <1>1, <1>2 DEF NoWorkOnDoubt, Created

\* A step that sends, performs and records nothing keeps the invariant.
LEMMA QuietStep ==
  ASSUME EffectInv, TypeOK', QuietEffects, \A t \in Task : Proceeds(t)
  PROVE  EffectInv'
  BY QuietFrame, ProceedsFrame DEF EffectInv, QuietEffects

\* The ways in which a process row changes in such a step.
LEMMA KeepsRows ==
  ASSUME TypeOK, NEW p \in Process, NEW row,
         proc' = [proc EXCEPT ![p] = row],
         \/ row.step \in {"idle", "loop"}
         \/ row.step = proc[p].step /\ row.task = proc[p].task /\ row.call = proc[p].call
  PROVE  \A q \in Process : Keeps(q)
  BY DEF TypeOK, Keeps, ProcRow

\* A call is recorded anew: only that call changes, and only in its status.
Records(c, status) == calls' = [calls EXCEPT ![c] = [@ EXCEPT !.status = status]]

LEMMA RecordedRow ==
  ASSUME TypeOK, NEW c \in Call, NEW status, Records(c, status)
  PROVE  /\ calls'[c].status = status /\ calls'[c].task = calls[c].task
         /\ calls'[c].error = calls[c].error /\ calls'[c].effect = calls[c].effect
         /\ \A d \in Call \ {c} : calls'[d] = calls[d]
  BY DEF TypeOK, CallRow, Records

-----------------------------------------------------------------------------
(* Owners, observers and the world *)

\* Owners create, cancel and requeue Tasks, and never send (store.js:28-206).
LEMMA EffectOwner ==
  ASSUME EffectInv, Owner
  PROVE  EffectInv'
<1>0. TypeOK /\ TypeOK'
  BY TypeOwner DEF EffectInv
<1>t. \A t \in Task : tasks[t] \in TaskRow
  BY <1>0 DEF TypeOK
<1>q. ASSUME UNCHANGED <<calls, outbound, performed, proc>>, \A t \in Task : Proceeds(t)
      PROVE  EffectInv'
  <2>1. \A q \in Process : Keeps(q)
    BY <1>q DEF Keeps
  <2>2. QED
    BY <1>0, <1>q, <2>1, QuietStep DEF QuietEffects
<1>u. ASSUME NEW t \in Task, NEW row, tasks' = [tasks EXCEPT ![t] = row],
             \/ row.status = tasks[t].status \/ row.status = "cancelled"
             \/ row.status = "queued" /\ (tasks[t].status = "absent" \/ ~HasCall(t, Uncertain))
      PROVE  \A u \in Task : Proceeds(u)
  BY <1>0, <1>u DEF TypeOK, Proceeds
<1>1. ASSUME NEW t \in Task, NEW v \in Version, NEW d \in {"none", "child"}, Create(t, v, d)
      PROVE  EffectInv'
  <2> DEFINE row == [tasks[t] EXCEPT !.status = "queued", !.version = v, !.delegation = d]
  <2>1. row.status = "queued" /\ tasks[t].status = "absent"
    BY <1>1, <1>t DEF Create, Least, Absent, TaskRow
  <2>2. tasks' = [tasks EXCEPT ![t] = row]
    BY <1>1 DEF Create
  <2> HIDE DEF row
  <2>3. QED
    BY <1>1, <1>q, <1>u, <2>1, <2>2 DEF Create
<1>2. ASSUME NEW t \in Task, Cancel(t)
      PROVE  EffectInv'
  <2>1. CancelledRow(tasks[t]).status = "cancelled"
    BY <1>t DEF CancelledRow, TaskRow
  <2>2. QED
    BY <1>2, <1>q, <1>u, <2>1 DEF Cancel
<1>3. ASSUME NEW t \in Task, ~HasCall(t, Uncertain), UNCHANGED <<calls, outbound, performed, proc>>,
             \/ tasks' = [tasks EXCEPT ![t] = Queued(@)]
             \/ tasks' = [tasks EXCEPT ![t] = [Queued(@) EXCEPT !.delegation = "received"]]
      PROVE  EffectInv'
  <2>1. /\ Queued(tasks[t]).status = "queued"
        /\ [Queued(tasks[t]) EXCEPT !.delegation = "received"].status = "queued"
    BY <1>t DEF Queued, TaskRow
  <2>2. QED
    BY <1>3, <1>q, <1>u, <2>1
<1>4. ASSUME NEW t \in Task, HasCall(t, Uncertain)
      PROVE  HasCall(t, Unresolved)
  BY <1>4 DEF HasCall, Uncertain, Unresolved
<1>5. ASSUME NEW t \in Task, NEW k, NEW v, Resume(t, k, v) \/ ProvideInput(t, k, v)
      PROVE  EffectInv'
  BY <1>5, <1>3 DEF Resume, ProvideInput, MayTransition
<1>6. ASSUME NEW t \in Task, NEW n, Wake(t, n) \/ ReceiveDelegation(t)
      PROVE  EffectInv'
  BY <1>6, <1>3, <1>4 DEF Wake, ReceiveDelegation
<1>7. ASSUME UNCHANGED <<tasks, calls, outbound, performed, proc>>
      PROVE  EffectInv'
  BY <1>7, <1>q DEF Proceeds
<1>8. ASSUME NEW c \in Call, ResolveCall(c)
      PROVE  EffectInv'
  <2>1. /\ Records(c, "succeeded") /\ c \in performed /\ calls[c].status = "unknown"
        /\ UNCHANGED <<tasks, outbound, performed, proc>>
    BY <1>8 DEF ResolveCall, Records
  <2>2. /\ calls'[c].status = "succeeded" /\ calls'[c].task = calls[c].task
        /\ calls'[c].error = calls[c].error
        /\ \A d \in Call \ {c} : calls'[d] = calls[d]
    BY <1>0, <2>1, RecordedRow
  <2>3. InCourse'
    BY <2>1, <2>2, <1>0, AtWork DEF EffectInv, InCourse
  <2>4. EffectsAccounted'
    BY <2>1, <2>2, <1>0 DEF EffectInv, EffectsAccounted, TypeOK, Uncertain
  <2>5. NoWorkOnDoubt' /\ Created'
    BY <2>1, <2>2 DEF EffectInv, NoWorkOnDoubt, Created, HasCall, Uncertain, Unresolved
  <2>6. QED
    BY <1>0, <2>3, <2>4, <2>5 DEF EffectInv
<1>9. ASSUME NEW c \in Call, Perform(c)
      PROVE  EffectInv'
  <2>1. EffectsAccounted'
    BY <1>9 DEF Perform, EffectInv, EffectsAccounted, Uncertain
  <2>2. InCourse'
    BY <1>9 DEF Perform, EffectInv, InCourse
  <2>3. NoWorkOnDoubt' /\ Created'
    BY <1>9 DEF Perform, EffectInv, NoWorkOnDoubt, Created, HasCall
  <2>4. QED
    BY <1>0, <2>1, <2>2, <2>3 DEF EffectInv
<1>10. QED
  BY <1>1, <1>2, <1>5, <1>6, <1>7, <1>8, <1>9 DEF Owner, SwitchModel, RequestDrain

-----------------------------------------------------------------------------
(* Sessions and mishaps *)

\* Recovery turns what was sent into doubt, and what was only prepared into a
\* call that was never sent (store.js:233-242).
LEMMA EffectRecover ==
  ASSUME EffectInv, NEW p \in Process, Recover(p), TypeOK'
  PROVE  EffectInv'
<1>0. TypeOK
  BY DEF EffectInv
<1>1. \A c \in Call :
        /\ calls'[c].task = calls[c].task
        /\ calls[c].status = "running" => calls'[c].status = "unknown" /\ calls'[c].error = calls[c].error
        /\ calls[c].status = "prepared" => calls'[c].status = "failed"
        /\ calls[c].status \notin {"running", "prepared"} => calls'[c] = calls[c]
  <2> SUFFICES ASSUME NEW c \in Call
               PROVE  /\ calls'[c].task = calls[c].task
                      /\ calls[c].status = "running" =>
                           calls'[c].status = "unknown" /\ calls'[c].error = calls[c].error
                      /\ calls[c].status = "prepared" => calls'[c].status = "failed"
                      /\ calls[c].status \notin {"running", "prepared"} => calls'[c] = calls[c]
    OBVIOUS
  <2>1. calls[c] \in CallRow /\ calls'[c] = RecoveredCall(calls[c])
    BY <1>0 DEF Recover, TypeOK
  <2>2. CASE calls[c].status = "running"
    BY <2>1, <2>2 DEF RecoveredCall, CallRow
  <2>3. CASE calls[c].status = "prepared"
    <3> DEFINE row == [calls[c] EXCEPT !.status = "failed", !.error = "unsent"]
    <3>1. row.status = "failed" /\ row.task = calls[c].task
      BY <2>1 DEF CallRow
    <3>2. calls'[c] = row
      BY <2>1, <2>3 DEF RecoveredCall
    <3> HIDE DEF row
    <3>3. QED
      BY <2>3, <3>1, <3>2
  <2>4. CASE calls[c].status \notin {"running", "prepared"}
    BY <2>1, <2>4 DEF RecoveredCall
  <2>5. QED
    BY <2>2, <2>3, <2>4
<1>2. \A q \in Process : /\ proc'[q].step = proc[q].step /\ proc'[q].call = proc[q].call
                         /\ proc'[q].task = proc[q].task
  <2> DEFINE row == [proc[p] EXCEPT !.phase = "ready", !.former = 0]
  <2>1. row.step = proc[p].step /\ row.call = proc[p].call /\ row.task = proc[p].task
    BY <1>0 DEF TypeOK, ProcRow
  <2>2. proc' = [proc EXCEPT ![p] = row]
    BY DEF Recover
  <2> HIDE DEF row
  <2>3. QED
    BY <1>0, <2>1, <2>2 DEF TypeOK
<1>3. \A t \in Task : \/ tasks'[t] = tasks[t]
                      \/ tasks'[t].status = "waiting"
  BY <1>0 DEF Recover, Waiting, TypeOK, TaskRow
<1>4. UNCHANGED <<outbound, performed>>
  BY DEF Recover
<1>5. InCourse'
  BY <1>0, <1>1, <1>2, <1>4, AtWork DEF EffectInv, InCourse
<1>6. EffectsAccounted'
  BY <1>0, <1>1, <1>4 DEF EffectInv, EffectsAccounted, TypeOK, Uncertain
<1>7. NoWorkOnDoubt'
  BY <1>1, <1>3 DEF EffectInv, NoWorkOnDoubt, HasCall, Uncertain, Unresolved
<1>8. Created'
  <2>1. ASSUME NEW c \in Call, calls'[c].task # 0
        PROVE  tasks'[calls'[c].task].status # "absent"
    <3>1. calls[c].task \in Task /\ calls'[c].task = calls[c].task
      BY <1>0, <1>1, <2>1 DEF TypeOK, CallRow
    <3>2. QED
      BY <1>1, <1>3, <2>1, <3>1 DEF EffectInv, Created
  <2>2. QED
    BY <2>1 DEF Created
<1>9. QED
  BY <1>5, <1>6, <1>7, <1>8 DEF EffectInv

\* The other steps of sessions, and mishaps, send and record nothing.
LEMMA EffectSession ==
  ASSUME EffectInv, NEW p \in Process, Session(p) \/ Mishap(p)
  PROVE  EffectInv'
<1>0. TypeOK /\ TypeOK'
  BY TypeSession, TypeMishap DEF EffectInv
<1>p. proc[p] \in ProcRow /\ proc \in [Process -> ProcRow]
  BY <1>0 DEF TypeOK
<1>q. ASSUME UNCHANGED <<tasks, calls, outbound, performed>>, \A q \in Process : Keeps(q)
      PROVE  EffectInv'
  <2>1. \A t \in Task : Proceeds(t)
    BY <1>q DEF Proceeds
  <2>2. QED
    BY <1>0, <1>q, <2>1, QuietStep DEF QuietEffects
<1>r. ASSUME UNCHANGED <<tasks, calls, outbound, performed>>, NEW row,
             proc' = [proc EXCEPT ![p] = row],
             \/ row.step \in {"idle", "loop"}
             \/ row.step = proc[p].step /\ row.task = proc[p].task /\ row.call = proc[p].call
      PROVE  EffectInv'
  BY <1>0, <1>q, <1>r, KeepsRows
<1>a. ASSUME NEW phase
      PROVE  LET row == [proc[p] EXCEPT !.phase = phase]
             IN  row.step = proc[p].step /\ row.task = proc[p].task /\ row.call = proc[p].call
  BY <1>p DEF ProcRow
<1>b. ASSUME NEW phase, NEW g
      PROVE  LET row == [proc[p] EXCEPT !.phase = phase, !.generation = g]
             IN  row.step = proc[p].step /\ row.task = proc[p].task /\ row.call = proc[p].call
  BY <1>p DEF ProcRow
<1>c. /\ Off.step = "idle"
      /\ \A phase : [Off EXCEPT !.phase = phase].step = "idle"
      /\ \A phase, g : /\ [Off EXCEPT !.phase = phase, !.former = g].step = "idle"
                       /\ [Off EXCEPT !.phase = phase, !.generation = g].step = "idle"
  BY DEF Off
<1>d. [proc[p] EXCEPT !.step = "idle", !.task = 0, !.call = 0].step = "idle"
  BY <1>p DEF ProcRow
<1>1. ASSUME TryLock(p)
      PROVE  EffectInv'
  BY <1>1, <1>a, <1>r DEF TryLock
<1>2. ASSUME LockTaken(p) \/ Replace(p)
      PROVE  EffectInv'
  BY <1>2, <1>c, <1>r DEF LockTaken, Replace
<1>3. ASSUME TakeOwnership(p)
      PROVE  EffectInv'
  BY <1>3, <1>b, <1>r DEF TakeOwnership
<1>4. ASSUME GiveUp(p)
      PROVE  EffectInv'
  BY <1>4, <1>d, <1>r DEF GiveUp, Idle
<1>5. ASSUME Retick(p)
      PROVE  EffectInv'
  <2>1. \/ proc' = [proc EXCEPT ![p] = [Off EXCEPT !.phase = "retired"]]
        \/ proc' = [proc EXCEPT ![p] = [Off EXCEPT !.phase = "again", !.former = proc[p].generation]]
    BY <1>5 DEF Retick
  <2>2. UNCHANGED <<tasks, calls, outbound, performed>>
    BY <1>5 DEF Retick
  <2> DEFINE retired == [Off EXCEPT !.phase = "retired"]
             again == [Off EXCEPT !.phase = "again", !.former = proc[p].generation]
  <2>3. retired.step = "idle" /\ again.step = "idle"
    BY <1>c
  <2>4. proc' = [proc EXCEPT ![p] = retired] \/ proc' = [proc EXCEPT ![p] = again]
    BY <2>1
  <2> HIDE DEF retired, again
  <2>5. QED
    BY <2>2, <2>3, <2>4, <1>r
<1>6. ASSUME Release(p)
      PROVE  EffectInv'
  BY <1>6, <1>a, <1>r DEF Release
<1>7. ASSUME Unlock(p)
      PROVE  EffectInv'
  BY <1>7, <1>c, <1>r DEF Unlock
<1>8. ASSUME LoseSession(p)
      PROVE  EffectInv'
  <2>1. UNCHANGED <<tasks, calls, outbound, performed>>
    BY <1>8 DEF LoseSession
  <2>2. CASE proc[p].phase = "ready"
    <3>1. proc' = [proc EXCEPT ![p] = [proc[p] EXCEPT !.phase = "lost"]]
      BY <1>8, <2>2 DEF LoseSession
    <3>2. QED
      BY <2>1, <3>1, <1>a, <1>r
  <2>3. CASE proc[p].phase = "closing"
    BY <1>8, <2>1, <2>3, <1>c, <1>r DEF LoseSession
  <2>4. CASE proc[p].phase \notin {"ready", "closing"}
    <3>1. proc' = [proc EXCEPT ![p] = Unacquired(p)]
      BY <1>8, <2>4 DEF LoseSession
    <3>2. Unacquired(p).step = "idle"
      BY <1>c DEF Unacquired
    <3>3. QED
      BY <2>1, <3>1, <3>2, <1>r
  <2>5. QED
    BY <2>2, <2>3, <2>4
<1>9. ASSUME Crash(p)
      PROVE  EffectInv'
  BY <1>9, <1>c, <1>r DEF Crash
<1>10. ASSUME StoreRefuses(p)
      PROVE  EffectInv'
  <2>1. UNCHANGED <<tasks, calls, outbound, performed>>
    BY <1>10 DEF StoreRefuses
  <2>2. CASE proc[p].step = "abort"
    BY <1>10, <2>1, <2>2, <1>d, <1>r DEF StoreRefuses, Idle
  <2>3. CASE proc[p].step # "abort"
    <3>1. PICK step \in {"refused", "abort"} :
            /\ proc' = GoTo(p, step)
            /\ step = "refused" => proc[p].step = "returned"
      BY <1>10, <2>3 DEF StoreRefuses
    <3>2. proc[p].step \notin {"idle", "loop"}
      BY <1>10 DEF StoreRefuses
    <3>3. \A q \in Process : Keeps(q)
      BY <1>p, <3>1, <3>2 DEF GoTo, Keeps, ProcRow
    <3>4. QED
      BY <2>1, <3>3, <1>q
  <2>4. QED
    BY <2>2, <2>3
<1>11. QED
  BY <1>0, <1>1, <1>2, <1>3, <1>4, <1>5, <1>6, <1>7, <1>8, <1>9, <1>10, EffectRecover
  DEF Session, Mishap, RetireDraining, Stop

-----------------------------------------------------------------------------
(* Tools and the Task loop *)

\* A process goes on to another step with the same Task and call.
LEMMA HandRows ==
  ASSUME TypeOK, NEW p \in Process, NEW step, proc' = GoTo(p, step)
  PROVE  /\ proc'[p].step = step /\ proc'[p].task = proc[p].task /\ proc'[p].call = proc[p].call
         /\ \A q \in Process \ {p} : proc'[q] = proc[q]
  BY DEF TypeOK, GoTo, ProcRow

\* A tool comes back with a result it performed, without having been entered, or
\* with an outcome that nobody knows (capabilities/index.js:83-123).
LEMMA EffectTool ==
  ASSUME EffectInv, NEW p \in Process, Tool(p)
  PROVE  EffectInv'
<1>0. TypeOK /\ TypeOK'
  BY TypeTool DEF EffectInv
<1>1. PICK step \in {"returned", "refused", "uncertain"} :
        /\ proc' = GoTo(p, step)
        /\ step = "returned" => proc[p].call \in performed
        /\ step = "refused" => outbound' = outbound \ {proc[p].call}
        /\ step # "refused" => outbound' = outbound
  BY DEF Tool, ToolReturns, ToolRefuses, ToolThrows
<1>2. proc[p].step = "dispatched" /\ UNCHANGED <<tasks, calls, performed>>
  BY DEF Tool, ToolReturns, ToolRefuses, ToolThrows
<1>3. /\ proc'[p].step = step /\ proc'[p].task = proc[p].task /\ proc'[p].call = proc[p].call
      /\ \A q \in Process \ {p} : proc'[q] = proc[q]
  BY <1>0, <1>1, HandRows
<1>4. outbound' \subseteq outbound
  BY <1>1
<1>5. InCourse'
  BY <1>1, <1>2, <1>3, <1>4 DEF EffectInv, InCourse
<1>6. EffectsAccounted'
  BY <1>2, <1>4 DEF EffectInv, EffectsAccounted
<1>7. NoWorkOnDoubt' /\ Created'
  BY <1>2 DEF EffectInv, NoWorkOnDoubt, Created, HasCall
<1>8. QED
  BY <1>0, <1>5, <1>6, <1>7 DEF EffectInv

\* Only an active Task prepares a call, and the row is a new one (store.js:261-266).
LEMMA EffectPrepare ==
  ASSUME EffectInv, NEW p \in Process, NEW c \in Call, NEW effect \in {"read", "write"},
         Prepare(p, c, effect), TypeOK'
  PROVE  EffectInv'
<1>0. TypeOK
  BY DEF EffectInv
<1>1. /\ calls[c].status = "absent" /\ calls[c].task = 0
      /\ proc[p].step = "loop" /\ tasks[proc[p].task].status = "running"
      /\ UNCHANGED <<tasks, outbound, performed>>
  BY <1>0 DEF Prepare, Least, Absent, At, Active, TypeOK, CallRow
<1>2. /\ calls'[c] = [task |-> proc[p].task, effect |-> effect, status |-> "prepared", error |-> "none"]
      /\ \A d \in Call \ {c} : calls'[d] = calls[d]
  BY <1>0 DEF Prepare, TypeOK
<1>3. proc[p].task \in Task
  BY <1>0, <1>1, AtWork
<1>4. /\ proc'[p].step = "prepared" /\ proc'[p].task = proc[p].task /\ proc'[p].call = c
      /\ \A q \in Process \ {p} : proc'[q] = proc[q]
  <2> DEFINE row == [proc[p] EXCEPT !.step = "prepared", !.call = c]
  <2>1. row.step = "prepared" /\ row.task = proc[p].task /\ row.call = c
    BY <1>0 DEF TypeOK, ProcRow
  <2>2. proc' = [proc EXCEPT ![p] = row]
    BY DEF Prepare
  <2> HIDE DEF row
  <2>3. QED
    BY <1>0, <2>1, <2>2 DEF TypeOK
<1>5. InCourse'
  <2>1. ASSUME NEW q \in Process \ {p}, proc[q].step \notin {"idle", "loop"}
        PROVE  proc[q].call \in Call \ {c}
    <3>1. proc[q].task \in Task /\ proc[q].call \in Call /\ calls[proc[q].call].task = proc[q].task
      BY <1>0, <2>1, AtWork DEF EffectInv, InCourse
    <3>2. QED
      BY <3>1, <1>1, Named
  <2>2. QED
    BY <1>1, <1>2, <1>4, <2>1 DEF EffectInv, InCourse
<1>6. EffectsAccounted'
  <2>1. c \notin outbound /\ c \notin performed
    BY <1>1 DEF EffectInv, EffectsAccounted, Uncertain
  <2>2. outbound \subseteq Call /\ performed \subseteq Call
    BY <1>0 DEF TypeOK
  <2>3. QED
    BY <1>1, <1>2, <2>1, <2>2 DEF EffectInv, EffectsAccounted
<1>7. NoWorkOnDoubt' /\ Created'
  BY <1>1, <1>2, <1>3 DEF EffectInv, NoWorkOnDoubt, Created, HasCall, Uncertain, Unresolved
<1>8. QED
  BY <1>5, <1>6, <1>7 DEF EffectInv

\* Only a prepared call of an active Task is sent, once (store.js:267-271).
LEMMA EffectDispatch ==
  ASSUME EffectInv, NEW p \in Process, Dispatch(p), TypeOK'
  PROVE  EffectInv'
<1>0. TypeOK
  BY DEF EffectInv
<1>1. PICK c \in Call : c = proc[p].call
  BY <1>0, AtWork DEF Dispatch, At
<1>2. /\ Records(c, "running") /\ calls[c].status = "prepared" /\ calls[c].task = proc[p].task
      /\ outbound' = outbound \cup {c} /\ proc' = GoTo(p, "dispatched")
      /\ tasks[proc[p].task].status = "running" /\ proc[p].step = "prepared"
      /\ UNCHANGED <<tasks, performed>>
  BY <1>1 DEF Dispatch, At, Active, Records, EffectInv, InCourse
<1>3. /\ calls'[c].status = "running" /\ calls'[c].task = calls[c].task
      /\ calls'[c].error = calls[c].error
      /\ \A d \in Call \ {c} : calls'[d] = calls[d]
  BY <1>0, <1>2, RecordedRow
<1>4. /\ proc'[p].step = "dispatched" /\ proc'[p].task = proc[p].task /\ proc'[p].call = c
      /\ \A q \in Process \ {p} : proc'[q] = proc[q]
  BY <1>0, <1>1, <1>2, HandRows
<1>5. InCourse'
  <2>1. ASSUME NEW q \in Process, proc[q].step \notin {"idle", "loop"}
        PROVE  proc[q].call \in Call
    BY <1>0, <2>1, AtWork
  <2>2. QED
    BY <1>2, <1>3, <1>4, <2>1 DEF EffectInv, InCourse
<1>6. EffectsAccounted'
  <2>1. c \notin performed /\ calls[c].error # "unsent"
    BY <1>2 DEF EffectInv, EffectsAccounted
  <2>2. outbound \subseteq Call /\ performed \subseteq Call
    BY <1>0 DEF TypeOK
  <2>3. QED
    BY <1>2, <1>3, <2>1, <2>2 DEF EffectInv, EffectsAccounted, Uncertain
<1>7. NoWorkOnDoubt' /\ Created'
  BY <1>2, <1>3 DEF EffectInv, NoWorkOnDoubt, Created, HasCall, Uncertain, Unresolved
<1>8. QED
  BY <1>5, <1>6, <1>7 DEF EffectInv

\* What a settle records is what the tool told: a result it performed, a failure
\* when it was not entered, doubt otherwise (store.js:272-285).
LEMMA EffectSettle ==
  ASSUME EffectInv, NEW p \in Process, Settle(p) \/ SettleWait(p), TypeOK'
  PROVE  EffectInv'
<1>0. TypeOK
  BY DEF EffectInv
<1>1. PICK c \in Call : c = proc[p].call
  BY <1>0, AtWork DEF Settle, SettleWait, Settles
<1>2. PICK status \in {"succeeded", "unknown", "failed"} :
        /\ Records(c, status)
        /\ status = "succeeded" => proc[p].step = "returned"
        /\ status = "failed" => proc[p].step = "refused"
  BY <1>1 DEF Settle, SettleWait, Settles, SettledAs, Records
<1>3. /\ calls[c].status = "running" /\ calls[c].task = proc[p].task
      /\ UNCHANGED <<outbound, performed>>
      /\ status = "succeeded" => c \in performed
      /\ status = "failed" => c \notin outbound
  BY <1>1, <1>2 DEF Settle, SettleWait, Settles, EffectInv, InCourse
<1>4. /\ calls'[c].status = status /\ calls'[c].task = calls[c].task
      /\ calls'[c].error = calls[c].error
      /\ \A d \in Call \ {c} : calls'[d] = calls[d]
  BY <1>0, <1>2, RecordedRow
<1>5. /\ \A q \in Process \ {p} : proc'[q] = proc[q]
      /\ \/ proc'[p].step \in {"idle", "loop"}
         \/ proc'[p].step = "doubtful" /\ proc'[p].task = proc[p].task /\ proc'[p].call = proc[p].call
  <2> DEFINE looping == [proc[p] EXCEPT !.step = "loop", !.call = 0]
             resting == [proc[p] EXCEPT !.step = "idle", !.task = 0, !.call = 0]
  <2>1. looping.step = "loop" /\ resting.step = "idle"
    BY <1>0 DEF TypeOK, ProcRow
  <2>2. \/ proc' = [proc EXCEPT ![p] = looping]
        \/ proc' = [proc EXCEPT ![p] = resting]
        \/ proc' = GoTo(p, "doubtful")
    BY DEF Settle, SettleWait, Idle
  <2> HIDE DEF looping, resting
  <2>3. QED
    BY <1>0, <2>1, <2>2, HandRows DEF TypeOK
<1>6. InCourse'
  <2>1. ASSUME NEW q \in Process, proc[q].step \notin {"idle", "loop"}
        PROVE  proc[q].call \in Call
    BY <1>0, <2>1, AtWork
  <2>2. proc[p].step \notin {"idle", "loop"}
    BY DEF Settle, SettleWait, Settles
  <2>3. QED
    BY <1>3, <1>4, <1>5, <2>1, <2>2 DEF EffectInv, InCourse
<1>7. EffectsAccounted'
  <2>1. calls[c].error # "unsent"
    BY <1>3 DEF EffectInv, EffectsAccounted
  <2>2. outbound \subseteq Call /\ performed \subseteq Call
    BY <1>0 DEF TypeOK
  <2>3. QED
    BY <1>3, <1>4, <2>1, <2>2 DEF EffectInv, EffectsAccounted, Uncertain
<1>8. NoWorkOnDoubt' /\ Created'
  <2>1. \A t \in Task : tasks'[t].status = tasks[t].status \/ tasks'[t].status = "waiting"
    <3>1. CASE UNCHANGED tasks
      BY <3>1
    <3>2. CASE SettleWait(p)
      <4>1. PICK t \in Task : t = proc[p].task
        BY <1>0, AtWork DEF Settle, SettleWait, Settles
      <4>2. Waiting(tasks[t], "external_result").status = "waiting"
        BY <1>0 DEF TypeOK, TaskRow, Waiting
      <4>3. tasks' = [tasks EXCEPT ![t] = Waiting(tasks[t], "external_result")]
        BY <3>2, <4>1 DEF SettleWait
      <4>4. QED
        BY <1>0, <4>2, <4>3 DEF TypeOK
    <3>3. QED
      BY <3>1, <3>2 DEF Settle
  <2>2. \A d \in Call : calls'[d].task = calls[d].task /\ calls[d].task \in Task \cup {0}
    BY <1>0, <1>4 DEF TypeOK, CallRow
  <2>3. QED
    BY <1>3, <1>4, <2>1, <2>2 DEF EffectInv, NoWorkOnDoubt, Created, HasCall, Uncertain, Unresolved
<1>9. QED
  BY <1>6, <1>7, <1>8 DEF EffectInv

\* The other steps of the loop send and record nothing, and a Task ends well only
\* after a look at its calls (store.js:243-254, 286-300).
LEMMA EffectWork ==
  ASSUME EffectInv, NEW p \in Process, Work(p)
  PROVE  EffectInv'
<1>0. TypeOK /\ TypeOK'
  BY TypeWork DEF EffectInv
<1>p. proc[p] \in ProcRow /\ proc \in [Process -> ProcRow] /\ tasks \in [Task -> TaskRow]
  BY <1>0 DEF TypeOK
<1>q. ASSUME UNCHANGED <<calls, outbound, performed>>, \A q \in Process : Keeps(q),
             \A t \in Task : Proceeds(t)
      PROVE  EffectInv'
  BY <1>0, <1>q, QuietStep DEF QuietEffects
<1>i. ASSUME proc' = Idle(p)
      PROVE  \A q \in Process : Keeps(q)
  <2> DEFINE row == [proc[p] EXCEPT !.step = "idle", !.task = 0, !.call = 0]
  <2>1. row.step = "idle" /\ proc' = [proc EXCEPT ![p] = row]
    BY <1>i, <1>p DEF Idle, ProcRow
  <2> HIDE DEF row
  <2>2. QED
    BY <1>0, <2>1, KeepsRows
<1>t. ASSUME NEW t \in Task, NEW row, tasks' = [tasks EXCEPT ![t] = row],
             \/ row.status \in {"running", "waiting"}
             \/ row.status = "succeeded" /\ ~HasCall(t, Unresolved)
      PROVE  \A u \in Task : Proceeds(u)
  BY <1>p, <1>t DEF Proceeds
<1>s. UNCHANGED tasks => \A u \in Task : Proceeds(u)
  BY DEF Proceeds
<1>e. ASSUME NEW row \in TaskRow
      PROVE  /\ \A status, reason : Ended(row, status, reason).status = status
             /\ Waiting(row, "external_result").status = "waiting"
             /\ [Waiting(row, "external_result") EXCEPT !.delegation = "pending"].status = "waiting"
             /\ \A g : [row EXCEPT !.status = "running", !.token = g].status = "running"
  BY <1>e DEF TaskRow, Ended, Waiting
<1>w. proc[p].step # "idle" => proc[p].task \in Task /\ tasks[proc[p].task] \in TaskRow
  BY <1>0, AtWork
<1>1. ASSUME NEW t \in Task, Claim(p, t)
      PROVE  EffectInv'
  <2>1. \A q \in Process : Keeps(q)
    <3> DEFINE row == [proc[p] EXCEPT !.step = "loop", !.task = t]
    <3>1. row.step = "loop" /\ proc' = [proc EXCEPT ![p] = row]
      BY <1>1, <1>p DEF Claim, ProcRow
    <3> HIDE DEF row
    <3>2. QED
      BY <1>0, <3>1, KeepsRows
  <2>2. \A u \in Task : Proceeds(u)
    <3> DEFINE row == [tasks[t] EXCEPT !.status = "running", !.token = proc[p].generation]
    <3>1. row.status = "running" /\ tasks' = [tasks EXCEPT ![t] = row]
      BY <1>1, <1>p, <1>e DEF Claim
    <3> HIDE DEF row
    <3>2. QED
      BY <3>1, <1>t
  <2>3. QED
    BY <1>1, <1>q, <2>1, <2>2 DEF Claim
<1>2. ASSUME NEW t \in Task, ClaimMismatch(p, t)
      PROVE  EffectInv'
  <2>1. \A u \in Task : Proceeds(u)
    <3>1. Ended(tasks[t], "waiting", "interrupted").status = "waiting"
      BY <1>p, <1>e
    <3>2. tasks' = [tasks EXCEPT ![t] = Ended(tasks[t], "waiting", "interrupted")]
      BY <1>2 DEF ClaimMismatch
    <3>3. QED
      BY <3>1, <3>2, <1>t
  <2>2. \A q \in Process : Keeps(q)
    BY <1>2 DEF ClaimMismatch, Keeps
  <2>3. QED
    BY <1>2, <1>q, <2>1, <2>2 DEF ClaimMismatch
<1>3. ASSUME LoopEnds(p)
      PROVE  EffectInv'
  BY <1>3, <1>q, <1>i, <1>s DEF LoopEnds
<1>4. ASSUME Unadmitted(p)
      PROVE  EffectInv'
  <2>1. \A q \in Process : Keeps(q)
    BY <1>4, <1>0, HandRows DEF Unadmitted, At, Keeps
  <2>2. QED
    BY <1>4, <1>q, <1>s, <2>1 DEF Unadmitted
<1>5. ASSUME NEW reason, EndsWith(p, reason), proc[p].step # "idle"
      PROVE  EffectInv'
  <2>1. \A u \in Task : Proceeds(u)
    BY <1>5, <1>w, <1>e, <1>t, <1>s DEF EndsWith
  <2>2. QED
    BY <1>5, <1>q, <1>i, <2>1 DEF EndsWith
<1>6. ASSUME FinishSucceeded(p)
      PROVE  EffectInv'
  <2>1. \A u \in Task : Proceeds(u)
    <3>1. PICK t \in Task : t = proc[p].task
      BY <1>6, <1>w DEF FinishSucceeded, At
    <3>2. Ended(tasks[t], "succeeded", "none").status = "succeeded"
      BY <1>p, <1>e
    <3>3. tasks' = [tasks EXCEPT ![t] = Ended(tasks[t], "succeeded", "none")] /\ ~HasCall(t, Unresolved)
      BY <1>6, <3>1 DEF FinishSucceeded
    <3>4. QED
      BY <3>2, <3>3, <1>t
  <2>2. QED
    BY <1>6, <1>q, <1>i, <2>1 DEF FinishSucceeded
<1>7. ASSUME Delegate(p)
      PROVE  EffectInv'
  <2>1. \A u \in Task : Proceeds(u)
    BY <1>7, <1>w, <1>e, <1>t DEF Delegate, At
  <2>2. QED
    BY <1>7, <1>q, <1>i, <2>1 DEF Delegate
<1>8. QED
  BY <1>0, <1>1, <1>2, <1>3, <1>4, <1>5, <1>6, <1>7, EffectPrepare, EffectDispatch, EffectSettle
  DEF Work, Abort, AwaitReconciliation, FinishWaiting, At

-----------------------------------------------------------------------------
\* The invariant holds in every state the store can reach.
LEMMA EffectInvariant == Spec => []EffectInv
<1>1. EffectInv /\ [Next]_vars => EffectInv'
  <2>1. CASE UNCHANGED vars
    BY <2>1 DEF EffectInv, TypeOK, InCourse, EffectsAccounted, NoWorkOnDoubt, Created, HasCall, vars
  <2>2. QED
    BY <2>1, EffectOwner, EffectSession, EffectTool, EffectWork DEF Next
<1>2. QED
  BY EffectInit, <1>1, PTL DEF Spec

\* The call table never lies about the world: what may still happen is recorded as
\* sent or in doubt, what succeeded happened, and what was never sent did not.
THEOREM CallTableTrue == Spec => []EffectsAccounted
  BY EffectInvariant, PTL DEF EffectInv

\* No Task is queued, and none has succeeded, while a call of it is in doubt.
THEOREM DoubtStopsWork == Spec => []NoWorkOnDoubt
  BY EffectInvariant, PTL DEF EffectInv
-----------------------------------------------------------------------------
(* TaskStore implements TaskPromise: every step of the store is a step of  *)
(* the promise, or changes nothing that the promise speaks of.             *)

\* What the promise sees of the tables.
PromiseStages == [t \in Task |-> PromiseStage(tasks[t].status)]
PromiseOwners == [c \in Call |-> calls[c].task]
PromiseRecords == [c \in Call |-> PromiseRecord(calls[c])]

\* A step that keeps what the promise speaks of.
Unseen == UNCHANGED <<PromiseStages, PromiseOwners, PromiseRecords, performed>>

\* A step of the store is a step of the promise.
Implements == Promise!Next \/ Unseen

-----------------------------------------------------------------------------
\* The record of a call, status by status.
LEMMA RecordOf ==
  ASSUME NEW row \in CallRow
  PROVE  /\ row.status = "absent" => PromiseRecord(row) = "absent"
         /\ row.status = "prepared" => PromiseRecord(row) = "intended"
         /\ row.status = "running" => PromiseRecord(row) = "inflight"
         /\ row.status = "unknown" => PromiseRecord(row) = "uncertain"
         /\ row.status \in {"succeeded", "failed"} /\ row.error = "unsent" =>
              PromiseRecord(row) = "void"
         /\ row.status \in {"succeeded", "failed"} /\ row.error # "unsent" =>
              PromiseRecord(row) = "known"
<1>1. CASE row.status = "absent"
  BY <1>1 DEF PromiseRecord
<1>2. CASE row.status = "prepared"
  BY <1>2 DEF PromiseRecord
<1>3. CASE row.status = "running"
  BY <1>3 DEF PromiseRecord
<1>4. CASE row.status = "unknown"
  BY <1>4 DEF PromiseRecord
<1>5. CASE row.status \in {"succeeded", "failed"}
  BY <1>5 DEF PromiseRecord
<1>6. QED
  BY <1>1, <1>2, <1>3, <1>4, <1>5 DEF CallRow, CallStatus

\* Doubt and unresolved calls are what the promise says they are.
LEMMA OpenCalls ==
  ASSUME TypeOK, NEW t \in Task
  PROVE  /\ Promise!Open(t, {"inflight", "uncertain"}) <=> HasCall(t, Uncertain)
         /\ Promise!Open(t, {"intended", "inflight", "uncertain"}) <=> HasCall(t, Unresolved)
<1>1. ASSUME NEW c \in Call
      PROVE  /\ PromiseRecord(calls[c]) \in {"inflight", "uncertain"} <=> calls[c].status \in Uncertain
             /\ PromiseRecord(calls[c]) \in {"intended", "inflight", "uncertain"}
                  <=> calls[c].status \in Unresolved
  <2>1. calls[c] \in CallRow
    BY DEF TypeOK
  <2>2. calls[c].status \in {"succeeded", "failed"} => PromiseRecord(calls[c]) \in {"void", "known"}
    BY <2>1, RecordOf
  <2>3. QED
    BY <2>1, <2>2, RecordOf DEF CallRow, CallStatus, Uncertain, Unresolved
<1>2. QED
  BY <1>1 DEF Promise!Open, HasCall

\* The update of one Task's row moves that Task.
LEMMA OneTask ==
  ASSUME TypeOK, NEW t \in Task, NEW row, tasks' = [tasks EXCEPT ![t] = row]
  PROVE  /\ PromiseStages' = [PromiseStages EXCEPT ![t] = PromiseStage(row.status)]
         /\ \A from : PromiseStage(tasks[t].status) \in from =>
              Promise!Move(t, from, PromiseStage(row.status))
  BY DEF TypeOK, PromiseStages, Promise!Move

\* The update of one call's row marks that call.
LEMMA OneCall ==
  ASSUME TypeOK, NEW c \in Call, NEW row, calls' = [calls EXCEPT ![c] = row]
  PROVE  \A from : PromiseRecord(calls[c]) \in from =>
           Promise!Mark(c, from, PromiseRecord(row))
  BY DEF TypeOK, PromiseRecords, Promise!Mark

\* A step that keeps rows keeps what the promise sees of them.
LEMMA KeptRows ==
  /\ UNCHANGED tasks => UNCHANGED PromiseStages
  /\ UNCHANGED calls => UNCHANGED <<PromiseOwners, PromiseRecords>>
  BY DEF PromiseStages, PromiseOwners, PromiseRecords

-----------------------------------------------------------------------------
\* A step on the row of one Task, with calls and the world kept, is one of the
\* promise's moves of a Task.
LEMMA TaskMove ==
  ASSUME TypeOK, NEW t \in Task, NEW row, tasks' = [tasks EXCEPT ![t] = row],
         UNCHANGED <<calls, performed>>,
         \/ tasks[t].status = "absent" /\ row.status = "queued"
         \/ tasks[t].status = "waiting" /\ row.status = "queued" /\ ~HasCall(t, Uncertain)
         \/ tasks[t].status \in {"queued", "running"} /\ row.status = "waiting"
         \/ tasks[t].status \in {"queued", "running", "waiting"} /\ row.status = "cancelled"
         \/ tasks[t].status = "running" /\ row.status = "succeeded" /\ ~HasCall(t, Unresolved)
         \/ tasks[t].status = row.status
  PROVE  Implements
<1>k. UNCHANGED <<PromiseOwners, PromiseRecords>>
  BY KeptRows
<1>m. \A from : PromiseStage(tasks[t].status) \in from => Promise!Move(t, from, PromiseStage(row.status))
  BY OneTask
<1>u. Promise!Admit(t) \/ Promise!Pause(t) \/ Promise!Requeue(t) \/ Promise!Succeed(t)
        \/ Promise!Cancel(t) => Implements
  BY DEF Implements, Promise!Next
<1>1. CASE tasks[t].status = "absent" /\ row.status = "queued"
  <2>1. Promise!Move(t, {"absent"}, "queued")
    BY <1>1, <1>m DEF PromiseStage
  <2>2. QED
    BY <1>k, <1>u, <2>1 DEF Promise!Admit, PromiseOwners, PromiseRecords
<1>2. CASE tasks[t].status = "waiting" /\ row.status = "queued" /\ ~HasCall(t, Uncertain)
  <2>1. Promise!Move(t, {"waiting"}, "queued") /\ ~Promise!Open(t, {"inflight", "uncertain"})
    BY <1>2, <1>m, OpenCalls DEF PromiseStage
  <2>2. QED
    BY <1>k, <1>u, <2>1 DEF Promise!Requeue, PromiseOwners, PromiseRecords
<1>3. CASE tasks[t].status \in {"queued", "running"} /\ row.status = "waiting"
  <2>1. Promise!Move(t, {"queued", "working"}, "waiting")
    BY <1>3, <1>m DEF PromiseStage
  <2>2. QED
    BY <1>k, <1>u, <2>1 DEF Promise!Pause, PromiseOwners, PromiseRecords
<1>4. CASE tasks[t].status \in {"queued", "running", "waiting"} /\ row.status = "cancelled"
  <2>1. Promise!Move(t, {"queued", "working", "waiting"}, "cancelled")
    BY <1>4, <1>m DEF PromiseStage
  <2>2. QED
    BY <1>k, <1>u, <2>1 DEF Promise!Cancel, PromiseOwners, PromiseRecords
<1>5. CASE tasks[t].status = "running" /\ row.status = "succeeded" /\ ~HasCall(t, Unresolved)
  <2>1. /\ Promise!Move(t, {"working"}, "succeeded")
        /\ ~Promise!Open(t, {"intended", "inflight", "uncertain"})
    BY <1>5, <1>m, OpenCalls DEF PromiseStage
  <2>2. QED
    BY <1>k, <1>u, <2>1 DEF Promise!Succeed, PromiseOwners, PromiseRecords
<1>6. CASE tasks[t].status = row.status
  <2>1. UNCHANGED PromiseStages
    BY <1>6 DEF TypeOK, PromiseStages
  <2>2. QED
    BY <1>k, <2>1 DEF Implements, Unseen
<1>7. QED
  BY <1>1, <1>2, <1>3, <1>4, <1>5, <1>6

\* What keeps the tables and the world is no step of the promise.
LEMMA Stutter == UNCHANGED <<tasks, calls, performed>> => Implements
  BY KeptRows DEF Implements, Unseen

\* The owner's transitions (store.js:28-206), and what the world does.
LEMMA OwnerImplements ==
  ASSUME EffectInv, Owner
  PROVE  Implements
<1>0. TypeOK /\ tasks \in [Task -> TaskRow]
  BY DEF EffectInv, TypeOK
<1>1. ASSUME NEW t \in Task, NEW v \in Version, NEW d \in {"none", "child"}, Create(t, v, d)
      PROVE  Implements
  <2> DEFINE row == [tasks[t] EXCEPT !.status = "queued", !.version = v, !.delegation = d]
  <2>1. row.status = "queued" /\ tasks' = [tasks EXCEPT ![t] = row]
    BY <1>0, <1>1 DEF Create, TaskRow
  <2>2. tasks[t].status = "absent" /\ UNCHANGED <<calls, performed>>
    BY <1>1 DEF Create, Least, Absent
  <2> HIDE DEF row
  <2>3. QED
    BY <1>0, <2>1, <2>2, TaskMove
<1>2. ASSUME NEW t \in Task, Cancel(t)
      PROVE  Implements
  <2>1. /\ CancelledRow(tasks[t]).status = "cancelled"
        /\ tasks' = [tasks EXCEPT ![t] = CancelledRow(tasks[t])]
    BY <1>0, <1>2 DEF Cancel, CancelledRow, TaskRow
  <2>2. tasks[t].status \in {"queued", "running", "waiting"} /\ UNCHANGED <<calls, performed>>
    BY <1>2 DEF Cancel
  <2>3. QED
    BY <1>0, <2>1, <2>2, TaskMove
<1>3. ASSUME NEW t \in Task, NEW row, tasks' = [tasks EXCEPT ![t] = row],
             row = Queued(tasks[t]) \/ row = [Queued(tasks[t]) EXCEPT !.delegation = "received"],
             tasks[t].status = "waiting", ~HasCall(t, Uncertain), UNCHANGED <<calls, performed>>
      PROVE  Implements
  <2>1. row.status = "queued"
    BY <1>0, <1>3 DEF Queued, TaskRow
  <2>2. QED
    BY <1>0, <1>3, <2>1, TaskMove
<1>4. ASSUME NEW t \in Task, ~HasCall(t, Unresolved)
      PROVE  ~HasCall(t, Uncertain)
  BY <1>4 DEF HasCall, Uncertain, Unresolved
<1>5. ASSUME NEW t \in Task, NEW k, NEW v, Resume(t, k, v) \/ ProvideInput(t, k, v)
      PROVE  Implements
  <2>1. tasks' = [tasks EXCEPT ![t] = Queued(tasks[t])]
    BY <1>5 DEF Resume, ProvideInput
  <2>2. QED
    BY <1>3, <1>5, <2>1 DEF Resume, ProvideInput, MayTransition
<1>6. ASSUME NEW t \in Task, NEW n, Wake(t, n)
      PROVE  Implements
  <2>1. tasks' = [tasks EXCEPT ![t] = Queued(tasks[t])]
    BY <1>6 DEF Wake
  <2>2. QED
    BY <1>3, <1>4, <1>6, <2>1 DEF Wake, SameWait
<1>7. ASSUME NEW t \in Task, ReceiveDelegation(t)
      PROVE  Implements
  <2>1. tasks' = [tasks EXCEPT ![t] = [Queued(tasks[t]) EXCEPT !.delegation = "received"]]
    BY <1>7 DEF ReceiveDelegation
  <2>2. QED
    BY <1>3, <1>4, <1>7, <2>1 DEF ReceiveDelegation
<1>8. ASSUME NEW c \in Call, ResolveCall(c)
      PROVE  Implements
  <2> DEFINE row == [calls[c] EXCEPT !.status = "succeeded"]
  <2>0. calls[c] \in CallRow /\ calls[c].status # "absent"
    BY <1>0, <1>8 DEF ResolveCall, TypeOK
  <2>1. /\ row \in CallRow /\ row.status = "succeeded"
        /\ row.error = calls[c].error /\ row.task = calls[c].task
    BY <2>0, CallRows DEF CallStatus, CallRow
  <2>2. calls' = [calls EXCEPT ![c] = row] /\ UNCHANGED <<tasks, performed>> /\ c \in performed
    BY <1>8 DEF ResolveCall
  <2> HIDE DEF row
  <2>3. PromiseRecord(calls[c]) = "uncertain" /\ PromiseRecord(row) = "known"
    <3>1. calls[c].error # "unsent" /\ calls[c].status = "unknown"
      BY <1>8 DEF ResolveCall, EffectInv, EffectsAccounted
    <3>2. QED
      BY <2>0, <2>1, <3>1, RecordOf
  <2>4. Promise!Mark(c, {"uncertain"}, "known")
    <3>1. TypeOK /\ calls' = [calls EXCEPT ![c] = row] /\ PromiseRecord(calls[c]) \in {"uncertain"}
      BY <1>0, <2>2, <2>3
    <3>2. Promise!Mark(c, {"uncertain"}, PromiseRecord(row))
      BY <3>1, OneCall
    <3>3. QED
      BY <2>3, <3>2
  <2>5. UNCHANGED <<PromiseStages, PromiseOwners>>
    BY <1>0, <2>1, <2>2 DEF PromiseStages, PromiseOwners, TypeOK
  <2>6. Promise!Confirm(c)
    BY <2>2, <2>4, <2>5 DEF Promise!Confirm, PromiseStages, PromiseOwners
  <2>7. QED
    BY <2>6 DEF Implements, Promise!Next
<1>9. ASSUME NEW c \in Call, Perform(c)
      PROVE  Implements
  <2>1. calls[c] \in CallRow /\ calls[c].status \in {"running", "unknown"} /\ c \notin performed
    BY <1>0, <1>9 DEF Perform, EffectInv, EffectsAccounted, Uncertain, TypeOK
  <2>2. PromiseRecord(calls[c]) \in {"inflight", "uncertain"}
    BY <2>1, RecordOf
  <2>3. UNCHANGED <<PromiseStages, PromiseOwners, PromiseRecords>>
    BY <1>9, KeptRows DEF Perform
  <2>4. Promise!Perform(c)
    BY <1>9, <2>1, <2>2, <2>3 DEF Perform, Promise!Perform, PromiseStages, PromiseOwners, PromiseRecords
  <2>5. QED
    BY <2>4 DEF Implements, Promise!Next
<1>10. QED
  BY <1>1, <1>2, <1>5, <1>6, <1>7, <1>8, <1>9, Stutter DEF Owner, SwitchModel, RequestDrain

\* A takeover interrupts what works and distrusts what is in flight (store.js:233-242).
LEMMA RecoverImplements ==
  ASSUME EffectInv, NEW p \in Process, Recover(p)
  PROVE  Implements
<1>0. TypeOK
  BY DEF EffectInv
<1>1. UNCHANGED PromiseOwners
  <2>1. \A c \in Call : calls'[c].task = calls[c].task
    <3>1. \A row \in CallRow : RecoveredCall(row).task = row.task
      BY DEF CallRow, RecoveredCall
    <3>2. QED
      BY <1>0, <3>1 DEF Recover, TypeOK
  <2>2. QED
    BY <2>1 DEF PromiseOwners
<1>2. PromiseStages' = [t \in Task |-> IF PromiseStages[t] = "working" THEN "waiting"
                                       ELSE PromiseStages[t]]
  <2>1. ASSUME NEW t \in Task
        PROVE  PromiseStage(tasks'[t].status) =
                 IF PromiseStage(tasks[t].status) = "working" THEN "waiting"
                 ELSE PromiseStage(tasks[t].status)
    <3>1. tasks[t] \in TaskRow
      BY <1>0 DEF TypeOK
    <3>2. CASE tasks[t].status = "running"
      <4>1. tasks'[t].status = "waiting"
        BY <3>1, <3>2 DEF Recover, Waiting, TaskRow
      <4>2. QED
        BY <3>2, <4>1 DEF PromiseStage
    <3>3. CASE tasks[t].status # "running"
      <4>1. tasks'[t] = tasks[t]
        BY <3>3 DEF Recover
      <4>2. QED
        BY <3>1, <3>3, <4>1 DEF PromiseStage, TaskRow, TaskStatus
    <3>4. QED
      BY <3>2, <3>3
  <2>2. QED
    BY <2>1 DEF PromiseStages
<1>3. ASSUME NEW c \in Call
      PROVE  /\ PromiseRecords[c] = "inflight" => PromiseRecords'[c] = "uncertain"
             /\ PromiseRecords[c] = "intended" => PromiseRecords'[c] = "void"
             /\ PromiseRecords[c] \notin {"inflight", "intended"} =>
                  PromiseRecords'[c] = PromiseRecords[c]
  <2>0. calls[c] \in CallRow /\ calls'[c] = RecoveredCall(calls[c]) /\ calls'[c] \in CallRow
    BY <1>0, RecoveredRows DEF Recover, TypeOK
  <2>1. /\ PromiseRecords[c] = PromiseRecord(calls[c])
        /\ PromiseRecords'[c] = PromiseRecord(calls'[c])
    BY DEF PromiseRecords
  <2>2. CASE calls[c].status = "running"
    <3>1. calls'[c].status = "unknown"
      BY <2>0, <2>2 DEF RecoveredCall, CallRow
    <3>2. QED
      BY <2>0, <2>1, <2>2, <3>1, RecordOf
  <2>3. CASE calls[c].status = "prepared"
    <3> DEFINE row == [calls[c] EXCEPT !.status = "failed", !.error = "unsent"]
    <3>1. row.status = "failed" /\ row.error = "unsent"
      BY <2>0 DEF CallRow
    <3>2. calls'[c] = row
      BY <2>0, <2>3 DEF RecoveredCall
    <3> HIDE DEF row
    <3>3. QED
      BY <2>0, <2>1, <2>3, <3>1, <3>2, RecordOf
  <2>4. CASE calls[c].status \notin {"running", "prepared"}
    <3>1. calls'[c] = calls[c]
      BY <2>0, <2>4 DEF RecoveredCall
    <3>2. PromiseRecord(calls[c]) \notin {"inflight", "intended"}
      BY <2>0, <2>4, RecordOf DEF CallRow, CallStatus
    <3>3. QED
      BY <2>1, <3>1, <3>2
  <2>5. QED
    BY <2>2, <2>3, <2>4
<1>4. PromiseRecords' = [c \in Call |-> CASE PromiseRecords[c] = "inflight" -> "uncertain"
                                          [] PromiseRecords[c] = "intended" -> "void"
                                          [] OTHER -> PromiseRecords[c]]
  <2>1. ASSUME NEW c \in Call
        PROVE  PromiseRecords'[c] = CASE PromiseRecords[c] = "inflight" -> "uncertain"
                                      [] PromiseRecords[c] = "intended" -> "void"
                                      [] OTHER -> PromiseRecords[c]
    BY <1>3
  <2>2. PromiseRecords' = [c \in Call |-> PromiseRecords'[c]]
    BY DEF PromiseRecords
  <2>3. QED
    BY <2>1, <2>2
<1>5. Promise!Interrupt
  BY <1>1, <1>2, <1>4 DEF Promise!Interrupt, Recover, PromiseStages, PromiseOwners, PromiseRecords
<1>6. QED
  BY <1>5 DEF Implements, Promise!Next

\* Sessions, mishaps and the return of a tool are nothing to the promise, but for
\* the recovery of a takeover.
LEMMA SessionImplements ==
  ASSUME EffectInv, NEW p \in Process, Session(p) \/ Mishap(p) \/ Tool(p)
  PROVE  Implements
  BY RecoverImplements, Stutter
  DEF Session, Mishap, Tool, TryLock, LockTaken, TakeOwnership, GiveUp, Retick, RetireDraining,
      Stop, Release, Unlock, Replace, LoseSession, Crash, StoreRefuses, ToolReturns, ToolRefuses,
      ToolThrows

\* Prepare, dispatch and settle intend, send and learn an effect of the Task at
\* work (store.js:261-285).
LEMMA CallImplements ==
  ASSUME EffectInv, NEW p \in Process
  PROVE  /\ \A c \in Call, effect \in {"read", "write"} : Prepare(p, c, effect) => Implements
         /\ Dispatch(p) => Implements
         /\ Settle(p) \/ SettleWait(p) => Implements
<1>0. TypeOK
  BY DEF EffectInv
<1>s. \A t \in Task : tasks[t].status = "running" => PromiseStages[t] = "working"
  BY DEF PromiseStages, PromiseStage
<1>1. ASSUME NEW c \in Call, NEW effect \in {"read", "write"}, Prepare(p, c, effect)
      PROVE  Implements
  <2> DEFINE row == [task |-> proc[p].task, effect |-> effect, status |-> "prepared", error |-> "none"]
  <2>1. PICK t \in Task : t = proc[p].task /\ tasks[t].status = "running"
    BY <1>0, <1>1, AtWork DEF Prepare, At, Active
  <2>2. row \in CallRow /\ row.status = "prepared" /\ row.task = t
    BY <2>1, Named DEF CallRow, CallStatus
  <2>3. calls' = [calls EXCEPT ![c] = row] /\ UNCHANGED <<tasks, performed>>
    BY <1>1 DEF Prepare
  <2> HIDE DEF row
  <2>4. calls[c] \in CallRow /\ calls[c].status = "absent"
    BY <1>0, <1>1 DEF Prepare, Least, Absent, TypeOK
  <2>5. Promise!Mark(c, {"absent"}, "intended")
    <3>1. PromiseRecord(calls[c]) = "absent" /\ PromiseRecord(row) = "intended"
      BY <2>2, <2>4, RecordOf
    <3>2. QED
      BY <1>0, <2>3, <3>1, OneCall
  <2>6. PromiseOwners' = [PromiseOwners EXCEPT ![c] = t]
    BY <1>0, <2>2, <2>3 DEF PromiseOwners, TypeOK
  <2>7. Promise!Intend(t, c)
    BY <1>s, <2>1, <2>3, <2>5, <2>6, KeptRows DEF Promise!Intend, PromiseStages, PromiseOwners
  <2>8. QED
    BY <2>7 DEF Implements, Promise!Next
<1>2. ASSUME NEW c \in Call, NEW status \in CallStatus \ {"absent"}, Records(c, status),
             calls[c].status # "absent"
      PROVE  /\ UNCHANGED PromiseOwners
             /\ calls[c].error = "none" /\ calls[c].status = "prepared" /\ status = "running" =>
                  Promise!Mark(c, {"intended"}, "inflight")
             /\ calls[c].error = "none" /\ calls[c].status = "running" /\ status \in {"succeeded", "failed"} =>
                  Promise!Mark(c, {"inflight"}, "known")
             /\ calls[c].error = "none" /\ calls[c].status = "running" /\ status = "unknown" =>
                  Promise!Mark(c, {"inflight"}, "uncertain")
  <2> DEFINE row == [calls[c] EXCEPT !.status = status]
  <2>1. calls[c] \in CallRow
    BY <1>0 DEF TypeOK
  <2>2. row \in CallRow /\ row.status = status /\ row.error = calls[c].error /\ row.task = calls[c].task
    BY <1>2, <2>1, CallRows DEF CallRow
  <2>3. calls' = [calls EXCEPT ![c] = row]
    BY <1>2 DEF Records
  <2> HIDE DEF row
  <2>4. UNCHANGED PromiseOwners
    BY <1>0, <2>2, <2>3 DEF PromiseOwners, TypeOK
  <2>5. \A from : PromiseRecord(calls[c]) \in from => Promise!Mark(c, from, PromiseRecord(row))
    BY <1>0, <2>3, OneCall
  <2>6. calls[c].error = "none" /\ status \in {"succeeded", "failed"} => PromiseRecord(row) = "known"
    BY <2>2, RecordOf
  <2>7. /\ status = "running" => PromiseRecord(row) = "inflight"
        /\ status = "unknown" => PromiseRecord(row) = "uncertain"
        /\ calls[c].status = "prepared" => PromiseRecord(calls[c]) = "intended"
        /\ calls[c].status = "running" => PromiseRecord(calls[c]) = "inflight"
    BY <2>1, <2>2, RecordOf
  <2>8. QED
    BY <2>4, <2>5, <2>6, <2>7
<1>e. \A c \in Call : calls[c].status # "failed" => calls[c].error = "none"
  BY <1>0 DEF EffectInv, EffectsAccounted, TypeOK, CallRow
<1>3. ASSUME Dispatch(p)
      PROVE  Implements
  <2>1. PICK t \in Task, c \in Call : t = proc[p].task /\ c = proc[p].call
    BY <1>0, <1>3, AtWork DEF Dispatch, At
  <2>2. /\ tasks[t].status = "running" /\ calls[c].status = "prepared" /\ calls[c].task = t
        /\ Records(c, "running") /\ UNCHANGED <<tasks, performed>>
    BY <1>3, <2>1 DEF Dispatch, At, Active, Records, EffectInv, InCourse
  <2>3. Promise!Mark(c, {"intended"}, "inflight") /\ UNCHANGED PromiseOwners
    BY <1>2, <1>e, <2>2 DEF CallStatus
  <2>4. Promise!Send(t, c)
    BY <1>s, <2>2, <2>3, KeptRows DEF Promise!Send, PromiseStages, PromiseOwners
  <2>5. QED
    BY <2>4 DEF Implements, Promise!Next
<1>4. ASSUME Settle(p) \/ SettleWait(p)
      PROVE  Implements
  <2>1. PICK t \in Task, c \in Call : t = proc[p].task /\ c = proc[p].call
    BY <1>0, <1>4, AtWork DEF Settle, SettleWait, Settles
  <2>2. PICK status \in {"succeeded", "unknown", "failed"} :
          Records(c, status) /\ (status = "unknown" => proc[p].step = "uncertain")
    BY <1>4, <2>1 DEF Settle, SettleWait, Settles, SettledAs, Records
  <2>3. calls[c].status = "running" /\ calls[c].task = t /\ UNCHANGED performed
    BY <1>4, <2>1 DEF Settle, SettleWait, Settles, EffectInv, InCourse
  <2>4. /\ UNCHANGED PromiseOwners
        /\ status # "unknown" => Promise!Mark(c, {"inflight"}, "known")
        /\ status = "unknown" => Promise!Mark(c, {"inflight"}, "uncertain")
    BY <1>2, <1>e, <2>2, <2>3 DEF CallStatus
  <2>5. \/ UNCHANGED tasks
        \/ status # "unknown" /\ Promise!Move(t, {"working"}, "waiting")
    <3>1. CASE SettleWait(p)
      <4>1. /\ tasks' = [tasks EXCEPT ![t] = Waiting(tasks[t], "external_result")]
            /\ tasks[t].status = "running" /\ status # "unknown"
        BY <2>1, <2>2, <3>1 DEF SettleWait, Active
      <4>2. Waiting(tasks[t], "external_result").status = "waiting"
        BY <1>0 DEF TypeOK, TaskRow, Waiting
      <4>3. PromiseStage(tasks[t].status) = "working" /\ PromiseStage("waiting") = "waiting"
        BY <4>1 DEF PromiseStage
      <4>4. \A from : PromiseStage(tasks[t].status) \in from =>
              Promise!Move(t, from, PromiseStage(Waiting(tasks[t], "external_result").status))
        BY <1>0, <4>1, OneTask
      <4>5. QED
        BY <4>1, <4>2, <4>3, <4>4
    <3>2. QED
      BY <1>4, <3>1 DEF Settle
  <2>6. PromiseOwners[c] = t
    BY <2>3 DEF PromiseOwners
  <2>7. Promise!Learn(c) \/ Promise!Doubt(c)
    BY <2>3, <2>4, <2>5, <2>6, KeptRows DEF Promise!Learn, Promise!Doubt, PromiseStages, PromiseOwners
  <2>8. QED
    BY <2>7 DEF Implements, Promise!Next
<1>5. QED
  BY <1>1, <1>3, <1>4

\* The Task loop begins, pauses and ends the Task at work (store.js:243-254, 286-300).
LEMMA WorkImplements ==
  ASSUME EffectInv, NEW p \in Process, Work(p)
  PROVE  Implements
<1>0. TypeOK /\ tasks \in [Task -> TaskRow]
  BY DEF EffectInv, TypeOK
<1>1. ASSUME NEW t \in Task, Claim(p, t)
      PROVE  Implements
  <2> DEFINE row == [tasks[t] EXCEPT !.status = "running", !.token = proc[p].generation]
  <2>1. row.status = "running" /\ tasks' = [tasks EXCEPT ![t] = row]
    BY <1>0, <1>1 DEF Claim, TaskRow
  <2>2. tasks[t].status = "queued" /\ NothingRuns /\ UNCHANGED <<calls, performed>>
    BY <1>1 DEF Claim, MayClaim, QueueHead, Least
  <2> HIDE DEF row
  <2>3. Promise!Move(t, {"queued"}, "working")
    <3>1. PromiseStage(tasks[t].status) = "queued" /\ PromiseStage(row.status) = "working"
      BY <2>1, <2>2 DEF PromiseStage
    <3>2. \A from : PromiseStage(tasks[t].status) \in from =>
            Promise!Move(t, from, PromiseStage(row.status))
      BY <1>0, <2>1, OneTask
    <3>3. QED
      BY <3>1, <3>2
  <2>4. /\ \A u \in Task : PromiseStages[u] # "working"
        /\ \A c \in Call : PromiseRecords[c] # "inflight"
    <3>1. ASSUME NEW u \in Task
          PROVE  PromiseStages[u] # "working"
      BY <1>0, <2>2 DEF NothingRuns, PromiseStages, PromiseStage, TaskRow, TaskStatus
    <3>2. ASSUME NEW c \in Call
          PROVE  PromiseRecords[c] # "inflight"
      <4>1. calls[c] \in CallRow /\ calls[c].status # "running"
        BY <1>0, <2>2 DEF NothingRuns, TypeOK
      <4>2. PromiseRecord(calls[c]) # "inflight"
        BY <4>1, RecordOf DEF CallRow, CallStatus
      <4>3. QED
        BY <4>2 DEF PromiseRecords
    <3>3. QED
      BY <3>1, <3>2
  <2>5. Promise!Begin(t)
    BY <2>2, <2>3, <2>4, KeptRows DEF Promise!Begin, PromiseStages, PromiseOwners, PromiseRecords
  <2>6. QED
    BY <2>5 DEF Implements, Promise!Next
<1>2. ASSUME NEW t \in Task, ClaimMismatch(p, t)
      PROVE  Implements
  <2>1. /\ tasks' = [tasks EXCEPT ![t] = Ended(tasks[t], "waiting", "interrupted")]
        /\ tasks[t].status = "queued" /\ UNCHANGED <<calls, performed>>
    BY <1>2 DEF ClaimMismatch, MayClaim, QueueHead, Least
  <2>2. Ended(tasks[t], "waiting", "interrupted").status = "waiting"
    BY <1>0 DEF Ended, TaskRow
  <2>3. QED
    BY <1>0, <2>1, <2>2, TaskMove
<1>3. ASSUME NEW reason, EndsWith(p, reason), proc[p].step # "idle"
      PROVE  Implements
  <2>1. PICK t \in Task : t = proc[p].task
    BY <1>0, <1>3, AtWork
  <2>2. CASE Active(p)
    <3>1. /\ tasks' = [tasks EXCEPT ![t] = Ended(tasks[t], "waiting", reason)]
          /\ tasks[t].status = "running" /\ UNCHANGED <<calls, performed>>
      BY <1>3, <2>1, <2>2 DEF EndsWith, Active
    <3>2. Ended(tasks[t], "waiting", reason).status = "waiting"
      BY <1>0 DEF Ended, TaskRow
    <3>3. QED
      BY <1>0, <3>1, <3>2, TaskMove
  <2>3. CASE ~Active(p)
    BY <1>3, <2>3, Stutter DEF EndsWith
  <2>4. QED
    BY <2>2, <2>3
<1>4. ASSUME FinishSucceeded(p)
      PROVE  Implements
  <2>1. PICK t \in Task : t = proc[p].task
    BY <1>0, <1>4, AtWork DEF FinishSucceeded, At
  <2>2. /\ tasks' = [tasks EXCEPT ![t] = Ended(tasks[t], "succeeded", "none")]
        /\ tasks[t].status = "running" /\ ~HasCall(t, Unresolved) /\ UNCHANGED <<calls, performed>>
    BY <1>4, <2>1 DEF FinishSucceeded, Active
  <2>3. Ended(tasks[t], "succeeded", "none").status = "succeeded"
    BY <1>0 DEF Ended, TaskRow
  <2>4. QED
    BY <1>0, <2>2, <2>3, TaskMove
<1>5. ASSUME Delegate(p)
      PROVE  Implements
  <2>1. PICK t \in Task : t = proc[p].task
    BY <1>0, <1>5, AtWork DEF Delegate, At
  <2> DEFINE row == [Waiting(tasks[t], "external_result") EXCEPT !.delegation = "pending"]
  <2>2. row.status = "waiting" /\ tasks' = [tasks EXCEPT ![t] = row]
    BY <1>0, <1>5, <2>1 DEF Delegate, Waiting, TaskRow
  <2>3. tasks[t].status = "running" /\ UNCHANGED <<calls, performed>>
    BY <1>5, <2>1 DEF Delegate, Active
  <2> HIDE DEF row
  <2>4. QED
    BY <1>0, <2>2, <2>3, TaskMove
<1>6. ASSUME LoopEnds(p) \/ Unadmitted(p)
      PROVE  Implements
  BY <1>6, Stutter DEF LoopEnds, Unadmitted
<1>7. QED
  BY <1>1, <1>2, <1>3, <1>4, <1>5, <1>6, CallImplements
  DEF Work, Abort, AwaitReconciliation, FinishWaiting, At

-----------------------------------------------------------------------------
\* Whatever crashes, is lost, is refused or comes late, an owner sees only what the
\* promise allows: one Task at work, effects sent once and by it alone, doubt ended
\* only by evidence, and no Task that goes on in doubt.
THEOREM StoreKeepsPromise == Spec => ImplementsPromise
<1>1. Init => Promise!Init
  BY DEF Init, Promise!Init, PromiseStage, PromiseRecord
<1>2. EffectInv /\ [Next]_vars => [Promise!Next]_(Promise!vars)
  <2>1. CASE UNCHANGED vars
    BY <2>1 DEF vars, Promise!vars
  <2>2. EffectInv /\ Next => Implements
    BY OwnerImplements, SessionImplements, WorkImplements DEF Next
  <2>3. Unseen => UNCHANGED Promise!vars
    BY DEF Unseen, Promise!vars, PromiseStages, PromiseOwners, PromiseRecords
  <2>4. QED
    BY <2>1, <2>2, <2>3 DEF Implements
<1>3. QED
  BY EffectInvariant, <1>1, <1>2, PTL DEF Spec, ImplementsPromise, Promise!Spec
=============================================================================
