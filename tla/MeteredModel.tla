---------------------------- MODULE MeteredModel ----------------------------
(***************************************************************************)
(* billing/metered-model.js over the ledger of TokenLedger, as the loop of *)
(* agent/runtime.js drives it: one model turn of a Task is one attempt     *)
(* with a fresh request id.  An attempt checks the Task's open holds,      *)
(* reserves, calls the provider, and accounts for what the provider did.   *)
(*                                                                         *)
(* What can go wrong is part of the model.                                 *)
(*   TimeOut       the runtime's deadline passes: the Task stops waiting   *)
(*                 and may be resumed, and the attempt, its signal         *)
(*                 aborted, goes on in the background (runtime.js:205-206).*)
(*   LoseExecutor  the host lost its session while it was still running:   *)
(*                 another host resumes the Task, and nothing aborts the   *)
(*                 attempt.                                                *)
(*   Stop          the process dies, or a transaction of the attempt fails *)
(*                 or its acknowledgement is lost.  What it committed      *)
(*                 stays, and a commit that outlives the process is a      *)
(*                 TimeOut followed by the commit and a Stop.              *)
(* The provider and the host's billing worker are external: the provider   *)
(* performs a request at most once, and the worker knows the truth.        *)
(*                                                                         *)
(* Operators ending in Mut are altered forms of the definition below them. *)
(* No action uses them; they show that a property can fail.                *)
(***************************************************************************)
EXTENDS TokenLedger

CONSTANTS
  Task, NoTask, NoRequest,
  PolicyOf,    \* PolicyOf[t]: payer, maximum hold, budget, and pendingUsage
  Usage,       \* rated costs a request may turn out to have
  MaxMishaps   \* bound: time-outs, lost executors and stops of one behaviour

ASSUME MeteredModelAssumption ==
  /\ NoTask \notin Task /\ NoRequest \notin Request
  /\ PolicyOf \in [Task -> [account : Account, hold : Nat, budget : Budget \cup {NoBudget},
                            pendingUsage : {"continue", "block"}]]
  /\ Usage \subseteq Nat
  /\ MaxMishaps \in Nat

VARIABLES
  turn,      \* turn[t]: the attempt the loop of Task t waits for
  attempt,   \* attempt[r]: where the attempt with request id r stands
  provider,  \* provider[r]: what became of the request at the provider
  cost,      \* cost[r]: its rated cost, once it was performed
  receipts,  \* receipts[r]: number of metered_result events that name r
  mishaps    \* mishaps so far

vars == <<calls, results, issued, revoked, turn, attempt, provider, cost, receipts, mishaps>>

\* "settling": the response is retained and its settlement is next;
\* "doubting": a settlement without a retained response has failed.
Live == {"checking", "reserving", "held", "sent", "settling", "doubting"}
Signal == {"clear", "aborted", "lost"}
AttemptRow == [phase : Live \cup {"unborn", "over"}, task : Task \cup {NoTask}, signal : Signal]

TypeOK ==
  /\ LedgerTypeOK
  /\ turn \in [Task -> Request \cup {NoRequest}]
  /\ attempt \in [Request -> AttemptRow]
  /\ \A r \in Request : attempt[r].phase \in Live => attempt[r].task \in Task
  /\ provider \in [Request -> {"none", "sent", "used", "refused"}]
  /\ cost \in [Request -> Nat]
  /\ receipts \in [Request -> Nat]
  /\ mishaps \in Nat

Init ==
  /\ LedgerInit
  /\ turn = [t \in Task |-> NoRequest]
  /\ attempt = [r \in Request |-> [phase |-> "unborn", task |-> NoTask, signal |-> "clear"]]
  /\ provider = [r \in Request |-> "none"]
  /\ cost = [r \in Request |-> 0]
  /\ receipts = [r \in Request |-> 0]
  /\ mishaps = 0
-----------------------------------------------------------------------------
(* What an attempt reads *)

TaskOf(r) == attempt[r].task
Continues(t) == PolicyOf[t].pendingUsage = "continue"

\* recoverResult: retained responses the Task has no receipt of.  The query
\* takes the earliest created_at, the time its transaction began and not the
\* order of the commits, so any of them may come first.
Unread(t) == {r \in results : TaskOf(r) = t /\ receipts[r] = 0}

BlockingMut(t) ==
  {r \in Request : TaskOf(r) = t /\ calls[r].state = "unknown" /\ (Continues(t) => r \notin results)}

\* hasBlockingTask under a continuing policy, otherwise hasPendingTask.
Blocking(t) ==
  {r \in Request : TaskOf(r) = t /\ Holding(r) /\ (Continues(t) => r \notin results)}

(* How an attempt ends *)

Move(r, phase) == attempt' = [attempt EXCEPT ![r] = [@ EXCEPT !.phase = phase]]

ReadByMut(r, given) == given

\* The responses the loop checkpoints when attempt r gives it some: none,
\* when the loop stopped waiting for r.
ReadBy(r, given) == {x \in given : turn[TaskOf(r)] = r}

\* next() returns the responses in given, or throws.
Finish(r, given) ==
  /\ Move(r, "over")
  /\ receipts' = [x \in Request |-> receipts[x] + (IF x \in ReadBy(r, given) THEN 1 ELSE 0)]
  /\ turn' = [t \in Task |-> IF turn[t] = r THEN NoRequest ELSE turn[t]]
-----------------------------------------------------------------------------
(* The loop of the runtime *)

\* The loop head reads retained responses before it takes another turn.
Recover(t) ==
  /\ turn[t] = NoRequest /\ Continues(t)
  /\ \E x \in Unread(t) : receipts' = [receipts EXCEPT ![x] = @ + 1]
  /\ UNCHANGED <<calls, results, issued, revoked, turn, attempt, provider, cost, mishaps>>

\* next(), up to its own look for a retained response.
Begin(t, r) ==
  /\ turn[t] = NoRequest /\ attempt[r].phase = "unborn"
  /\ Continues(t) => Unread(t) = {}
  /\ turn' = [turn EXCEPT ![t] = r]
  /\ attempt' = [attempt EXCEPT ![r] = [@ EXCEPT !.phase = "checking", !.task = t]]
  /\ UNCHANGED <<calls, results, issued, revoked, provider, cost, receipts, mishaps>>

(* Steps of an attempt *)

Check(r) ==
  /\ attempt[r].phase = "checking"
  /\ \/ /\ attempt[r].signal = "aborted" \/ Blocking(TaskOf(r)) # {}
        /\ Finish(r, {})
     \/ /\ attempt[r].signal # "aborted" /\ Blocking(TaskOf(r)) = {}
        /\ Move(r, "reserving")
        /\ UNCHANGED <<turn, receipts>>
  /\ UNCHANGED <<calls, results, issued, revoked, provider, cost, mishaps>>

Admit(r) ==
  /\ attempt[r].phase = "reserving"
  /\ LET p == PolicyOf[TaskOf(r)]
     IN  \/ /\ Reserve(r, p.account, p.budget, p.hold)
            /\ Move(r, "held")
            /\ UNCHANGED <<turn, receipts>>
         \/ /\ ~Covers(p.account, p.hold) \/ ~Admits(p.account, p.budget, p.hold)
            /\ Finish(r, {})
            /\ UNCHANGED ledgerVars
  /\ UNCHANGED <<provider, cost, mishaps>>

WithdrawMut(r) ==
  /\ attempt[r].phase \in {"held", "sent"}
  /\ Release(r)
  /\ Finish(r, {})
  /\ UNCHANGED <<provider, cost, mishaps>>

\* An aborted attempt releases its hold before it is dispatched, and so does
\* one whose gateway proves that it did not call the provider.
Withdraw(r) ==
  /\ attempt[r].phase = "held"
  /\ Release(r)
  /\ Finish(r, {})
  /\ UNCHANGED <<provider, cost, mishaps>>

Send(r) ==
  /\ attempt[r].phase = "held" /\ attempt[r].signal # "aborted"
  /\ provider' = [provider EXCEPT ![r] = "sent"]
  /\ Move(r, "sent")
  /\ UNCHANGED <<calls, results, issued, revoked, turn, cost, receipts, mishaps>>

\* No usage is known.  The response is retained when it is usable.
LoseUsage(r) ==
  /\ attempt[r].phase = "sent"
  /\ \E usable \in {{}, {r}} :
       /\ usable # {} => Continues(TaskOf(r)) /\ provider[r] = "used"
       /\ MarkUnknown(r, usable)
       /\ Finish(r, usable)
  /\ UNCHANGED <<provider, cost, mishaps>>

\* Usage is known: a usable response is retained before it is settled.
Retain(r) ==
  /\ attempt[r].phase = "sent" /\ provider[r] = "used" /\ Continues(TaskOf(r))
  /\ MarkUnknown(r, {r})
  /\ Move(r, "settling")
  /\ UNCHANGED <<turn, provider, cost, receipts, mishaps>>

SettleUse(r) ==
  /\ \/ attempt[r].phase = "sent" /\ provider[r] = "used" /\ Finish(r, {})
     \/ attempt[r].phase = "settling" /\ Finish(r, {r})
  /\ Settle(r, cost[r])
  /\ UNCHANGED <<provider, cost, mishaps>>

\* settle() rejected: the ledger was out of reach, or the worker was first.
SettleFails(r) ==
  /\ \/ /\ attempt[r].phase = "sent" /\ provider[r] = "used"
        /\ Move(r, "doubting")
        /\ UNCHANGED <<turn, receipts>>
     \/ /\ attempt[r].phase = "settling"
        /\ IF Unread(TaskOf(r)) = {} THEN Finish(r, {})
           ELSE \E x \in Unread(TaskOf(r)) : Finish(r, {x})
  /\ IF Holding(r) THEN mishaps < MaxMishaps /\ mishaps' = mishaps + 1 ELSE UNCHANGED mishaps
  /\ UNCHANGED <<calls, results, issued, revoked, provider, cost>>

Doubt(r) ==
  /\ attempt[r].phase = "doubting"
  /\ IF Holding(r) THEN MarkUnknown(r, {}) ELSE UNCHANGED ledgerVars
  /\ Finish(r, {})
  /\ UNCHANGED <<provider, cost, mishaps>>

\* markUnknown refuses a call that the billing worker has finalised.
AnswerTooLate(r) ==
  /\ attempt[r].phase = "sent" /\ ~Holding(r)
  /\ Finish(r, {})
  /\ UNCHANGED <<calls, results, issued, revoked, provider, cost, mishaps>>

(* Mishaps *)

Mishap == mishaps < MaxMishaps /\ mishaps' = mishaps + 1

\* The Task stops waiting for attempt r, which goes on.
Abandon(r, signal) ==
  /\ attempt[r].phase \in Live /\ turn[TaskOf(r)] = r
  /\ attempt' = [attempt EXCEPT ![r] = [@ EXCEPT !.signal = signal]]
  /\ turn' = [turn EXCEPT ![TaskOf(r)] = NoRequest]
  /\ Mishap
  /\ UNCHANGED <<calls, results, issued, revoked, provider, cost, receipts>>

TimeOut(r) == Abandon(r, "aborted")
LoseExecutor(r) == Abandon(r, "lost")

Stop(r) ==
  /\ attempt[r].phase \in Live
  /\ Finish(r, {})
  /\ Mishap
  /\ UNCHANGED <<calls, results, issued, revoked, provider, cost>>
-----------------------------------------------------------------------------
(* The provider, the billing worker and the application *)

Perform(r) ==
  /\ provider[r] = "sent"
  /\ provider' = [provider EXCEPT ![r] = "used"]
  /\ \E u \in Usage : cost' = [cost EXCEPT ![r] = u]
  /\ UNCHANGED <<calls, results, issued, revoked, turn, attempt, receipts, mishaps>>

Refuse(r) ==
  /\ provider[r] = "sent"
  /\ provider' = [provider EXCEPT ![r] = "refused"]
  /\ UNCHANGED <<calls, results, issued, revoked, turn, attempt, cost, receipts, mishaps>>

\* The source is true: use is measured when the request was performed, and
\* refused when the provider never got it and never will, or turned it down.
Reconcile(r) ==
  /\ \/ provider[r] = "used" /\ ReconcileMeasured(r, cost[r])
     \/ /\ provider[r] = "refused" \/ (provider[r] = "none" /\ attempt[r].phase = "over")
        /\ ReconcileNotAccepted(r)
  /\ UNCHANGED <<turn, attempt, provider, cost, receipts, mishaps>>

Pay(a, m) ==
  Issue(a, m) /\ UNCHANGED <<turn, attempt, provider, cost, receipts, mishaps>>

RevokeBudget(b) ==
  Revoke(b) /\ UNCHANGED <<turn, attempt, provider, cost, receipts, mishaps>>

Progress(r) ==
  \/ Check(r) \/ Admit(r) \/ Withdraw(r) \/ Send(r) \/ LoseUsage(r) \/ Retain(r)
  \/ SettleUse(r) \/ SettleFails(r) \/ Doubt(r) \/ AnswerTooLate(r)

Next ==
  \/ \E t \in Task : Recover(t) \/ \E r \in Request : Begin(t, r)
  \/ \E r \in Request : \/ Progress(r) \/ TimeOut(r) \/ LoseExecutor(r) \/ Stop(r)
                        \/ Perform(r) \/ Refuse(r) \/ Reconcile(r)
  \/ \E a \in Account, m \in Payment : Pay(a, m)
  \/ \E b \in Budget : RevokeBudget(b)

Spec == Init /\ [][Next]_vars

\* An attempt runs to its end, the provider answers or times out, and the host
\* runs the billing worker that billing/RECONCILIATION.md asks of it.
Fairness == \A r \in Request : WF_vars(Progress(r)) /\ WF_vars(Perform(r) \/ Refuse(r)) /\ WF_vars(Reconcile(r))

FairSpec == Spec /\ Fairness
-----------------------------------------------------------------------------
(* Properties *)

\* The entry of a call says what the provider did: only performed requests are
\* charged, at the rate of their use under the terms of their hold; no hold is
\* given back for a request that was performed or still may be; and use is
\* never forgotten.  Time-outs, crashes and the billing worker act in any order
\* (metered-model.js:33-74, token-ledger.js:162-207, 232-242).
ChargesMatchUse ==
  \A r \in Request :
    /\ calls[r].state = "settled" =>
         provider[r] = "used" /\ calls[r].charged = Due(calls[r], cost[r])
    /\ calls[r].state = "released" => provider[r] \in {"none", "refused"}
    /\ provider[r] = "used" => calls[r].state \in Unresolved \cup {"settled"}

\* The retained response of a request reaches the history of its Task at most
\* once, whether its attempt returns it, a later turn recovers it, or a failed
\* settlement falls back to recovery (metered-model.js:15-19, 25, 69;
\* runtime.js:181-184, 246; metered-results.js:2).
ResultReadOnce ==
  \A r \in Request : receipts[r] <= 1 /\ (receipts[r] > 0 => r \in results)

\* At the provider a Task has one request of unknown use at a time: another is
\* sent only when the last is settled, released, or has a retained response.
\* Two of them need an executor that lost its session and was not aborted
\* (metered-model.js:26-38; token-ledger.js:45-48, 59-64).
OneOpenRequest ==
  \A r, s \in Request :
    ( /\ r # s /\ TaskOf(r) = TaskOf(s)
      /\ \A x \in {r, s} : /\ provider[x] # "none" /\ Holding(x)
                           /\ Continues(TaskOf(x)) => x \notin results )
    => "lost" \in {attempt[r].signal, attempt[s].signal}

\* Every account can pay for what it holds.  Only use beyond a hold, which an
\* unbudgeted call owes, takes it below that (token-ledger.js:94-99, 146-148).
Overdraft(a) ==
  SumFunctionOnSet([r \in Request |-> IF calls[r].charged > calls[r].hold
                                     THEN calls[r].charged - calls[r].hold ELSE 0], CallsOf(a))

OverdraftIsUse == \A a \in Account : Available(a) + Overdraft(a) >= 0

\* Calls of several Tasks that share a budget never take it over its maximum,
\* whatever the provider uses (allowance.js:27-33; token-ledger.js:164-168).
BudgetCeiling ==
  \A b \in Budget : Charged(CallsUnder(b)) + Held(CallsUnder(b)) <= MaximumOf[b]

\* Neither money nor a budget is promised twice, by attempts of several Tasks that
\* are under way at once: accounts pay for what they hold, budgets keep their
\* maximum (token-ledger.js:94-99, 134-151; allowance.js:27-33).
MoneyBounded == OverdraftIsUse /\ BudgetCeiling

\* No hold stays for ever: its attempt or the billing worker resolves it.  A
\* hold that a dead process left, one of unknown use, and one whose settlement
\* was lost are all within the worker's reach (token-ledger.js:179-207).
HoldsResolve ==
  \A r \in Request : Holding(r) ~> ~Holding(r)

\* billing/RESULT_CONTINUATION.md:22-24: "On restart it first reads
\* uncheckpointed results for the original account/Task/model binding, without
\* calling the provider or spending another model turn."  The provider is not
\* called for a Task that has an unread result.
UnreadFirst ==
  [][\A r \in Request :
       provider[r] = "none" /\ provider'[r] = "sent" /\ Continues(TaskOf(r))
       => Unread(TaskOf(r)) = {}]_vars
=============================================================================
