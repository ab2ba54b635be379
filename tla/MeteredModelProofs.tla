------------------------- MODULE MeteredModelProofs -------------------------
(***************************************************************************)
(* Proofs about MeteredModel: every charge matches the use of its request, *)
(* every retained response is read at most once, no account or budget is   *)
(* overdrawn but by actual use, and a Task has one open request at a time, *)
(* for any accounts, Tasks, requests, budgets, policies and number of      *)
(* mishaps.                                                                *)
(***************************************************************************)
EXTENDS MeteredModel, Sums, TLAPS

USE TokenLedgerAssumption, MeteredModelAssumption

-----------------------------------------------------------------------------
(* The ledger *)

\* What a call owes is a number of units (token-ledger.js:165-169).
LEMMA DueUnits ==
  ASSUME NEW call \in LedgerCall, NEW rated \in Nat
  PROVE  Due(call, rated) \in Nat
  BY DEF Due, LedgerCall

\* The rows that the transactions write are well formed.
LEMMA CallRows ==
  ASSUME NEW call \in LedgerCall, call.state \in Unresolved
  PROVE  /\ [call EXCEPT !.state = "unknown"] \in LedgerCall
         /\ [call EXCEPT !.state = "released"] \in LedgerCall
         /\ \A due \in Nat : [call EXCEPT !.state = "settled", !.charged = due] \in LedgerCall
<1> USE DEF LedgerCall, CallState, Unresolved
<1>1. [call EXCEPT !.state = "unknown"] \in LedgerCall
  OBVIOUS
<1>2. [call EXCEPT !.state = "released"] \in LedgerCall
  OBVIOUS
<1>3. \A due \in Nat : [call EXCEPT !.state = "settled", !.charged = due] \in LedgerCall
  OBVIOUS
<1>4. QED
  BY <1>1, <1>2, <1>3

\* So is the row of a new reservation.
LEMMA ReservedRow ==
  ASSUME NEW call \in LedgerCall, call.state = "absent", NEW a \in Account,
         NEW b \in Budget \cup {NoBudget}, NEW hold \in Nat
  PROVE  [call EXCEPT !.state = "reserved", !.account = a, !.hold = hold, !.budget = b]
           \in LedgerCall
  BY DEF LedgerCall, CallState

\* Every transaction of the ledger keeps its tables well formed.
LEMMA LedgerTypes ==
  ASSUME LedgerTypeOK, NEW r \in Request
  PROVE  /\ \A a \in Account, b \in Budget \cup {NoBudget}, hold \in Nat :
              Reserve(r, a, b, hold) => LedgerTypeOK'
         /\ \A rated \in Nat : Settle(r, rated) => LedgerTypeOK'
         /\ \A kept \in SUBSET Request : MarkUnknown(r, kept) => LedgerTypeOK'
         /\ Release(r) \/ ReconcileNotAccepted(r) => LedgerTypeOK'
<1> USE DEF LedgerTypeOK
<1>1. ASSUME NEW a \in Account, NEW b \in Budget \cup {NoBudget}, NEW hold \in Nat,
             Reserve(r, a, b, hold)
      PROVE  LedgerTypeOK'
  BY <1>1, ReservedRow DEF Reserve
<1>2. ASSUME NEW rated \in Nat, Settle(r, rated)
      PROVE  LedgerTypeOK'
  <2>1. Due(calls[r], rated) \in Nat
    BY DueUnits
  <2>2. QED
    BY <1>2, <2>1, CallRows DEF Settle
<1>3. ASSUME NEW kept \in SUBSET Request, MarkUnknown(r, kept)
      PROVE  LedgerTypeOK'
  BY <1>3, CallRows DEF MarkUnknown
<1>4. ASSUME Release(r) \/ ReconcileNotAccepted(r)
      PROVE  LedgerTypeOK'
  <2>1. /\ calls[r].state \in Unresolved
        /\ calls' = [calls EXCEPT ![r] = [@ EXCEPT !.state = "released"]]
        /\ UNCHANGED <<results, issued, revoked>>
    BY <1>4 DEF Release, Releasable, Released, ReconcileNotAccepted, NoContradiction, Unresolved
  <2>2. [calls[r] EXCEPT !.state = "released"] \in LedgerCall
    BY <2>1, CallRows
  <2>3. QED
    BY <2>1, <2>2
<1> HIDE DEF LedgerTypeOK
<1>5. QED
  BY <1>1, <1>2, <1>3, <1>4

-----------------------------------------------------------------------------
(* Types *)

\* An attempt that begins has a well-formed row.
LEMMA BegunRow ==
  ASSUME NEW row \in AttemptRow, NEW t \in Task
  PROVE  /\ [row EXCEPT !.phase = "checking", !.task = t] \in AttemptRow
         /\ [row EXCEPT !.phase = "checking", !.task = t].task = t
         /\ [row EXCEPT !.phase = "checking", !.task = t].phase = "checking"
  BY DEF AttemptRow, Live

\* What Finish does to the rows of the attempts.
LEMMA FinishTypes ==
  ASSUME TypeOK, NEW r \in Request, attempt[r].phase \in Live,
         NEW given \in SUBSET Request, Finish(r, given)
  PROVE  /\ turn' \in [Task -> Request \cup {NoRequest}]
         /\ attempt' \in [Request -> AttemptRow]
         /\ receipts' \in [Request -> Nat]
         /\ \A x \in Request : attempt'[x].phase \in Live => attempt'[x].task \in Task
<1>1. turn' \in [Task -> Request \cup {NoRequest}]
  BY DEF TypeOK, Finish
<1>2. /\ attempt' \in [Request -> AttemptRow]
      /\ \A x \in Request : attempt'[x].phase \in Live => attempt'[x].task \in Task
  <2> DEFINE row == [attempt[r] EXCEPT !.phase = "over"]
  <2>1. row \in AttemptRow /\ row.phase = "over"
    BY DEF TypeOK, AttemptRow
  <2>2. attempt' = [attempt EXCEPT ![r] = row]
    BY DEF Finish, Move
  <2> HIDE DEF row
  <2>3. QED
    BY <2>1, <2>2 DEF TypeOK, Live
<1>3. receipts' \in [Request -> Nat]
  BY DEF TypeOK, Finish
<1>4. QED
  BY <1>1, <1>2, <1>3

\* What Move does to them.
LEMMA MoveTypes ==
  ASSUME TypeOK, NEW r \in Request, attempt[r].phase \in Live, NEW phase \in Live,
         Move(r, phase)
  PROVE  /\ attempt' \in [Request -> AttemptRow]
         /\ \A x \in Request : attempt'[x].phase \in Live => attempt'[x].task \in Task
  BY DEF TypeOK, AttemptRow, Live, Move

\* Every step of an attempt keeps the types.
LEMMA ProgressTypes ==
  ASSUME TypeOK, NEW r \in Request, Progress(r)
  PROVE  TypeOK'
<1>0. attempt[r].phase \in Live /\ LedgerTypeOK /\ cost[r] \in Nat /\ mishaps \in Nat
  BY DEF TypeOK, Progress, Check, Admit, Withdraw, Send, LoseUsage, Retain, SettleUse,
     SettleFails, Doubt, AnswerTooLate, Live
<1>1. CASE Check(r)
  BY <1>0, <1>1, FinishTypes, MoveTypes DEF Check, TypeOK, LedgerTypeOK, Live
<1>2. CASE Admit(r)
  <2> DEFINE p == PolicyOf[TaskOf(r)]
  <2>1. p.account \in Account /\ p.hold \in Nat /\ p.budget \in Budget \cup {NoBudget}
    BY <1>0 DEF TypeOK, TaskOf
  <2> HIDE DEF p
  <2>2. CASE Reserve(r, p.account, p.budget, p.hold) /\ Move(r, "held") /\ UNCHANGED <<turn, receipts>>
    <3>1. LedgerTypeOK'
      BY <1>0, <2>1, <2>2, LedgerTypes
    <3>2. QED
      BY <1>0, <1>2, <2>2, <3>1, MoveTypes DEF Admit, TypeOK, Live
  <2>3. CASE Finish(r, {}) /\ UNCHANGED ledgerVars
    BY <1>0, <1>2, <2>3, FinishTypes DEF Admit, TypeOK, LedgerTypeOK, ledgerVars
  <2>4. QED
    BY <1>2, <2>2, <2>3 DEF Admit, p
<1>3. CASE Withdraw(r)
  BY <1>0, <1>3, FinishTypes, LedgerTypes DEF Withdraw, TypeOK
<1>4. CASE Send(r)
  BY <1>0, <1>4, MoveTypes DEF Send, TypeOK, LedgerTypeOK, Live
<1>5. CASE LoseUsage(r)
  <2>1. PICK usable \in {{}, {r}} : MarkUnknown(r, usable) /\ Finish(r, usable)
    BY <1>5 DEF LoseUsage
  <2>2. LedgerTypeOK'
    BY <1>0, <2>1, LedgerTypes
  <2>3. QED
    BY <1>0, <1>5, <2>1, <2>2, FinishTypes DEF LoseUsage, TypeOK
<1>6. CASE Retain(r)
  BY <1>0, <1>6, MoveTypes, LedgerTypes DEF Retain, TypeOK, Live
<1>7. CASE SettleUse(r)
  BY <1>0, <1>7, FinishTypes, LedgerTypes DEF SettleUse, TypeOK
<1>8. CASE SettleFails(r)
  <2>1. mishaps' \in Nat /\ LedgerTypeOK' /\ UNCHANGED <<provider, cost>>
    BY <1>0, <1>8 DEF SettleFails, LedgerTypeOK
  <2>2. CASE Move(r, "doubting") /\ UNCHANGED <<turn, receipts>>
    BY <1>0, <2>1, <2>2, MoveTypes DEF TypeOK, Live
  <2>3. ASSUME NEW given \in SUBSET Request, Finish(r, given)
        PROVE  TypeOK'
    BY <1>0, <2>1, <2>3, FinishTypes DEF TypeOK
  <2>4. Unread(TaskOf(r)) \subseteq Request
    BY <1>0 DEF Unread, LedgerTypeOK
  <2>5. QED
    BY <1>8, <2>2, <2>3, <2>4 DEF SettleFails
<1>9. CASE Doubt(r)
  <2>1. LedgerTypeOK'
    BY <1>0, <1>9, LedgerTypes DEF Doubt, LedgerTypeOK, ledgerVars
  <2>2. QED
    BY <1>0, <1>9, <2>1, FinishTypes DEF Doubt, TypeOK
<1>10. CASE AnswerTooLate(r)
  BY <1>0, <1>10, FinishTypes DEF AnswerTooLate, TypeOK, LedgerTypeOK
<1>11. QED
  BY <1>1, <1>2, <1>3, <1>4, <1>5, <1>6, <1>7, <1>8, <1>9, <1>10 DEF Progress

\* So do the loop, the mishaps, the provider, the worker and the application.
LEMMA OtherTypes ==
  ASSUME TypeOK, Next, \A r \in Request : ~Progress(r)
  PROVE  TypeOK'
<1>0. LedgerTypeOK /\ mishaps \in Nat
  BY DEF TypeOK
<1>1. ASSUME NEW t \in Task, Recover(t)
      PROVE  TypeOK'
  BY <1>1 DEF Recover, Unread, TypeOK, LedgerTypeOK
<1>2. ASSUME NEW t \in Task, NEW r \in Request, Begin(t, r)
      PROVE  TypeOK'
  <2> DEFINE row == [attempt[r] EXCEPT !.phase = "checking", !.task = t]
  <2>0. attempt[r] \in AttemptRow
    BY DEF TypeOK
  <2>1. row \in AttemptRow /\ row.task \in Task
    BY <2>0, BegunRow, Zenon
  <2>2. attempt' = [attempt EXCEPT ![r] = row]
    BY <1>2 DEF Begin
  <2> HIDE DEF row
  <2>3. /\ attempt' \in [Request -> AttemptRow]
        /\ \A x \in Request : attempt'[x].phase \in Live => attempt'[x].task \in Task
    BY <2>1, <2>2 DEF TypeOK
  <2>4. QED
    BY <1>2, <2>3 DEF Begin, TypeOK, LedgerTypeOK
<1>3. ASSUME NEW r \in Request, NEW signal \in Signal, Abandon(r, signal)
      PROVE  TypeOK'
  <2> DEFINE row == [attempt[r] EXCEPT !.signal = signal]
  <2>1. row \in AttemptRow /\ row.phase = attempt[r].phase /\ row.task = attempt[r].task
    BY DEF TypeOK, AttemptRow
  <2>2. attempt' = [attempt EXCEPT ![r] = row]
    BY <1>3 DEF Abandon
  <2> HIDE DEF row
  <2>3. /\ attempt' \in [Request -> AttemptRow]
        /\ \A x \in Request : attempt'[x].phase \in Live => attempt'[x].task \in Task
    BY <2>1, <2>2 DEF TypeOK
  <2>4. turn' \in [Task -> Request \cup {NoRequest}] /\ mishaps' \in Nat
    <3>1. turn' = [turn EXCEPT ![TaskOf(r)] = NoRequest] /\ mishaps' = mishaps + 1
      BY <1>3 DEF Abandon, Mishap
    <3>2. turn \in [Task -> Request \cup {NoRequest}]
      BY DEF TypeOK
    <3>3. turn' \in [Task -> Request \cup {NoRequest}]
      BY <3>1, <3>2, Zenon
    <3>4. mishaps' \in Nat
      BY <1>0, <3>1
    <3>5. QED
      BY <3>3, <3>4
  <2>5. QED
    BY <1>3, <2>3, <2>4 DEF Abandon, TypeOK, LedgerTypeOK
<1>4. ASSUME NEW r \in Request, Stop(r)
      PROVE  TypeOK'
  BY <1>0, <1>4, FinishTypes DEF Stop, Mishap, TypeOK, LedgerTypeOK
<1>5. ASSUME NEW r \in Request, Perform(r) \/ Refuse(r)
      PROVE  TypeOK'
  BY <1>5 DEF Perform, Refuse, TypeOK, LedgerTypeOK
<1>6. ASSUME NEW r \in Request, Reconcile(r)
      PROVE  TypeOK'
  BY <1>0, <1>6, LedgerTypes DEF Reconcile, ReconcileMeasured, TypeOK
<1>7. ASSUME NEW a \in Account, NEW m \in Payment, Pay(a, m)
      PROVE  TypeOK'
  BY <1>7 DEF Pay, Issue, TypeOK, LedgerTypeOK
<1>8. ASSUME NEW b \in Budget, RevokeBudget(b)
      PROVE  TypeOK'
  BY <1>8 DEF RevokeBudget, Revoke, TypeOK, LedgerTypeOK
<1>9. \A r \in Request : TimeOut(r) \/ LoseExecutor(r) => TypeOK'
  BY <1>3 DEF TimeOut, LoseExecutor, Signal
<1>10. QED
  BY <1>1, <1>2, <1>4, <1>5, <1>6, <1>7, <1>8, <1>9 DEF Next

\* Rows, counters and phases stay within their types, and an attempt that is
\* under way belongs to a Task.
THEOREM TypeCorrect == Spec => []TypeOK
<1>1. Init => TypeOK
  BY DEF Init, LedgerInit, TypeOK, LedgerTypeOK, LedgerCall, CallState, AttemptRow, Live, Signal
<1>2. TypeOK /\ [Next]_vars => TypeOK'
  <2>1. CASE UNCHANGED vars
    BY <2>1 DEF vars, TypeOK, LedgerTypeOK
  <2>2. QED
    BY <2>1, ProgressTypes, OtherTypes
<1>3. QED
  BY <1>1, <1>2, PTL DEF Spec

-----------------------------------------------------------------------------
(* Charges match use *)

\* ChargesMatchUse says nothing of an attempt under way.  What keeps it true is
\* the order of an attempt: nothing is sent before it is held, the hold is only
\* given back before it is sent, and what was sent stays unresolved until the
\* provider has decided.
Order ==
  \A r \in Request :
    /\ attempt[r].phase \in {"unborn", "checking", "reserving"} =>
         calls[r].state = "absent" /\ provider[r] = "none"
    /\ attempt[r].phase = "held" => calls[r].state = "reserved" /\ provider[r] = "none"
    /\ attempt[r].phase \in {"settling", "doubting"} => provider[r] = "used"
    /\ provider[r] = "sent" => calls[r].state \in Unresolved
    /\ provider[r] = "refused" => calls[r].state # "settled"

Accounted == ChargesMatchUse /\ Order

\* A step of an attempt whose rows are all that changes.
LEMMA OneCall ==
  ASSUME TypeOK, Accounted, NEW r \in Request, NEW phase, NEW row,
         \A x \in Request \ {r} : /\ calls'[x] = calls[x] /\ attempt'[x].phase = attempt[x].phase
                                  /\ provider'[x] = provider[x] /\ cost'[x] = cost[x],
         attempt'[r].phase = phase, calls'[r] = row,
         phase \in {"unborn", "checking", "reserving"} =>
           row.state = "absent" /\ provider'[r] = "none",
         phase = "held" => row.state = "reserved" /\ provider'[r] = "none",
         phase \in {"settling", "doubting"} => provider'[r] = "used",
         provider'[r] = "sent" => row.state \in Unresolved,
         provider'[r] = "refused" => row.state # "settled",
         row.state = "settled" => provider'[r] = "used" /\ row.charged = Due(row, cost'[r]),
         row.state = "released" => provider'[r] \in {"none", "refused"},
         provider'[r] = "used" => row.state \in Unresolved \cup {"settled"}
  PROVE  Accounted'
<1>1. ChargesMatchUse'
  <2> SUFFICES ASSUME NEW x \in Request
               PROVE  /\ calls'[x].state = "settled" =>
                           provider'[x] = "used" /\ calls'[x].charged = Due(calls'[x], cost'[x])
                      /\ calls'[x].state = "released" => provider'[x] \in {"none", "refused"}
                      /\ provider'[x] = "used" => calls'[x].state \in Unresolved \cup {"settled"}
    BY DEF ChargesMatchUse, Due
  <2>1. CASE x = r
    BY <2>1
  <2>2. CASE x # r
    BY <2>2 DEF Accounted, ChargesMatchUse
  <2>3. QED
    BY <2>1, <2>2
<1>2. Order'
  BY DEF Accounted, Order
<1>3. QED
  BY <1>1, <1>2 DEF Accounted

\* What a transaction leaves in the row of its call.
LEMMA Rows ==
  ASSUME TypeOK, NEW r \in Request
  PROVE  /\ \A rated \in Nat : Settle(r, rated) =>
              /\ calls'[r].state = "settled" /\ calls'[r].charged = Due(calls'[r], rated)
              /\ \A x \in Request \ {r} : calls'[x] = calls[x]
         /\ \A kept : MarkUnknown(r, kept) =>
              calls'[r].state = "unknown" /\ \A x \in Request \ {r} : calls'[x] = calls[x]
         /\ Release(r) \/ ReconcileNotAccepted(r) =>
              calls'[r].state = "released" /\ \A x \in Request \ {r} : calls'[x] = calls[x]
         /\ \A a, b, hold : Reserve(r, a, b, hold) =>
              calls'[r].state = "reserved" /\ \A x \in Request \ {r} : calls'[x] = calls[x]
<1>0. calls \in [Request -> LedgerCall]
  BY DEF TypeOK, LedgerTypeOK
<1>1. ASSUME NEW rated \in Nat, Settle(r, rated)
      PROVE  /\ calls'[r].state = "settled" /\ calls'[r].charged = Due(calls'[r], rated)
             /\ \A x \in Request \ {r} : calls'[x] = calls[x]
  <2> DEFINE due == Due(calls[r], rated)
  <2>1. ASSUME NEW call \in LedgerCall, NEW d \in Nat
        PROVE  LET row == [call EXCEPT !.state = "settled", !.charged = d]
               IN  /\ row.state = "settled" /\ row.charged = d
                   /\ row.hold = call.hold /\ row.budget = call.budget
    BY DEF LedgerCall
  <2>2. due \in Nat
    BY <1>0, DueUnits
  <2>3. calls' = [calls EXCEPT ![r] = [calls[r] EXCEPT !.state = "settled", !.charged = due]]
    BY <1>1 DEF Settle
  <2> HIDE DEF due
  <2>4. /\ calls'[r] = [calls[r] EXCEPT !.state = "settled", !.charged = due]
        /\ \A x \in Request \ {r} : calls'[x] = calls[x]
    BY <1>0, <2>3, Zenon
  <2>5. /\ calls'[r].state = "settled" /\ calls'[r].charged = due
        /\ calls'[r].hold = calls[r].hold /\ calls'[r].budget = calls[r].budget
    BY <1>0, <2>1, <2>2, <2>4
  <2>6. Due(calls'[r], rated) = due
    BY <2>5 DEF Due, due
  <2>7. QED
    BY <2>4, <2>5, <2>6
<1>2. ASSUME NEW kept, MarkUnknown(r, kept)
      PROVE  calls'[r].state = "unknown" /\ \A x \in Request \ {r} : calls'[x] = calls[x]
  BY <1>0, <1>2 DEF MarkUnknown, LedgerCall
<1>3. ASSUME Release(r) \/ ReconcileNotAccepted(r)
      PROVE  calls'[r].state = "released" /\ \A x \in Request \ {r} : calls'[x] = calls[x]
  <2>1. calls' = [calls EXCEPT ![r] = [@ EXCEPT !.state = "released"]]
    BY <1>3 DEF Release, Released, ReconcileNotAccepted
  <2>2. QED
    BY <1>0, <2>1 DEF LedgerCall
<1>4. ASSUME NEW a, NEW b, NEW hold, Reserve(r, a, b, hold)
      PROVE  calls'[r].state = "reserved" /\ \A x \in Request \ {r} : calls'[x] = calls[x]
  <2>1. calls'[r] = [calls[r] EXCEPT !.state = "reserved", !.account = a, !.hold = hold, !.budget = b]
    BY <1>0, <1>4, Zenon DEF Reserve
  <2>2. ASSUME NEW call \in LedgerCall
        PROVE  [call EXCEPT !.state = "reserved", !.account = a, !.hold = hold, !.budget = b].state
                 = "reserved"
    BY DEF LedgerCall
  <2>3. QED
    BY <1>0, <1>4, <2>1, <2>2, Zenon DEF Reserve
<1>5. QED
  BY <1>1, <1>2, <1>3, <1>4

\* Every step of an attempt keeps the accounts.
LEMMA ProgressAccounted ==
  ASSUME TypeOK, Accounted, NEW r \in Request, Progress(r)
  PROVE  Accounted'
<1>0. /\ attempt \in [Request -> AttemptRow] /\ calls \in [Request -> LedgerCall]
      /\ cost \in [Request -> Nat]
      /\ provider \in [Request -> {"none", "sent", "used", "refused"}]
  BY DEF TypeOK, LedgerTypeOK
<1>1. ASSUME NEW phase, Move(r, phase)
      PROVE  /\ attempt'[r].phase = phase
             /\ \A x \in Request \ {r} : attempt'[x].phase = attempt[x].phase
  BY <1>0, <1>1 DEF Move, AttemptRow
<1>2. ASSUME NEW given, Finish(r, given)
      PROVE  Move(r, "over")
  BY <1>2 DEF Finish
<1>3. Order /\ ChargesMatchUse
  BY DEF Accounted
<1>4. ASSUME Move(r, "over"), UNCHANGED <<calls, provider, cost>>
      PROVE  Accounted'
  BY <1>1, <1>3, <1>4, OneCall DEF Order, ChargesMatchUse
<1>5. CASE Check(r)
  <2>1. CASE Move(r, "reserving") /\ attempt[r].phase = "checking"
    BY <1>1, <1>3, <1>5, <2>1, OneCall DEF Check, Order, ChargesMatchUse
  <2>2. QED
    BY <1>2, <1>4, <1>5, <2>1 DEF Check
<1>6. CASE Admit(r)
  <2>1. CASE Move(r, "held") /\ \E a, b, hold : Reserve(r, a, b, hold)
    <3>1. calls'[r].state = "reserved" /\ \A x \in Request \ {r} : calls'[x] = calls[x]
      BY <2>1, Rows
    <3>2. provider'[r] = "none" /\ UNCHANGED <<provider, cost>>
      BY <1>3, <1>6 DEF Admit, Order
    <3>3. QED
      BY <1>1, <2>1, <3>1, <3>2, OneCall
  <2>2. QED
    BY <1>2, <1>4, <1>6, <2>1 DEF Admit, ledgerVars
<1>7. CASE Withdraw(r)
  <2>1. Move(r, "over") /\ provider[r] = "none" /\ UNCHANGED <<provider, cost>>
    BY <1>2, <1>3, <1>7 DEF Withdraw, Order
  <2>2. calls'[r].state = "released" /\ \A x \in Request \ {r} : calls'[x] = calls[x]
    BY <1>7, Rows DEF Withdraw
  <2>3. QED
    BY <1>1, <2>1, <2>2, OneCall
<1>8. CASE Send(r)
  <2>1. Move(r, "sent") /\ calls[r].state = "reserved" /\ UNCHANGED <<calls, cost>>
    BY <1>3, <1>8 DEF Send, Order
  <2>2. provider'[r] = "sent" /\ \A x \in Request \ {r} : provider'[x] = provider[x]
    BY <1>0, <1>8 DEF Send
  <2>3. QED
    BY <1>1, <2>1, <2>2, OneCall DEF Unresolved
<1>9. ASSUME NEW kept, NEW phase, MarkUnknown(r, kept), Move(r, phase),
             UNCHANGED <<provider, cost>>,
             phase \in {"settling", "over"}, phase = "settling" => provider[r] = "used"
      PROVE  Accounted'
  <2>1. calls'[r].state = "unknown" /\ \A x \in Request \ {r} : calls'[x] = calls[x]
    BY <1>9, Rows
  <2>2. calls[r].state \in Unresolved
    BY <1>9 DEF MarkUnknown
  <2>3. QED
    BY <1>1, <1>3, <1>9, <2>1, <2>2, OneCall DEF Unresolved, Order, ChargesMatchUse
<1>10. CASE LoseUsage(r)
  BY <1>2, <1>9, <1>10 DEF LoseUsage
<1>11. CASE Retain(r)
  BY <1>9, <1>11 DEF Retain
<1>12. CASE SettleUse(r)
  <2>1. Move(r, "over") /\ provider[r] = "used" /\ Settle(r, cost[r]) /\ UNCHANGED <<provider, cost>>
    BY <1>2, <1>3, <1>12 DEF SettleUse, Order
  <2>2. /\ calls'[r].state = "settled" /\ calls'[r].charged = Due(calls'[r], cost[r])
        /\ \A x \in Request \ {r} : calls'[x] = calls[x]
    BY <1>0, <2>1, Rows
  <2>3. QED
    BY <1>1, <2>1, <2>2, OneCall
<1>13. CASE SettleFails(r)
  <2>1. CASE Move(r, "doubting") /\ provider[r] = "used"
    BY <1>1, <1>3, <1>13, <2>1, OneCall DEF SettleFails, Order, ChargesMatchUse
  <2>2. CASE Move(r, "over")
    BY <1>4, <1>13, <2>2 DEF SettleFails
  <2>3. QED
    BY <1>2, <1>13, <2>1, <2>2 DEF SettleFails
<1>14. CASE Doubt(r)
  BY <1>2, <1>4, <1>9, <1>14 DEF Doubt, ledgerVars
<1>15. CASE AnswerTooLate(r)
  BY <1>2, <1>4, <1>15 DEF AnswerTooLate
<1>16. QED
  BY <1>5, <1>6, <1>7, <1>8, <1>10, <1>11, <1>12, <1>13, <1>14, <1>15 DEF Progress

\* So do all other steps.
LEMMA OtherAccounted ==
  ASSUME TypeOK, Accounted, Next, \A r \in Request : ~Progress(r)
  PROVE  Accounted'
<1>0. /\ attempt \in [Request -> AttemptRow] /\ calls \in [Request -> LedgerCall]
      /\ cost \in [Request -> Nat]
      /\ provider \in [Request -> {"none", "sent", "used", "refused"}]
      /\ Order /\ ChargesMatchUse
  BY DEF TypeOK, LedgerTypeOK, Accounted
<1>1. ASSUME UNCHANGED <<calls, attempt, provider, cost>>
      PROVE  Accounted'
  BY <1>0, <1>1 DEF Accounted, Order, ChargesMatchUse, Due
<1>2. ASSUME NEW t \in Task, NEW r \in Request, Begin(t, r)
      PROVE  Accounted'
  <2>1. attempt'[r].phase = "checking" /\ \A x \in Request \ {r} : attempt'[x] = attempt[x]
    <3> DEFINE row == [attempt[r] EXCEPT !.phase = "checking", !.task = t]
    <3>1. attempt[r] \in AttemptRow
      BY <1>0
    <3>2. row.phase = "checking" /\ row.task = t
      BY <3>1, BegunRow, Zenon
    <3>3. attempt' = [attempt EXCEPT ![r] = row]
      BY <1>2 DEF Begin
    <3> HIDE DEF row
    <3>4. QED
      BY <1>0, <3>2, <3>3
  <2>2. attempt[r].phase = "unborn" /\ UNCHANGED <<calls, provider, cost>>
    BY <1>2 DEF Begin
  <2>3. QED
    BY <1>0, <2>1, <2>2, OneCall DEF Order, ChargesMatchUse
<1>3. ASSUME NEW r \in Request, NEW signal, Abandon(r, signal)
      PROVE  Accounted'
  <2>1. \A x \in Request : attempt'[x].phase = attempt[x].phase
    BY <1>0, <1>3 DEF Abandon, AttemptRow
  <2>2. UNCHANGED <<calls, provider, cost>>
    BY <1>3 DEF Abandon
  <2>3. QED
    BY <1>0, <2>1, <2>2, OneCall, <1>3 DEF Order, ChargesMatchUse
<1>4. ASSUME NEW r \in Request, Stop(r)
      PROVE  Accounted'
  <2>1. /\ attempt'[r].phase = "over"
        /\ \A x \in Request \ {r} : attempt'[x].phase = attempt[x].phase
    BY <1>0, <1>4 DEF Stop, Finish, Move, AttemptRow
  <2>2. UNCHANGED <<calls, provider, cost>>
    BY <1>4 DEF Stop
  <2>3. QED
    BY <1>0, <2>1, <2>2, OneCall DEF Order, ChargesMatchUse
<1>5. ASSUME NEW r \in Request, Perform(r) \/ Refuse(r)
      PROVE  Accounted'
  <2>1. /\ provider[r] = "sent" /\ provider'[r] \in {"used", "refused"}
        /\ UNCHANGED <<calls, attempt>>
        /\ \A x \in Request \ {r} : provider'[x] = provider[x] /\ cost'[x] = cost[x]
    BY <1>0, <1>5 DEF Perform, Refuse
  <2>2. calls[r].state \in Unresolved /\ attempt[r].phase \notin {"unborn", "checking", "reserving", "held", "settling", "doubting"}
    BY <1>0, <2>1 DEF Order
  <2>3. QED
    BY <1>0, <2>1, <2>2, OneCall DEF Unresolved
<1>6. ASSUME NEW r \in Request, Reconcile(r)
      PROVE  Accounted'
  <2>1. CASE provider[r] = "used" /\ Settle(r, cost[r])
    <3>1. /\ calls'[r].state = "settled" /\ calls'[r].charged = Due(calls'[r], cost[r])
          /\ \A x \in Request \ {r} : calls'[x] = calls[x]
      BY <1>0, <2>1, Rows
    <3>2. UNCHANGED <<attempt, provider, cost>> /\ attempt[r].phase \notin {"unborn", "checking", "reserving", "held"}
      BY <1>0, <1>6, <2>1 DEF Reconcile, Order
    <3>3. QED
      BY <1>0, <2>1, <3>1, <3>2, OneCall DEF Order
  <2>2. CASE /\ provider[r] = "refused" \/ (provider[r] = "none" /\ attempt[r].phase = "over")
             /\ ReconcileNotAccepted(r)
    <3>1. calls'[r].state = "released" /\ \A x \in Request \ {r} : calls'[x] = calls[x]
      BY <2>2, Rows
    <3>2. UNCHANGED <<attempt, provider, cost>> /\ attempt[r].phase \notin {"unborn", "checking", "reserving", "held", "settling", "doubting"}
      BY <1>0, <1>6, <2>2 DEF Reconcile, Order
    <3>3. QED
      BY <2>2, <3>1, <3>2, OneCall
  <2>3. QED
    BY <1>6, <2>1, <2>2 DEF Reconcile, ReconcileMeasured
<1>7. QED
  BY <1>1, <1>2, <1>3, <1>4, <1>5, <1>6
     DEF Next, TimeOut, LoseExecutor, Recover, Pay, Issue, RevokeBudget, Revoke

\* The ledger charges what was used and nothing else, and holds what may still
\* have been used, whatever times out, crashes or is reconciled, and in any order.
THEOREM UseIsCharged == Spec => []ChargesMatchUse
<1>1. Init => Accounted
  BY DEF Init, LedgerInit, Accounted, Order, ChargesMatchUse
<1>2. TypeOK /\ Accounted /\ [Next]_vars => Accounted'
  <2>1. CASE UNCHANGED vars
    BY <2>1 DEF vars, Accounted, Order, ChargesMatchUse, Due
  <2>2. QED
    BY <2>1, ProgressAccounted, OtherAccounted
<1>3. Accounted => ChargesMatchUse
  BY DEF Accounted
<1>4. QED
  BY TypeCorrect, <1>1, <1>2, <1>3, PTL DEF Spec

-----------------------------------------------------------------------------
(* A retained response is read once *)

\* The attempt a Task waits for is under way and its response is unread; and an
\* attempt about to settle has retained its response, one to come has none.
Waited ==
  /\ \A t \in Task : turn[t] # NoRequest =>
       /\ attempt[turn[t]].phase \in Live /\ attempt[turn[t]].task = t
       /\ receipts[turn[t]] = 0
  /\ \A r \in Request : /\ attempt[r].phase = "settling" => r \in results
                        /\ attempt[r].phase = "unborn" => r \notin results

ReadOnce == ResultReadOnce /\ Waited

\* The end of an attempt: what it gives is retained and unread, and of its Task.
LEMMA FinishReads ==
  ASSUME TypeOK, ReadOnce, NEW r \in Request, attempt[r].phase \in Live,
         NEW given \in SUBSET Request, Finish(r, given),
         results \subseteq results', results' \subseteq results \cup {r}, given \subseteq results',
         \A x \in given : x = r \/ (receipts[x] = 0 /\ TaskOf(x) = TaskOf(r))
  PROVE  ReadOnce'
<1>0. /\ attempt \in [Request -> AttemptRow] /\ receipts \in [Request -> Nat]
      /\ turn \in [Task -> Request \cup {NoRequest}] /\ attempt[r].task \in Task
  BY DEF TypeOK
<1>1. \A x \in Request \ {r} : attempt'[x] = attempt[x]
  BY <1>0 DEF Finish, Move
<1>2. attempt'[r].phase = "over"
  BY <1>0 DEF Finish, Move, AttemptRow
<1>3. /\ \A x \in Request : receipts'[x] = receipts[x] + (IF x \in ReadBy(r, given) THEN 1 ELSE 0)
      /\ \A t \in Task : turn'[t] = IF turn[t] = r THEN NoRequest ELSE turn[t]
  BY DEF Finish
<1>4. ASSUME NEW x \in ReadBy(r, given)
      PROVE  /\ x \in Request /\ x \in results' /\ receipts[x] = 0
             /\ \A t \in Task : turn'[t] # x
  <2>1. x \in given /\ turn[TaskOf(r)] = r
    BY <1>4 DEF ReadBy
  <2>2. receipts[x] = 0
    BY <1>0, <2>1 DEF ReadOnce, Waited, TaskOf
  <2>3. ASSUME NEW t \in Task, turn'[t] = x
        PROVE  FALSE
    <3>1. turn[t] = x /\ x # r
      BY <1>3, <2>1, <2>3
    <3>2. TaskOf(x) = t /\ TaskOf(x) = TaskOf(r)
      BY <2>1, <3>1 DEF ReadOnce, Waited, TaskOf
    <3>3. QED
      BY <2>1, <3>1, <3>2
  <2>4. QED
    BY <2>1, <2>2, <2>3
<1>5. ResultReadOnce'
  <2>1. ASSUME NEW x \in Request
        PROVE  receipts'[x] <= 1 /\ (receipts'[x] > 0 => x \in results')
    <3>1. CASE x \in ReadBy(r, given)
      BY <1>3, <1>4, <3>1
    <3>2. CASE x \notin ReadBy(r, given)
      <4>1. receipts'[x] = receipts[x]
        BY <1>0, <1>3, <3>2
      <4>2. QED
        BY <4>1 DEF ReadOnce, ResultReadOnce
    <3>3. QED
      BY <3>1, <3>2
  <2>2. QED
    BY <2>1 DEF ResultReadOnce
<1>6. Waited'
  <2>1. ASSUME NEW t \in Task, turn'[t] # NoRequest
        PROVE  /\ attempt'[turn'[t]].phase \in Live /\ attempt'[turn'[t]].task = t
               /\ receipts'[turn'[t]] = 0
    <3>1. turn'[t] = turn[t] /\ turn[t] \in Request \ {r}
      BY <1>0, <1>3, <2>1
    <3>2. turn[t] \notin ReadBy(r, given)
      BY <1>4, <3>1
    <3>3. receipts'[turn[t]] = receipts[turn[t]]
      BY <1>0, <1>3, <3>1, <3>2
    <3>4. QED
      BY <1>1, <3>1, <3>3 DEF ReadOnce, Waited
  <2>2. \A x \in Request : /\ attempt'[x].phase = "settling" => x \in results'
                           /\ attempt'[x].phase = "unborn" => x \notin results'
    BY <1>1, <1>2 DEF ReadOnce, Waited
  <2>3. QED
    BY <2>1, <2>2 DEF Waited
<1>7. QED
  BY <1>5, <1>6 DEF ReadOnce

\* A step that reads nothing and frees or keeps every turn.
LEMMA NothingRead ==
  ASSUME ReadOnce, TypeOK, UNCHANGED receipts, results \subseteq results',
         \A t \in Task : turn'[t] \in {turn[t], NoRequest},
         \A x \in Request : /\ attempt[x].phase \in Live => /\ attempt'[x].phase \in Live
                                                            /\ attempt'[x].task = attempt[x].task
                            /\ attempt'[x].phase = "settling" =>
                                 attempt[x].phase = "settling" \/ x \in results'
                            /\ attempt'[x].phase = "unborn" =>
                                 attempt[x].phase = "unborn" /\ (x \in results' => x \in results)
  PROVE  ReadOnce'
<1>1. turn \in [Task -> Request \cup {NoRequest}]
  BY DEF TypeOK
<1>2. ResultReadOnce'
  BY DEF ReadOnce, ResultReadOnce
<1>3. Waited'
  BY <1>1 DEF ReadOnce, Waited
<1>4. QED
  BY <1>2, <1>3 DEF ReadOnce

\* Every step of an attempt keeps responses read once.
LEMMA ProgressReads ==
  ASSUME TypeOK, ReadOnce, NEW r \in Request, Progress(r)
  PROVE  ReadOnce'
<1>0. /\ attempt \in [Request -> AttemptRow] /\ results \in SUBSET Request
      /\ attempt[r].phase \in Live
  BY DEF TypeOK, LedgerTypeOK, Progress, Check, Admit, Withdraw, Send, LoseUsage, Retain, SettleUse,
     SettleFails, Doubt, AnswerTooLate, Live
<1>1. ASSUME NEW phase \in Live, Move(r, phase), UNCHANGED <<turn, receipts>>,
             results \subseteq results', results' \subseteq results \cup {r},
             phase = "settling" => r \in results'
      PROVE  ReadOnce'
  <2>1. /\ attempt'[r].phase = phase /\ attempt'[r].task = attempt[r].task
        /\ \A x \in Request \ {r} : attempt'[x] = attempt[x]
    BY <1>0, <1>1 DEF Move, AttemptRow
  <2>2. QED
    BY <1>1, <2>1, NothingRead DEF Live
<1>2. ASSUME Finish(r, {}), results \subseteq results', results' \subseteq results \cup {r}
      PROVE  ReadOnce'
  BY <1>0, <1>2, FinishReads
<1>3. CASE Check(r)
  BY <1>1, <1>2, <1>3 DEF Check, Live
<1>4. CASE Admit(r)
  BY <1>1, <1>2, <1>4 DEF Admit, Reserve, ledgerVars, Live
<1>5. CASE Withdraw(r)
  BY <1>2, <1>5 DEF Withdraw, Release, Released
<1>6. CASE Send(r)
  BY <1>1, <1>6 DEF Send, Live
<1>7. CASE LoseUsage(r)
  <2>1. PICK usable \in {{}, {r}} : MarkUnknown(r, usable) /\ Finish(r, usable)
    BY <1>7 DEF LoseUsage
  <2>2. results' = results \cup usable
    BY <2>1 DEF MarkUnknown
  <2>3. QED
    BY <1>0, <2>1, <2>2, FinishReads
<1>8. CASE Retain(r)
  BY <1>1, <1>8 DEF Retain, MarkUnknown, Live
<1>9. CASE SettleUse(r)
  <2>1. results' = results
    BY <1>9 DEF SettleUse, Settle
  <2>2. CASE Finish(r, {r}) /\ attempt[r].phase = "settling"
    <3>1. r \in results
      BY <2>2 DEF ReadOnce, Waited
    <3>2. QED
      BY <1>0, <2>1, <2>2, <3>1, FinishReads
  <2>3. QED
    BY <1>2, <1>9, <2>1, <2>2 DEF SettleUse
<1>10. CASE SettleFails(r)
  <2>1. results' = results
    BY <1>10 DEF SettleFails
  <2>2. ASSUME NEW x \in Unread(TaskOf(r)), Finish(r, {x})
        PROVE  ReadOnce'
    BY <1>0, <2>1, <2>2, FinishReads DEF Unread
  <2>3. QED
    BY <1>1, <1>2, <1>10, <2>1, <2>2 DEF SettleFails, Live
<1>11. CASE Doubt(r)
  BY <1>2, <1>11 DEF Doubt, MarkUnknown, ledgerVars
<1>12. CASE AnswerTooLate(r)
  BY <1>2, <1>12 DEF AnswerTooLate
<1>13. QED
  BY <1>3, <1>4, <1>5, <1>6, <1>7, <1>8, <1>9, <1>10, <1>11, <1>12 DEF Progress

\* So do all other steps.
LEMMA OtherReads ==
  ASSUME TypeOK, ReadOnce, Next, \A r \in Request : ~Progress(r)
  PROVE  ReadOnce'
<1>0. /\ attempt \in [Request -> AttemptRow] /\ results \in SUBSET Request
      /\ receipts \in [Request -> Nat] /\ turn \in [Task -> Request \cup {NoRequest}]
      /\ \A x \in Request : attempt[x].phase \in Live => attempt[x].task \in Task
  BY DEF TypeOK, LedgerTypeOK
<1>1. ASSUME NEW t \in Task, Recover(t)
      PROVE  ReadOnce'
  <2>1. PICK x \in Unread(t) : receipts' = [receipts EXCEPT ![x] = @ + 1]
    BY <1>1 DEF Recover
  <2>2. x \in results /\ x \in Request /\ TaskOf(x) = t /\ receipts[x] = 0
    BY <1>0, <2>1 DEF Unread
  <2>3. turn[t] = NoRequest /\ UNCHANGED <<results, turn, attempt>>
    BY <1>1 DEF Recover
  <2>4. \A u \in Task : turn[u] # x
    BY <2>2, <2>3 DEF ReadOnce, Waited, TaskOf
  <2>5. receipts'[x] = 1 /\ \A y \in Request \ {x} : receipts'[y] = receipts[y]
    BY <1>0, <2>1, <2>2
  <2>6. ResultReadOnce'
    BY <2>2, <2>3, <2>5 DEF ReadOnce, ResultReadOnce
  <2>7. Waited'
    BY <1>0, <2>3, <2>4, <2>5 DEF ReadOnce, Waited
  <2>8. QED
    BY <2>6, <2>7 DEF ReadOnce
<1>2. ASSUME NEW t \in Task, NEW r \in Request, Begin(t, r)
      PROVE  ReadOnce'
  <2>1. /\ attempt'[r].phase = "checking" /\ attempt'[r].task = t
        /\ \A x \in Request \ {r} : attempt'[x] = attempt[x]
    <3> DEFINE row == [attempt[r] EXCEPT !.phase = "checking", !.task = t]
    <3>1. attempt[r] \in AttemptRow
      BY <1>0
    <3>2. row.phase = "checking" /\ row.task = t
      BY <3>1, BegunRow, Zenon
    <3>3. attempt' = [attempt EXCEPT ![r] = row]
      BY <1>2 DEF Begin
    <3> HIDE DEF row
    <3>4. QED
      BY <1>0, <3>2, <3>3
  <2>2. receipts[r] = 0 /\ r \notin results /\ UNCHANGED <<results, receipts>>
    BY <1>0, <1>2 DEF Begin, ReadOnce, ResultReadOnce, Waited
  <2>3. turn'[t] = r /\ \A u \in Task \ {t} : turn'[u] = turn[u]
    BY <1>0, <1>2 DEF Begin
  <2>4. ASSUME NEW u \in Task, turn'[u] # NoRequest
        PROVE  /\ attempt'[turn'[u]].phase \in Live /\ attempt'[turn'[u]].task = u
               /\ receipts'[turn'[u]] = 0
    <3>1. CASE u = t
      BY <2>1, <2>2, <2>3, <3>1 DEF Live
    <3>2. CASE u # t
      <4>1. turn'[u] = turn[u] /\ turn[u] \in Request /\ attempt[turn[u]].phase \in Live
        BY <1>0, <2>3, <2>4, <3>2 DEF ReadOnce, Waited
      <4>2. turn[u] # r
        BY <1>2, <4>1 DEF Begin, Live
      <4>3. QED
        BY <2>1, <2>2, <2>4, <3>2, <4>1, <4>2 DEF ReadOnce, Waited
    <3>3. QED
      BY <3>1, <3>2
  <2>5. Waited'
    BY <2>1, <2>2, <2>4 DEF ReadOnce, Waited
  <2>6. QED
    BY <2>2, <2>5 DEF ReadOnce, ResultReadOnce
<1>3. ASSUME NEW r \in Request, NEW signal, Abandon(r, signal)
      PROVE  ReadOnce'
  <2>1. \A x \in Request : attempt'[x].phase = attempt[x].phase /\ attempt'[x].task = attempt[x].task
    BY <1>0, <1>3 DEF Abandon, AttemptRow
  <2>2. /\ \A t \in Task : turn'[t] \in {turn[t], NoRequest}
        /\ UNCHANGED <<results, receipts>>
    BY <1>0, <1>3 DEF Abandon
  <2>3. QED
    BY <2>1, <2>2, NothingRead
<1>4. ASSUME NEW r \in Request, Stop(r)
      PROVE  ReadOnce'
  BY <1>0, <1>4, FinishReads DEF Stop
<1>5. ASSUME UNCHANGED <<turn, attempt, receipts, results>>
      PROVE  ReadOnce'
  BY <1>5 DEF ReadOnce, ResultReadOnce, Waited
<1>6. ASSUME NEW r \in Request, Perform(r) \/ Refuse(r) \/ Reconcile(r)
      PROVE  ReadOnce'
  BY <1>5, <1>6 DEF Perform, Refuse, Reconcile, ReconcileMeasured, Settle, ReconcileNotAccepted, Released
<1>7. QED
  BY <1>1, <1>2, <1>3, <1>4, <1>5, <1>6
     DEF Next, TimeOut, LoseExecutor, Pay, Issue, RevokeBudget, Revoke

\* Time-outs, lost executors, late answers and failed settlements never put one
\* response into the history of its Task twice.
THEOREM ResponsesReadOnce == Spec => []ResultReadOnce
<1>1. Init => ReadOnce
  BY DEF Init, LedgerInit, ReadOnce, ResultReadOnce, Waited
<1>2. TypeOK /\ ReadOnce /\ [Next]_vars => ReadOnce'
  <2>1. CASE UNCHANGED vars
    BY <2>1 DEF vars, ReadOnce, ResultReadOnce, Waited
  <2>2. QED
    BY <2>1, ProgressReads, OtherReads
<1>3. ReadOnce => ResultReadOnce
  BY DEF ReadOnce
<1>4. QED
  BY TypeCorrect, <1>1, <1>2, <1>3, PTL DEF Spec

-----------------------------------------------------------------------------
(* Money *)

\* What one call adds to the sums over the calls in S.
UsedIn(c, S, r) == IF r \in S THEN c[r].charged ELSE 0
HeldIn(c, S, r) == IF r \in S /\ c[r].state \in Unresolved THEN c[r].hold ELSE 0
Excess(row) == IF row.charged > row.hold THEN row.charged - row.hold ELSE 0
ExcessIn(c, S, r) == IF r \in S THEN Excess(c[r]) ELSE 0

\* The three sums, with the table they are taken over as a parameter.
UsedOf(c, S) == SumFunctionOnSet([r \in Request |-> c[r].charged], S)
HeldOf(c, S) == SumFunctionOnSet([r \in Request |-> c[r].hold], {r \in S : c[r].state \in Unresolved})
ExcessOf(c, S) == SumFunctionOnSet([r \in Request |-> Excess(c[r])], S)

\* They are numbers.
LEMMA SumsOfCalls ==
  ASSUME NEW c \in [Request -> LedgerCall], NEW S \in SUBSET Request
  PROVE  UsedOf(c, S) \in Nat /\ HeldOf(c, S) \in Nat /\ ExcessOf(c, S) \in Nat
<1>1. IsFiniteSet(S) /\ IsFiniteSet({r \in S : c[r].state \in Unresolved})
  BY FS_Subset
<1>2. \A r \in Request : c[r].charged \in Nat /\ c[r].hold \in Nat /\ Excess(c[r]) \in Nat
  BY DEF LedgerCall, Excess
<1>3. UsedOf(c, S) \in Nat
  <2> DEFINE f == [r \in Request |-> c[r].charged]
  <2>1. \A r \in S : f[r] \in Nat
    BY <1>2
  <2> HIDE DEF f
  <2>2. SumFunctionOnSet(f, S) \in Nat
    BY <1>1, <2>1, SumNat
  <2>3. QED
    BY <2>2 DEF f, UsedOf
<1>4. HeldOf(c, S) \in Nat
  <2> DEFINE f == [r \in Request |-> c[r].hold]
             T == {r \in S : c[r].state \in Unresolved}
  <2>1. \A r \in T : f[r] \in Nat
    BY <1>2
  <2> HIDE DEF f
  <2>2. SumFunctionOnSet(f, T) \in Nat
    BY <1>1, <2>1, SumNat
  <2>3. QED
    BY <2>2 DEF f, HeldOf
<1>5. ExcessOf(c, S) \in Nat
  <2> DEFINE f == [r \in Request |-> Excess(c[r])]
  <2>1. \A r \in S : f[r] \in Nat
    BY <1>2
  <2> HIDE DEF f
  <2>2. SumFunctionOnSet(f, S) \in Nat
    BY <1>1, <2>1, SumNat
  <2>3. QED
    BY <2>2 DEF f, ExcessOf
<1>6. QED
  BY <1>3, <1>4, <1>5

\* A step that writes the row of one call changes each sum by what that row adds.
LEMMA RowChangesSums ==
  ASSUME NEW c \in [Request -> LedgerCall], NEW d \in [Request -> LedgerCall], NEW r \in Request,
         \A x \in Request \ {r} : d[x] = c[x],
         NEW S \in SUBSET Request, NEW T \in SUBSET Request, S \ {r} = T \ {r}
  PROVE  /\ UsedOf(d, T) = UsedOf(c, S) - UsedIn(c, S, r) + UsedIn(d, T, r)
         /\ HeldOf(d, T) = HeldOf(c, S) - HeldIn(c, S, r) + HeldIn(d, T, r)
         /\ ExcessOf(d, T) = ExcessOf(c, S) - ExcessIn(c, S, r) + ExcessIn(d, T, r)
<1>0. /\ \A x \in Request : c[x].charged \in Nat /\ c[x].hold \in Nat /\ Excess(c[x]) \in Nat
      /\ \A x \in Request : d[x].charged \in Nat /\ d[x].hold \in Nat /\ Excess(d[x]) \in Nat
  BY DEF LedgerCall, Excess
<1>1. UsedOf(d, T) = UsedOf(c, S) - UsedIn(c, S, r) + UsedIn(d, T, r)
  <2> DEFINE f == [x \in Request |-> c[x].charged]
             g == [x \in Request |-> d[x].charged]
  <2>1. /\ \A y \in S : f[y] \in Nat
        /\ \A y \in T : g[y] \in Nat
        /\ \A y \in S \ {r} : f[y] = g[y]
    BY <1>0
  <2>2. Term(f, S, r) = UsedIn(c, S, r) /\ Term(g, T, r) = UsedIn(d, T, r)
    BY DEF Term, UsedIn
  <2> HIDE DEF f, g
  <2>3. SumFunctionOnSet(g, T) = SumFunctionOnSet(f, S) - Term(f, S, r) + Term(g, T, r)
    BY <2>1, SumChange
  <2>4. QED
    BY <2>2, <2>3 DEF f, g, UsedOf
<1>2. HeldOf(d, T) = HeldOf(c, S) - HeldIn(c, S, r) + HeldIn(d, T, r)
  <2> DEFINE f == [x \in Request |-> c[x].hold]
             g == [x \in Request |-> d[x].hold]
             before == {x \in S : c[x].state \in Unresolved}
             after == {x \in T : d[x].state \in Unresolved}
  <2>1. /\ \A y \in before : f[y] \in Nat
        /\ \A y \in after : g[y] \in Nat
        /\ \A y \in before \ {r} : f[y] = g[y]
        /\ before \ {r} = after \ {r} /\ before \in SUBSET Request /\ after \in SUBSET Request
    BY <1>0
  <2>2. Term(f, before, r) = HeldIn(c, S, r) /\ Term(g, after, r) = HeldIn(d, T, r)
    BY DEF Term, HeldIn
  <2> HIDE DEF f, g, before, after
  <2>3. SumFunctionOnSet(g, after) = SumFunctionOnSet(f, before) - Term(f, before, r) + Term(g, after, r)
    BY <2>1, SumChange
  <2>4. QED
    BY <2>2, <2>3 DEF f, g, before, after, HeldOf
<1>3. ExcessOf(d, T) = ExcessOf(c, S) - ExcessIn(c, S, r) + ExcessIn(d, T, r)
  <2> DEFINE f == [x \in Request |-> Excess(c[x])]
             g == [x \in Request |-> Excess(d[x])]
  <2>1. /\ \A y \in S : f[y] \in Nat
        /\ \A y \in T : g[y] \in Nat
        /\ \A y \in S \ {r} : f[y] = g[y]
    BY <1>0
  <2>2. Term(f, S, r) = ExcessIn(c, S, r) /\ Term(g, T, r) = ExcessIn(d, T, r)
    BY DEF Term, ExcessIn
  <2> HIDE DEF f, g
  <2>3. SumFunctionOnSet(g, T) = SumFunctionOnSet(f, S) - Term(f, S, r) + Term(g, T, r)
    BY <2>1, SumChange
  <2>4. QED
    BY <2>2, <2>3 DEF f, g, ExcessOf
<1>4. QED
  BY <1>1, <1>2, <1>3

\* The properties in terms of these sums, before and after a step.
LEMMA MoneyInSums ==
  /\ \A a : Available(a) = Issued(a) - UsedOf(calls, CallsOf(a)) - HeldOf(calls, CallsOf(a))
  /\ \A a : Overdraft(a) = ExcessOf(calls, CallsOf(a))
  /\ \A b : Charged(CallsUnder(b)) + Held(CallsUnder(b))
              = UsedOf(calls, CallsUnder(b)) + HeldOf(calls, CallsUnder(b))
  /\ \A a : Available(a)' = Issued(a)' - UsedOf(calls', CallsOf(a)') - HeldOf(calls', CallsOf(a)')
  /\ \A a : Overdraft(a)' = ExcessOf(calls', CallsOf(a)')
  /\ \A b : (Charged(CallsUnder(b)) + Held(CallsUnder(b)))'
              = UsedOf(calls', CallsUnder(b)') + HeldOf(calls', CallsUnder(b)')
  BY DEF Available, Charged, Held, Holding, Overdraft, UsedOf, HeldOf, ExcessOf, Excess

\* What a payment has issued to an account is a number.
LEMMA IssuedNat ==
  ASSUME LedgerTypeOK, NEW a
  PROVE  Issued(a) \in Nat
<1> DEFINE paid == {m \in Payment : issued[m] = a}
<1>1. IsFiniteSet(paid) /\ \A m \in paid : AmountOf[m] \in Nat
  BY FS_Subset
<1> HIDE DEF paid
<1>2. SumFunctionOnSet(AmountOf, paid) \in Nat
  BY <1>1, SumNat
<1>3. QED
  BY <1>2 DEF Issued, paid

\* What a settlement charges to a budget is within its hold.
LEMMA DueWithinHold ==
  ASSUME NEW call \in LedgerCall, call.budget # NoBudget, NEW rated \in Nat
  PROVE  Due(call, rated) <= call.hold
  BY DEF Due, LedgerCall

\* A step that changes the row of a call and keeps its account and its budget:
\* money stays bounded when the call takes no more of them than before, where
\* what it used beyond its hold is owed and not promised.
LEMMA RowKeepsMoney ==
  ASSUME TypeOK, TypeOK', MoneyBounded, UNCHANGED issued, NEW r \in Request,
         \A x \in Request \ {r} : calls'[x] = calls[x],
         NEW row \in LedgerCall, NEW new \in LedgerCall, calls[r] = row, calls'[r] = new,
         new.account = row.account, new.budget = row.budget,
         NEW before \in Nat, NEW after \in Nat,
         before = (IF row.state \in Unresolved THEN row.hold ELSE 0),
         after = (IF new.state \in Unresolved THEN new.hold ELSE 0),
         new.charged - Excess(new) + after <= row.charged - Excess(row) + before,
         new.budget # NoBudget => new.charged + after <= row.charged + before
  PROVE  MoneyBounded'
<1>0. calls \in [Request -> LedgerCall] /\ calls' \in [Request -> LedgerCall]
  BY DEF TypeOK, LedgerTypeOK
<1>1. OverdraftIsUse'
  <2> SUFFICES ASSUME NEW a \in Account
               PROVE  Available(a)' + Overdraft(a)' >= 0
    BY DEF OverdraftIsUse
  <2> DEFINE S == CallsOf(a)
             T == CallsOf(a)'
  <2>1. S \in SUBSET Request /\ T = S
    BY <1>0 DEF CallsOf
  <2>2. Issued(a)' = Issued(a) /\ Issued(a) \in Nat
    <3>1. Issued(a)' = Issued(a)
      BY DEF Issued
    <3>2. Issued(a) \in Nat
      BY IssuedNat DEF TypeOK
    <3>3. QED
      BY <3>1, <3>2
  <2>3. /\ UsedOf(calls', S) = UsedOf(calls, S) - UsedIn(calls, S, r) + UsedIn(calls', S, r)
        /\ HeldOf(calls', S) = HeldOf(calls, S) - HeldIn(calls, S, r) + HeldIn(calls', S, r)
        /\ ExcessOf(calls', S) = ExcessOf(calls, S) - ExcessIn(calls, S, r) + ExcessIn(calls', S, r)
    <3> HIDE DEF S
    <3>1. QED
      BY <1>0, <2>1, RowChangesSums
  <2>4. /\ UsedOf(calls, S) \in Nat /\ HeldOf(calls, S) \in Nat /\ ExcessOf(calls, S) \in Nat
        /\ Excess(row) \in Nat /\ Excess(new) \in Nat
    BY <1>0, <2>1, SumsOfCalls DEF Excess, LedgerCall
  <2>5. Issued(a) - UsedOf(calls, S) - HeldOf(calls, S) + ExcessOf(calls, S) >= 0
    BY MoneyInSums DEF MoneyBounded, OverdraftIsUse
  <2>6. /\ Available(a)' = Issued(a) - UsedOf(calls', S) - HeldOf(calls', S)
        /\ Overdraft(a)' = ExcessOf(calls', S)
    BY <2>1, <2>2, MoneyInSums
  <2> HIDE DEF S, T
  <2>7. CASE r \in S
    <3>1. /\ UsedIn(calls, S, r) = row.charged /\ UsedIn(calls', S, r) = new.charged
          /\ HeldIn(calls, S, r) = before /\ HeldIn(calls', S, r) = after
          /\ ExcessIn(calls, S, r) = Excess(row) /\ ExcessIn(calls', S, r) = Excess(new)
      BY <2>7 DEF UsedIn, HeldIn, ExcessIn
    <3>2. row.charged \in Nat /\ new.charged \in Nat
      BY DEF LedgerCall
    <3>3. QED
      BY <2>2, <2>3, <2>4, <2>5, <2>6, <3>1, <3>2
  <2>8. CASE r \notin S
    <3>1. /\ UsedIn(calls, S, r) = 0 /\ UsedIn(calls', S, r) = 0
          /\ HeldIn(calls, S, r) = 0 /\ HeldIn(calls', S, r) = 0
          /\ ExcessIn(calls, S, r) = 0 /\ ExcessIn(calls', S, r) = 0
      BY <2>8 DEF UsedIn, HeldIn, ExcessIn
    <3>2. QED
      BY <2>2, <2>3, <2>4, <2>5, <2>6, <3>1
  <2>9. QED
    BY <2>7, <2>8
<1>2. BudgetCeiling'
  <2> SUFFICES ASSUME NEW b \in Budget
               PROVE  (Charged(CallsUnder(b)) + Held(CallsUnder(b)))' <= MaximumOf[b]
    BY DEF BudgetCeiling
  <2> DEFINE S == CallsUnder(b)
             T == CallsUnder(b)'
  <2>1. S \in SUBSET Request /\ T = S
    BY <1>0 DEF CallsUnder
  <2>2. /\ UsedOf(calls', S) = UsedOf(calls, S) - UsedIn(calls, S, r) + UsedIn(calls', S, r)
        /\ HeldOf(calls', S) = HeldOf(calls, S) - HeldIn(calls, S, r) + HeldIn(calls', S, r)
    <3> HIDE DEF S
    <3>1. QED
      BY <1>0, <2>1, RowChangesSums
  <2>3. UsedOf(calls, S) \in Nat /\ HeldOf(calls, S) \in Nat
    BY <1>0, <2>1, SumsOfCalls
  <2>4. UsedOf(calls, S) + HeldOf(calls, S) <= MaximumOf[b] /\ MaximumOf[b] \in Nat
    BY MoneyInSums DEF MoneyBounded, BudgetCeiling
  <2>5. (Charged(CallsUnder(b)) + Held(CallsUnder(b)))' = UsedOf(calls', S) + HeldOf(calls', S)
    BY <2>1, MoneyInSums
  <2>6. r \in S => new.budget # NoBudget
    BY DEF CallsUnder
  <2> HIDE DEF S, T
  <2>7. CASE r \in S
    <3>1. /\ UsedIn(calls, S, r) = row.charged /\ UsedIn(calls', S, r) = new.charged
          /\ HeldIn(calls, S, r) = before /\ HeldIn(calls', S, r) = after
      BY <2>7 DEF UsedIn, HeldIn
    <3>2. row.charged \in Nat /\ new.charged \in Nat
      BY DEF LedgerCall
    <3>3. QED
      BY <2>2, <2>3, <2>4, <2>5, <2>6, <2>7, <3>1, <3>2
  <2>8. CASE r \notin S
    <3>1. /\ UsedIn(calls, S, r) = 0 /\ UsedIn(calls', S, r) = 0
          /\ HeldIn(calls, S, r) = 0 /\ HeldIn(calls', S, r) = 0
      BY <2>8 DEF UsedIn, HeldIn
    <3>2. QED
      BY <2>2, <2>3, <2>4, <2>5, <3>1
  <2>9. QED
    BY <2>7, <2>8
<1>3. QED
  BY <1>1, <1>2 DEF MoneyBounded


\* A reservation: the account covers the hold, and the budget admits it.
LEMMA ReserveKeepsMoney ==
  ASSUME TypeOK, TypeOK', MoneyBounded, NEW r \in Request, NEW a \in Account,
         NEW b \in Budget \cup {NoBudget}, NEW hold \in Nat, Reserve(r, a, b, hold)
  PROVE  MoneyBounded'
<1> DEFINE row == calls[r]
           new == [row EXCEPT !.state = "reserved", !.account = a, !.hold = hold, !.budget = b]
<1>0. /\ calls \in [Request -> LedgerCall] /\ calls' \in [Request -> LedgerCall]
      /\ row \in LedgerCall /\ UNCHANGED issued
  BY DEF TypeOK, LedgerTypeOK, Reserve
<1>1. row.state = "absent" /\ row.account = NoAccount /\ row.charged = 0
  BY <1>0 DEF Reserve, LedgerCall
<1>2. /\ new.state = "reserved" /\ new.account = a /\ new.hold = hold /\ new.budget = b
      /\ new.charged = 0
  <2> HIDE DEF row
  <2>1. QED
    BY <1>0, <1>1 DEF LedgerCall
<1>3. calls' = [calls EXCEPT ![r] = new]
  BY DEF Reserve
<1> HIDE DEF row, new
<1>4. calls'[r] = new /\ calls[r] = row /\ \A x \in Request \ {r} : calls'[x] = calls[x]
  BY <1>0, <1>3 DEF row
<1>5. OverdraftIsUse'
  <2> SUFFICES ASSUME NEW c \in Account
               PROVE  Available(c)' + Overdraft(c)' >= 0
    BY DEF OverdraftIsUse
  <2> DEFINE S == CallsOf(c)
             T == CallsOf(c)'
  <2>1. /\ S \in SUBSET Request /\ T \in SUBSET Request /\ S \ {r} = T \ {r}
        /\ r \notin S /\ (r \in T <=> c = a)
    BY <1>1, <1>2, <1>4 DEF CallsOf
  <2>2. Issued(c)' = Issued(c)
    BY <1>0 DEF Issued
  <2>3. Issued(c) \in Nat
    BY IssuedNat DEF TypeOK
  <2>4. Issued(c) - UsedOf(calls, S) - HeldOf(calls, S) + ExcessOf(calls, S) >= 0
    BY MoneyInSums DEF MoneyBounded, OverdraftIsUse
  <2>5. c = a /\ hold > 0 => Issued(c) - UsedOf(calls, S) - HeldOf(calls, S) >= hold
    BY MoneyInSums DEF Reserve, Covers
  <2>6. /\ Available(c)' = Issued(c) - UsedOf(calls', T) - HeldOf(calls', T)
        /\ Overdraft(c)' = ExcessOf(calls', T)
    BY <2>2, MoneyInSums
  <2> HIDE DEF S, T
  <2>7. /\ UsedOf(calls', T) = UsedOf(calls, S) - UsedIn(calls, S, r) + UsedIn(calls', T, r)
        /\ HeldOf(calls', T) = HeldOf(calls, S) - HeldIn(calls, S, r) + HeldIn(calls', T, r)
        /\ ExcessOf(calls', T) = ExcessOf(calls, S) - ExcessIn(calls, S, r) + ExcessIn(calls', T, r)
    BY <1>0, <1>4, <2>1, RowChangesSums
  <2>8. /\ UsedOf(calls, S) \in Nat /\ HeldOf(calls, S) \in Nat /\ ExcessOf(calls, S) \in Nat
    BY <1>0, <2>1, SumsOfCalls
  <2>9. /\ UsedIn(calls, S, r) = 0 /\ UsedIn(calls', T, r) = 0
        /\ HeldIn(calls, S, r) = 0 /\ HeldIn(calls', T, r) = (IF c = a THEN hold ELSE 0)
        /\ ExcessIn(calls, S, r) = 0 /\ ExcessIn(calls', T, r) = 0
    BY <1>2, <1>4, <2>1 DEF UsedIn, HeldIn, ExcessIn, Excess, Unresolved
  <2>10. QED
    BY <2>3, <2>4, <2>5, <2>6, <2>7, <2>8, <2>9
<1>6. BudgetCeiling'
  <2> SUFFICES ASSUME NEW c \in Budget
               PROVE  (Charged(CallsUnder(c)) + Held(CallsUnder(c)))' <= MaximumOf[c]
    BY DEF BudgetCeiling
  <2> DEFINE S == CallsUnder(c)
             T == CallsUnder(c)'
  <2>1. /\ S \in SUBSET Request /\ T \in SUBSET Request /\ S \ {r} = T \ {r}
        /\ r \in T <=> c = b
    BY <1>2, <1>4 DEF CallsUnder
  <2>2. UsedOf(calls, S) + HeldOf(calls, S) <= MaximumOf[c] /\ MaximumOf[c] \in Nat
    BY MoneyInSums DEF MoneyBounded, BudgetCeiling
  <2>3. c = b => UsedOf(calls, S) + HeldOf(calls, S) + hold <= MaximumOf[c]
    BY MoneyInSums DEF Reserve, Admits
  <2>4. (Charged(CallsUnder(c)) + Held(CallsUnder(c)))' = UsedOf(calls', T) + HeldOf(calls', T)
    BY MoneyInSums
  <2> HIDE DEF S, T
  <2>5. /\ UsedOf(calls', T) = UsedOf(calls, S) - UsedIn(calls, S, r) + UsedIn(calls', T, r)
        /\ HeldOf(calls', T) = HeldOf(calls, S) - HeldIn(calls, S, r) + HeldIn(calls', T, r)
    BY <1>0, <1>4, <2>1, RowChangesSums
  <2>6. UsedOf(calls, S) \in Nat /\ HeldOf(calls, S) \in Nat
    BY <1>0, <2>1, SumsOfCalls
  <2>7. /\ UsedIn(calls, S, r) = 0 /\ UsedIn(calls', T, r) = 0
        /\ HeldIn(calls, S, r) = 0 /\ HeldIn(calls', T, r) = (IF c = b THEN hold ELSE 0)
    BY <1>1, <1>2, <1>4, <2>1 DEF UsedIn, HeldIn, Unresolved
  <2>8. QED
    BY <2>2, <2>3, <2>4, <2>5, <2>6, <2>7
<1>7. QED
  BY <1>5, <1>6 DEF MoneyBounded

\* The other transactions of the ledger take nothing that was not held, and a
\* payment only adds.
LEMMA LedgerKeepsMoney ==
  ASSUME TypeOK, TypeOK', MoneyBounded
  PROVE  /\ \A r \in Request, rated \in Nat : Settle(r, rated) => MoneyBounded'
         /\ \A r \in Request : Holding(r) /\ Released(r) => MoneyBounded'
         /\ \A r \in Request, given \in SUBSET Request : MarkUnknown(r, given) => MoneyBounded'
         /\ \A a \in Account, m \in Payment : Issue(a, m) => MoneyBounded'
         /\ UNCHANGED <<calls, issued>> => MoneyBounded'
<1>0. /\ calls \in [Request -> LedgerCall] /\ calls' \in [Request -> LedgerCall]
      /\ issued \in [Payment -> Account \cup {NoAccount}]
  BY DEF TypeOK, LedgerTypeOK
<1>1. ASSUME NEW r \in Request, NEW rated \in Nat, Settle(r, rated)
      PROVE  MoneyBounded'
  <2> DEFINE row == calls[r]
             due == Due(row, rated)
             new == [row EXCEPT !.state = "settled", !.charged = due]
  <2>1. row \in LedgerCall /\ row.state \in Unresolved /\ due \in Nat
    BY <1>0, <1>1, DueUnits DEF Settle
  <2>2. row.charged = 0 /\ row.hold \in Nat /\ (row.budget # NoBudget => due <= row.hold)
    BY <2>1, DueWithinHold DEF LedgerCall, Unresolved
  <2>3. calls' = [calls EXCEPT ![r] = new] /\ UNCHANGED issued
    BY <1>1 DEF Settle
  <2> HIDE DEF row, due
  <2>4. /\ new.state = "settled" /\ new.charged = due /\ new.hold = row.hold
        /\ new.account = row.account /\ new.budget = row.budget
    BY <2>1 DEF LedgerCall
  <2>5. new \in LedgerCall
    BY <2>1, CallRows
  <2> HIDE DEF new
  <2>6. calls'[r] = new /\ calls[r] = row /\ \A x \in Request \ {r} : calls'[x] = calls[x]
    BY <1>0, <2>3 DEF row
  <2>7. (IF row.state \in Unresolved THEN row.hold ELSE 0) = row.hold
    BY <2>1
  <2>8. (IF new.state \in Unresolved THEN new.hold ELSE 0) = 0
    BY <2>4 DEF Unresolved
  <2>9. Excess(row) = 0 /\ new.charged - Excess(new) <= row.hold
    BY <2>1, <2>2, <2>4 DEF Excess
  <2>10. Excess(new) \in Nat
    BY <2>1, <2>2, <2>4 DEF Excess
  <2>11. /\ new.charged - Excess(new) + 0 <= row.charged - Excess(row) + row.hold
         /\ new.budget # NoBudget => new.charged + 0 <= row.charged + row.hold
    BY <2>1, <2>2, <2>4, <2>9, <2>10
  <2>12. QED
    BY <2>1, <2>2, <2>3, <2>4, <2>5, <2>6, <2>7, <2>8, <2>11, RowKeepsMoney
<1>2. ASSUME NEW r \in Request, Holding(r), NEW state \in {"unknown", "released"},
             calls' = [calls EXCEPT ![r] = [@ EXCEPT !.state = state]], UNCHANGED issued
      PROVE  MoneyBounded'
  <2> DEFINE row == calls[r]
             new == [row EXCEPT !.state = state]
             before == row.hold
             after == IF state = "unknown" THEN row.hold ELSE 0
  <2>1. row \in LedgerCall /\ row.state \in Unresolved
    BY <1>0, <1>2 DEF Holding
  <2>2. row.charged = 0 /\ row.hold \in Nat
    BY <2>1 DEF LedgerCall, Unresolved
  <2>3. calls' = [calls EXCEPT ![r] = new]
    BY <1>2
  <2> HIDE DEF row
  <2>4. /\ new.state = state /\ new.charged = 0 /\ new.hold = row.hold
        /\ new.account = row.account /\ new.budget = row.budget
    BY <2>1, <2>2 DEF LedgerCall
  <2>5. new \in LedgerCall
    BY <2>1, CallRows
  <2> HIDE DEF new
  <2>6. calls'[r] = new /\ calls[r] = row /\ \A x \in Request \ {r} : calls'[x] = calls[x]
    BY <1>0, <2>3 DEF row
  <2>7. before = (IF row.state \in Unresolved THEN row.hold ELSE 0)
    BY <2>1
  <2>8. after = (IF new.state \in Unresolved THEN new.hold ELSE 0)
    BY <2>4 DEF Unresolved
  <2>9. Excess(row) = 0 /\ Excess(new) = 0
    BY <2>2, <2>4 DEF Excess
  <2>10. before \in Nat /\ after \in Nat /\ after <= before
    BY <2>2
  <2> HIDE DEF before, after
  <2>11. /\ new.charged - Excess(new) + after <= row.charged - Excess(row) + before
         /\ new.budget # NoBudget => new.charged + after <= row.charged + before
    BY <2>2, <2>4, <2>9, <2>10
  <2>12. QED
    BY <1>2, <2>1, <2>4, <2>5, <2>6, <2>7, <2>8, <2>10, <2>11, RowKeepsMoney
<1>3. ASSUME NEW a \in Account, NEW m \in Payment, Issue(a, m)
      PROVE  MoneyBounded'
  <2>1. UNCHANGED calls /\ issued[m] = NoAccount /\ issued' = [issued EXCEPT ![m] = a]
    BY <1>3 DEF Issue
  <2>2. ASSUME NEW c \in Account
        PROVE  Issued(c)' >= Issued(c) /\ Issued(c) \in Nat /\ Issued(c)' \in Nat
    <3> DEFINE S == {x \in Payment : issued[x] = c}
               T == {x \in Payment : issued'[x] = c}
    <3>1. /\ S \in SUBSET Payment /\ T \in SUBSET Payment /\ S \ {m} = T \ {m} /\ m \notin S
          /\ \A x \in Payment : AmountOf[x] \in Nat
      BY <1>0, <2>1
    <3>2. SumFunctionOnSet(AmountOf, S) = Issued(c) /\ SumFunctionOnSet(AmountOf, T) = Issued(c)'
      BY DEF Issued
    <3> HIDE DEF S, T
    <3>3. SumFunctionOnSet(AmountOf, T) =
            SumFunctionOnSet(AmountOf, S) - Term(AmountOf, S, m) + Term(AmountOf, T, m)
      BY <3>1, SumChange
    <3>4. Term(AmountOf, S, m) = 0 /\ Term(AmountOf, T, m) \in Nat
      BY <3>1 DEF Term
    <3>5. Issued(c) \in Nat
      BY IssuedNat DEF TypeOK
    <3>6. QED
      BY <3>2, <3>3, <3>4, <3>5
  <2>3. OverdraftIsUse'
    <3> SUFFICES ASSUME NEW c \in Account
                 PROVE  Available(c)' + Overdraft(c)' >= 0
      BY DEF OverdraftIsUse
    <3> DEFINE S == CallsOf(c)
    <3>1. CallsOf(c)' = S /\ S \in SUBSET Request
      BY <2>1 DEF CallsOf
    <3>2. Issued(c) - UsedOf(calls, S) - HeldOf(calls, S) + ExcessOf(calls, S) >= 0
      BY MoneyInSums DEF MoneyBounded, OverdraftIsUse
    <3>3. /\ Available(c)' = Issued(c)' - UsedOf(calls, S) - HeldOf(calls, S)
          /\ Overdraft(c)' = ExcessOf(calls, S)
      BY <2>1, <3>1, MoneyInSums
    <3>4. UsedOf(calls, S) \in Nat /\ HeldOf(calls, S) \in Nat /\ ExcessOf(calls, S) \in Nat
      BY <1>0, <3>1, SumsOfCalls
    <3> HIDE DEF S
    <3>5. QED
      BY <2>2, <3>2, <3>3, <3>4
  <2>4. BudgetCeiling'
    BY <2>1 DEF MoneyBounded, BudgetCeiling, Charged, Held, Holding, CallsUnder
  <2>5. QED
    BY <2>3, <2>4 DEF MoneyBounded
<1>4. ASSUME UNCHANGED <<calls, issued>>
      PROVE  MoneyBounded'
  BY <1>4 DEF MoneyBounded, OverdraftIsUse, BudgetCeiling, Available, Overdraft, Issued, Charged,
     Held, Holding, CallsOf, CallsUnder
<1>5. QED
  BY <1>1, <1>2, <1>3, <1>4 DEF Released, MarkUnknown, Holding

\* Neither money nor a budget is promised twice, by attempts of any number of
\* Tasks that are under way at once.
THEOREM MoneyIsBounded == Spec => []MoneyBounded
<1>1. Init => MoneyBounded
  <2> SUFFICES ASSUME Init PROVE MoneyBounded
    OBVIOUS
  <2>1. TypeOK
    BY DEF Init, LedgerInit, TypeOK, LedgerTypeOK, LedgerCall, CallState, AttemptRow, Live, Signal
  <2>2. \A a \in Account : CallsOf(a) = {} /\ Issued(a) \in Nat
    BY <2>1, IssuedNat DEF Init, LedgerInit, CallsOf, TypeOK
  <2>3. \A b \in Budget : CallsUnder(b) = {} /\ MaximumOf[b] \in Nat
    BY DEF Init, LedgerInit, CallsUnder
  <2>4. UsedOf(calls, {}) = 0 /\ HeldOf(calls, {}) = 0 /\ ExcessOf(calls, {}) = 0
    <3>1. {r \in {} : calls[r].state \in Unresolved} = {}
      OBVIOUS
    <3>2. QED
      BY <3>1, SumEmpty DEF UsedOf, HeldOf, ExcessOf
  <2>5. ASSUME NEW a \in Account
        PROVE  Available(a) + Overdraft(a) >= 0
    <3>1. /\ Available(a) = Issued(a) - UsedOf(calls, {}) - HeldOf(calls, {})
          /\ Overdraft(a) = ExcessOf(calls, {})
      BY <2>2, MoneyInSums
    <3>2. QED
      BY <2>2, <2>4, <3>1
  <2>6. ASSUME NEW b \in Budget
        PROVE  Charged(CallsUnder(b)) + Held(CallsUnder(b)) <= MaximumOf[b]
    <3>1. Charged(CallsUnder(b)) + Held(CallsUnder(b)) = UsedOf(calls, {}) + HeldOf(calls, {})
      BY <2>3, MoneyInSums
    <3>2. QED
      BY <2>3, <2>4, <3>1
  <2>7. QED
    BY <2>5, <2>6 DEF MoneyBounded, OverdraftIsUse, BudgetCeiling
<1>2. TypeOK /\ TypeOK' /\ MoneyBounded /\ [Next]_vars => MoneyBounded'
  <2> SUFFICES ASSUME TypeOK, TypeOK', MoneyBounded, [Next]_vars PROVE MoneyBounded'
    OBVIOUS
  <2>1. UNCHANGED <<calls, issued>> => MoneyBounded'
    BY LedgerKeepsMoney
  <2>2. ASSUME NEW r \in Request, Progress(r)
        PROVE  MoneyBounded'
    <3>0. TaskOf(r) \in Task /\ cost[r] \in Nat
      BY <2>2 DEF TypeOK, TaskOf, Live, Progress, Check, Admit, Withdraw, Send, LoseUsage, Retain,
         SettleUse, SettleFails, Doubt, AnswerTooLate
    <3>1. CASE Admit(r)
      <4> DEFINE p == PolicyOf[TaskOf(r)]
      <4>1. p.account \in Account /\ p.budget \in Budget \cup {NoBudget} /\ p.hold \in Nat
        BY <3>0
      <4>2. Reserve(r, p.account, p.budget, p.hold) \/ UNCHANGED <<calls, issued>>
        BY <3>1 DEF Admit, ledgerVars
      <4> HIDE DEF p
      <4>3. QED
        BY <2>1, <4>1, <4>2, ReserveKeepsMoney
    <3>2. CASE Withdraw(r)
      BY <3>2, LedgerKeepsMoney DEF Withdraw, Release, Releasable, Holding, Unresolved
    <3>3. CASE LoseUsage(r)
      <4>1. \E usable \in SUBSET Request : MarkUnknown(r, usable)
        BY <3>3 DEF LoseUsage
      <4>2. QED
        BY <4>1, LedgerKeepsMoney
    <3>4. CASE Retain(r)
      BY <3>4, LedgerKeepsMoney DEF Retain
    <3>5. CASE SettleUse(r)
      BY <3>0, <3>5, LedgerKeepsMoney DEF SettleUse
    <3>6. CASE Doubt(r)
      BY <2>1, <3>6, LedgerKeepsMoney DEF Doubt, ledgerVars
    <3>7. QED
      BY <2>1, <2>2, <3>1, <3>2, <3>3, <3>4, <3>5, <3>6
         DEF Progress, Check, Send, SettleFails, AnswerTooLate
  <2>3. ASSUME NEW r \in Request, Reconcile(r)
        PROVE  MoneyBounded'
    BY <2>3, LedgerKeepsMoney
       DEF Reconcile, ReconcileMeasured, ReconcileNotAccepted, NoContradiction, Holding, TypeOK
  <2>4. ASSUME NEW a \in Account, NEW m \in Payment, Pay(a, m)
        PROVE  MoneyBounded'
    BY <2>4, LedgerKeepsMoney DEF Pay
  <2>5. QED
    BY <2>1, <2>2, <2>3, <2>4
       DEF Next, vars, Recover, Begin, TimeOut, LoseExecutor, Abandon, Stop, Perform, Refuse,
           RevokeBudget, Revoke
<1>3. QED
  BY TypeCorrect, <1>1, <1>2, PTL DEF Spec


-----------------------------------------------------------------------------
(* One open request *)

\* A request that keeps its Task from another one.
Open(r) ==
  provider[r] # "none" /\ Holding(r) /\ (Continues(TaskOf(r)) => r \notin results)

\* A Task waits for an attempt exactly as long as nothing has abandoned it.
Signals ==
  \A r \in Request :
    /\ attempt[r].phase \in Live => (turn[TaskOf(r)] = r <=> attempt[r].signal = "clear")
    /\ attempt[r].phase = "unborn" => attempt[r].signal = "clear"

\* An attempt on its way to the provider, which nothing has abandoned, has seen
\* that no request of its Task is open; only an attempt whose executor was lost
\* may have become open since.
WayIsClear ==
  \A r, s \in Request :
    ( /\ attempt[r].phase \in {"reserving", "held"} /\ attempt[r].signal = "clear"
      /\ r # s /\ TaskOf(r) = TaskOf(s) /\ Open(s) )
    => attempt[s].signal = "lost"

Alone == OneOpenRequest /\ Signals /\ WayIsClear

\* The property in these terms.
LEMMA OpenPairs ==
  /\ OneOpenRequest <=>
       \A r, s \in Request : r # s /\ TaskOf(r) = TaskOf(s) /\ Open(r) /\ Open(s)
                               => "lost" \in {attempt[r].signal, attempt[s].signal}
  /\ OneOpenRequest' <=>
       \A r, s \in Request : r # s /\ TaskOf(r)' = TaskOf(s)' /\ Open(r)' /\ Open(s)'
                               => "lost" \in {attempt'[r].signal, attempt'[s].signal}
  BY DEF OneOpenRequest, Open, Holding

\* A step that opens no request, starts or abandons no attempt, and sends none
\* on its way.
LEMMA NothingOpens ==
  ASSUME Alone,
         \A x \in Request : /\ Open(x)' => Open(x)
                            /\ attempt'[x].task = attempt[x].task
                            /\ attempt'[x].signal = attempt[x].signal
                            /\ attempt'[x].phase \in Live => attempt[x].phase \in Live
                            /\ attempt'[x].phase \in {"reserving", "held"} =>
                                 attempt[x].phase \in {"reserving", "held"}
                            /\ attempt'[x].phase = "unborn" => attempt[x].phase = "unborn"
                            /\ attempt'[x].phase \in Live =>
                                 (turn'[TaskOf(x)] = x <=> turn[TaskOf(x)] = x)
  PROVE  Alone'
<1>1. \A x \in Request : TaskOf(x)' = TaskOf(x)
  BY DEF TaskOf
<1>2. OneOpenRequest'
  BY <1>1, OpenPairs DEF Alone
<1>3. Signals'
  BY <1>1 DEF Alone, Signals
<1>4. WayIsClear'
  BY <1>1 DEF Alone, WayIsClear
<1>5. QED
  BY <1>2, <1>3, <1>4 DEF Alone

\* The end of an attempt.
LEMMA FinishAlone ==
  ASSUME TypeOK, Alone, NEW r \in Request, NEW given \in SUBSET Request, Finish(r, given),
         \A x \in Request : Open(x)' => Open(x)
  PROVE  Alone'
<1>0. attempt \in [Request -> AttemptRow] /\ turn \in [Task -> Request \cup {NoRequest}]
      /\ \A x \in Request : attempt[x].phase \in Live => TaskOf(x) \in Task
  BY DEF TypeOK, TaskOf
<1>1. /\ attempt'[r].phase = "over" /\ attempt'[r].task = attempt[r].task
      /\ attempt'[r].signal = attempt[r].signal
      /\ \A x \in Request \ {r} : attempt'[x] = attempt[x]
  BY <1>0 DEF Finish, Move, AttemptRow
<1>2. \A t \in Task : turn'[t] = IF turn[t] = r THEN NoRequest ELSE turn[t]
  BY DEF Finish
<1>3. \A x \in Request \ {r} : attempt[x].phase \in Live =>
        (turn'[TaskOf(x)] = x <=> turn[TaskOf(x)] = x)
  BY <1>0, <1>2
<1>4. QED
  BY <1>1, <1>3, NothingOpens DEF Live

\* Only Send opens a request.
LEMMA OpensNothing ==
  ASSUME TypeOK, TypeOK', Accounted, NEW r \in Request,
         results \subseteq results', TaskOf(r)' = TaskOf(r),
         \A x \in Request \ {r} : calls'[x] = calls[x] /\ TaskOf(x)' = TaskOf(x),
         \A x \in Request : provider'[x] # "none" => provider[x] # "none",
         calls'[r].state \in Unresolved => calls[r].state \in Unresolved \/ provider'[r] = "none"
  PROVE  \A x \in Request : Open(x)' => Open(x)
  BY DEF Open, Holding, Continues

\* Every step of an attempt leaves its Task one open request.
LEMMA ProgressAlone ==
  ASSUME TypeOK, TypeOK', Accounted, Alone, NEW r \in Request, Progress(r)
  PROVE  Alone'
<1>0. /\ attempt \in [Request -> AttemptRow] /\ results \in SUBSET Request
      /\ turn \in [Task -> Request \cup {NoRequest}]
      /\ calls \in [Request -> LedgerCall] /\ provider \in [Request -> {"none", "sent", "used", "refused"}]
      /\ attempt[r].phase \in Live /\ TaskOf(r) \in Task
  BY DEF TypeOK, LedgerTypeOK, TaskOf, Progress, Check, Admit, Withdraw, Send, LoseUsage, Retain,
     SettleUse, SettleFails, Doubt, AnswerTooLate, Live
<1>1. ASSUME NEW phase, Move(r, phase)
      PROVE  /\ attempt'[r].phase = phase /\ attempt'[r].task = attempt[r].task
             /\ attempt'[r].signal = attempt[r].signal
             /\ \A x \in Request \ {r} : attempt'[x] = attempt[x]
             /\ \A x \in Request : TaskOf(x)' = TaskOf(x)
  BY <1>0, <1>1 DEF Move, AttemptRow, TaskOf
<1>2. ASSUME NEW given \in SUBSET Request, Finish(r, given)
      PROVE  \A x \in Request : TaskOf(x)' = TaskOf(x)
  BY <1>0, <1>1, <1>2 DEF Finish
<1>3. UNCHANGED <<calls, provider, results>> /\ (\A x \in Request : TaskOf(x)' = TaskOf(x))
        => \A x \in Request : Open(x)' => Open(x)
  BY DEF Open, Holding, Continues
<1>4. CASE Check(r)
  <2>1. UNCHANGED <<calls, provider, results>> /\ attempt[r].phase = "checking"
    BY <1>4 DEF Check
  <2>2. CASE Finish(r, {})
    BY <1>2, <1>3, <2>1, <2>2, FinishAlone
  <2>3. CASE Blocking(TaskOf(r)) = {} /\ Move(r, "reserving") /\ UNCHANGED turn
    <3>1. \A x \in Request : Open(x)' <=> Open(x)
      BY <1>1, <2>1, <2>3 DEF Open, Holding, Continues
    <3>2. \A s \in Request : TaskOf(s) = TaskOf(r) => ~Open(s)
      BY <2>3 DEF Blocking, Open, Holding
    <3>3. \A x \in Request : /\ TaskOf(x)' = TaskOf(x) /\ attempt'[x].signal = attempt[x].signal
                             /\ x # r => attempt'[x].phase = attempt[x].phase
      BY <1>1, <2>3
    <3>4. attempt'[r].phase = "reserving"
      BY <1>1, <2>3
    <3>5. OneOpenRequest'
      BY <3>1, <3>3, OpenPairs DEF Alone
    <3>6. Signals'
      BY <1>0, <2>3, <3>3, <3>4 DEF Alone, Signals
    <3>7. WayIsClear'
      BY <3>1, <3>2, <3>3 DEF Alone, WayIsClear
    <3>8. QED
      BY <3>5, <3>6, <3>7 DEF Alone
  <2>4. QED
    BY <1>4, <2>2, <2>3 DEF Check
<1>5. CASE Admit(r)
  <2>0. attempt[r].phase = "reserving" /\ UNCHANGED <<provider, results>> /\ provider[r] = "none"
    BY <1>5 DEF Admit, Reserve, ledgerVars, Accounted, Order
  <2>1. CASE Finish(r, {}) /\ UNCHANGED ledgerVars
    BY <1>2, <1>3, <2>0, <2>1, FinishAlone DEF ledgerVars
  <2>2. ASSUME NEW a, NEW b, NEW hold, Reserve(r, a, b, hold), Move(r, "held"), UNCHANGED turn
        PROVE  Alone'
    <3>1. \A x \in Request \ {r} : calls'[x] = calls[x]
      BY <1>0, <2>2 DEF Reserve
    <3>2. \A x \in Request : Open(x)' => Open(x)
      BY <1>1, <2>0, <2>2, <3>1, OpensNothing
    <3>3. QED
      BY <1>0, <1>1, <2>0, <2>2, <3>2, NothingOpens
  <2>3. QED
    BY <1>5, <2>1, <2>2 DEF Admit
<1>6. CASE Send(r)
  <2>1. /\ attempt[r].phase = "held" /\ attempt[r].signal # "aborted" /\ Move(r, "sent")
        /\ UNCHANGED <<calls, results, turn>>
        /\ \A x \in Request \ {r} : provider'[x] = provider[x]
    BY <1>0, <1>6 DEF Send
  <2>2. \A x \in Request : /\ TaskOf(x)' = TaskOf(x) /\ attempt'[x].signal = attempt[x].signal
                           /\ x # r => attempt'[x].phase = attempt[x].phase
    BY <1>1, <2>1
  <2>3. attempt'[r].phase = "sent"
    BY <1>1, <2>1
  <2>4. \A x \in Request \ {r} : Open(x)' <=> Open(x)
    BY <2>1, <2>2 DEF Open, Holding, Continues
  <2>5. attempt[r].signal \in {"clear", "lost"}
    BY <1>0, <2>1 DEF AttemptRow, Signal
  <2>6. \A s \in Request \ {r} : TaskOf(s) = TaskOf(r) /\ Open(s)
          => "lost" \in {attempt[r].signal, attempt[s].signal}
    BY <2>1, <2>5 DEF Alone, WayIsClear
  <2>7. OneOpenRequest'
    BY <2>2, <2>4, <2>6, OpenPairs DEF Alone
  <2>8. Signals'
    BY <1>0, <2>1, <2>2, <2>3 DEF Alone, Signals
  <2>9. WayIsClear'
    <3> SUFFICES ASSUME NEW x \in Request, NEW s \in Request,
                        attempt'[x].phase \in {"reserving", "held"}, attempt'[x].signal = "clear",
                        x # s, TaskOf(x)' = TaskOf(s)', Open(s)'
                 PROVE  attempt'[s].signal = "lost"
      BY DEF WayIsClear
    <3>1. /\ x # r /\ attempt[x].phase \in {"reserving", "held"} /\ attempt[x].signal = "clear"
          /\ TaskOf(x) = TaskOf(s)
      BY <2>2, <2>3
    <3>2. CASE s # r
      BY <2>2, <2>4, <3>1, <3>2 DEF Alone, WayIsClear
    <3>3. CASE s = r
      <4>1. turn[TaskOf(x)] = x
        BY <3>1 DEF Alone, Signals, Live
      <4>2. attempt[r].signal # "clear"
        BY <1>0, <3>1, <3>3, <4>1 DEF Alone, Signals
      <4>3. QED
        BY <2>2, <2>5, <3>3, <4>2
    <3>4. QED
      BY <3>2, <3>3
  <2>10. QED
    BY <2>7, <2>8, <2>9 DEF Alone
<1>7. ASSUME calls[r].state \in Unresolved, results \subseteq results', UNCHANGED provider,
             \A x \in Request \ {r} : calls'[x] = calls[x],
             \/ \E given \in SUBSET Request : Finish(r, given)
             \/ UNCHANGED turn /\ \E phase \in {"settling", "doubting"} : Move(r, phase)
      PROVE  Alone'
  <2>1. \A x \in Request : TaskOf(x)' = TaskOf(x)
    BY <1>1, <1>2, <1>7
  <2>2. \A x \in Request : Open(x)' => Open(x)
    BY <1>7, <2>1, OpensNothing
  <2>3. ASSUME NEW phase \in {"settling", "doubting"}, Move(r, phase), UNCHANGED turn
        PROVE  Alone'
    BY <1>0, <1>1, <2>2, <2>3, NothingOpens DEF Live
  <2>4. QED
    BY <1>7, <2>2, <2>3, FinishAlone
<1>8. CASE Withdraw(r)
  <2>1. \A x \in Request \ {r} : calls'[x] = calls[x]
    BY <1>0, <1>8 DEF Withdraw, Release, Released
  <2>2. QED
    BY <1>7, <1>8, <2>1 DEF Withdraw, Release, Releasable, Released, Unresolved
<1>9. CASE LoseUsage(r)
  <2>1. PICK usable \in {{}, {r}} : MarkUnknown(r, usable) /\ Finish(r, usable)
    BY <1>9 DEF LoseUsage
  <2>2. \A x \in Request \ {r} : calls'[x] = calls[x]
    BY <1>0, <2>1 DEF MarkUnknown
  <2>3. QED
    BY <1>7, <1>9, <2>1, <2>2 DEF LoseUsage, MarkUnknown
<1>10. CASE Retain(r)
  <2>1. \A x \in Request \ {r} : calls'[x] = calls[x]
    BY <1>0, <1>10 DEF Retain, MarkUnknown
  <2>2. QED
    BY <1>7, <1>10, <2>1 DEF Retain, MarkUnknown
<1>11. CASE SettleUse(r)
  <2>1. /\ \A x \in Request \ {r} : calls'[x] = calls[x]
        /\ calls[r].state \in Unresolved /\ UNCHANGED <<results, provider>>
    BY <1>0, <1>11 DEF SettleUse, Settle
  <2>2. \E given \in SUBSET Request : Finish(r, given)
    BY <1>11 DEF SettleUse
  <2>3. QED
    BY <1>7, <2>1, <2>2
<1>12. CASE SettleFails(r)
  <2>1. UNCHANGED <<calls, results, provider>>
    BY <1>12 DEF SettleFails
  <2>2. ASSUME NEW given \in SUBSET Request, Finish(r, given)
        PROVE  Alone'
    BY <1>2, <1>3, <2>1, <2>2, FinishAlone
  <2>3. CASE Move(r, "doubting") /\ UNCHANGED turn
    <3>1. \A x \in Request : Open(x)' => Open(x)
      BY <1>1, <1>3, <2>1, <2>3
    <3>2. QED
      BY <1>0, <1>1, <2>3, <3>1, NothingOpens DEF Live
  <2>4. QED
    BY <1>0, <1>12, <2>2, <2>3 DEF SettleFails, Unread
<1>13. CASE Doubt(r)
  <2>1. Finish(r, {}) /\ UNCHANGED provider
    BY <1>13 DEF Doubt
  <2>2. CASE MarkUnknown(r, {})
    <3>1. \A x \in Request \ {r} : calls'[x] = calls[x]
      BY <1>0, <2>2 DEF MarkUnknown
    <3>2. QED
      BY <1>7, <2>1, <2>2, <3>1 DEF MarkUnknown
  <2>3. CASE UNCHANGED ledgerVars
    BY <1>2, <1>3, <2>1, <2>3, FinishAlone DEF ledgerVars
  <2>4. QED
    BY <1>13, <2>2, <2>3 DEF Doubt
<1>14. CASE AnswerTooLate(r)
  BY <1>2, <1>3, <1>14, FinishAlone DEF AnswerTooLate
<1>15. QED
  BY <1>4, <1>5, <1>6, <1>8, <1>9, <1>10, <1>11, <1>12, <1>13, <1>14 DEF Progress


\* So does every other step.
LEMMA OtherAlone ==
  ASSUME TypeOK, TypeOK', Accounted, Waited, Alone, Next, \A r \in Request : ~Progress(r)
  PROVE  Alone'
<1>0. /\ attempt \in [Request -> AttemptRow] /\ turn \in [Task -> Request \cup {NoRequest}]
      /\ calls \in [Request -> LedgerCall] /\ provider \in [Request -> {"none", "sent", "used", "refused"}]
      /\ \A x \in Request : attempt[x].phase \in Live => TaskOf(x) \in Task
  BY DEF TypeOK, LedgerTypeOK, TaskOf
<1>1. ASSUME UNCHANGED <<attempt, turn, results>>, \A x \in Request : Open(x)' => Open(x)
      PROVE  Alone'
  BY <1>1, NothingOpens
<1>2. UNCHANGED <<calls, provider, results>> /\ (\A x \in Request : TaskOf(x)' = TaskOf(x))
        => \A x \in Request : Open(x)' => Open(x)
  BY DEF Open, Holding, Continues
<1>3. ASSUME UNCHANGED <<calls, provider, results, attempt, turn>>
      PROVE  Alone'
  BY <1>1, <1>2, <1>3 DEF TaskOf
<1>4. ASSUME NEW t \in Task, NEW r \in Request, Begin(t, r)
      PROVE  Alone'
  <2>1. /\ attempt[r].phase = "unborn" /\ turn[t] = NoRequest
        /\ turn' = [turn EXCEPT ![t] = r] /\ UNCHANGED <<calls, provider, results>>
    BY <1>4 DEF Begin
  <2>2. /\ attempt'[r].phase = "checking" /\ attempt'[r].task = t
        /\ attempt'[r].signal = attempt[r].signal
        /\ \A x \in Request \ {r} : attempt'[x] = attempt[x]
    <3> DEFINE row == [attempt[r] EXCEPT !.phase = "checking", !.task = t]
    <3>1. attempt[r] \in AttemptRow
      BY <1>0
    <3>2. row.phase = "checking" /\ row.task = t
      BY <3>1, BegunRow, Zenon
    <3>3. row.signal = attempt[r].signal
      BY <3>1 DEF AttemptRow
    <3>4. attempt' = [attempt EXCEPT ![r] = row]
      BY <1>4 DEF Begin
    <3> HIDE DEF row
    <3>5. QED
      BY <1>0, <3>2, <3>3, <3>4
  <2>3. ~Open(r) /\ ~Open(r)'
    BY <2>1 DEF Open, Accounted, Order
  <2>4. \A x \in Request \ {r} : TaskOf(x)' = TaskOf(x) /\ (Open(x)' <=> Open(x))
    BY <2>1, <2>2 DEF TaskOf, Open, Holding, Continues
  <2>5. \A x \in Request : attempt'[x].signal = attempt[x].signal
    BY <2>2
  <2>6. OneOpenRequest'
    BY <2>3, <2>4, <2>5, OpenPairs DEF Alone
  <2>7. Signals'
    <3> SUFFICES ASSUME NEW x \in Request
                 PROVE  /\ attempt'[x].phase \in Live =>
                             (turn'[TaskOf(x)'] = x <=> attempt'[x].signal = "clear")
                        /\ attempt'[x].phase = "unborn" => attempt'[x].signal = "clear"
      BY DEF Signals
    <3>1. CASE x = r
      <4>1. TaskOf(x)' = t /\ turn'[t] = r
        BY <1>0, <2>1, <2>2, <3>1 DEF TaskOf
      <4>2. QED
        BY <2>1, <2>2, <3>1, <4>1 DEF Alone, Signals
    <3>2. CASE x # r
      <4>1. attempt'[x] = attempt[x] /\ TaskOf(x)' = TaskOf(x)
        BY <2>2, <2>4, <3>2
      <4>2. attempt[x].phase \in Live => (turn'[TaskOf(x)] = x <=> turn[TaskOf(x)] = x)
        BY <1>0, <2>1, <3>2
      <4>3. QED
        BY <4>1, <4>2 DEF Alone, Signals
    <3>3. QED
      BY <3>1, <3>2
  <2>8. WayIsClear'
    BY <2>2, <2>3, <2>4, <2>5 DEF Alone, WayIsClear
  <2>9. QED
    BY <2>6, <2>7, <2>8 DEF Alone
<1>5. ASSUME NEW r \in Request, NEW signal \in {"aborted", "lost"}, Abandon(r, signal)
      PROVE  Alone'
  <2> DEFINE row == [attempt[r] EXCEPT !.signal = signal]
  <2>1. row.signal = signal /\ row.phase = attempt[r].phase /\ row.task = attempt[r].task
    BY <1>0 DEF AttemptRow
  <2>2. attempt' = [attempt EXCEPT ![r] = row]
    BY <1>5 DEF Abandon
  <2> HIDE DEF row
  <2>3. /\ attempt'[r].signal = signal
        /\ \A x \in Request : attempt'[x].phase = attempt[x].phase /\ TaskOf(x)' = TaskOf(x)
        /\ \A x \in Request \ {r} : attempt'[x].signal = attempt[x].signal
    BY <1>0, <2>1, <2>2 DEF TaskOf
  <2>4. /\ attempt[r].phase \in Live /\ turn[TaskOf(r)] = r /\ TaskOf(r) \in Task
        /\ turn' = [turn EXCEPT ![TaskOf(r)] = NoRequest] /\ UNCHANGED <<calls, provider, results>>
    BY <1>0, <1>5 DEF Abandon
  <2>5. attempt[r].signal = "clear"
    BY <2>4 DEF Alone, Signals
  <2>6. \A x \in Request : Open(x)' <=> Open(x)
    BY <2>3, <2>4 DEF Open, Holding, Continues
  <2>7. \A x \in Request : attempt[x].signal = "lost" => attempt'[x].signal = "lost"
    BY <2>3, <2>5
  <2>8. OneOpenRequest'
    BY <2>3, <2>6, <2>7, OpenPairs DEF Alone
  <2>9. \A x \in Request \ {r} : attempt[x].phase \in Live =>
          (turn'[TaskOf(x)] = x <=> turn[TaskOf(x)] = x)
    BY <1>0, <2>4
  <2>10. turn'[TaskOf(r)] # r
    BY <1>0, <2>4
  <2>11. Signals'
    BY <2>3, <2>4, <2>9, <2>10 DEF Alone, Signals, Live
  <2>12. WayIsClear'
    BY <2>3, <2>6, <2>7 DEF Alone, WayIsClear
  <2>13. QED
    BY <2>8, <2>11, <2>12 DEF Alone
<1>6. ASSUME NEW r \in Request, Stop(r)
      PROVE  Alone'
  <2>1. Finish(r, {}) /\ UNCHANGED <<calls, provider, results>>
    BY <1>6 DEF Stop
  <2>2. \A x \in Request : TaskOf(x)' = TaskOf(x)
    BY <1>0, <2>1 DEF Finish, Move, AttemptRow, TaskOf
  <2>3. QED
    BY <1>2, <2>1, <2>2, FinishAlone
<1>7. ASSUME NEW r \in Request, Perform(r) \/ Refuse(r)
      PROVE  Alone'
  <2>1. UNCHANGED <<calls, results, attempt, turn>> /\ provider[r] = "sent"
        /\ \A x \in Request \ {r} : provider'[x] = provider[x]
    BY <1>0, <1>7 DEF Perform, Refuse
  <2>2. \A x \in Request : Open(x)' => Open(x)
    BY <2>1 DEF Open, Holding, Continues, TaskOf
  <2>3. QED
    BY <1>1, <2>1, <2>2
<1>8. ASSUME NEW r \in Request, Reconcile(r)
      PROVE  Alone'
  <2>1. /\ calls[r].state \in Unresolved /\ UNCHANGED <<results, attempt, turn, provider>>
        /\ \A x \in Request \ {r} : calls'[x] = calls[x]
    BY <1>0, <1>8 DEF Reconcile, ReconcileMeasured, Settle, ReconcileNotAccepted, NoContradiction, Released
  <2>2. \A x \in Request : Open(x)' => Open(x)
    BY <2>1 DEF Open, Holding, Continues, TaskOf
  <2>3. QED
    BY <1>1, <2>1, <2>2
<1>9. QED
  BY <1>3, <1>4, <1>5, <1>6, <1>7, <1>8
     DEF Next, TimeOut, LoseExecutor, Recover, Pay, Issue, RevokeBudget, Revoke

\* At the provider a Task has one request of unknown use at a time, unless an
\* executor lost its session without being aborted: for any number of Tasks,
\* attempts, time-outs, stops and answers of the billing worker.
THEOREM RequestsAreAlone == Spec => []OneOpenRequest
<1>1. Init => Alone /\ Accounted /\ ReadOnce
  BY DEF Init, LedgerInit, Alone, OneOpenRequest, Signals, WayIsClear, Open, Live,
         Accounted, Order, ChargesMatchUse, ReadOnce, ResultReadOnce, Waited
<1>2. TypeOK /\ TypeOK' /\ Alone /\ Accounted /\ ReadOnce /\ [Next]_vars
        => Alone' /\ Accounted' /\ ReadOnce'
  <2>1. CASE UNCHANGED vars
    <3>1. Accounted /\ ReadOnce => Accounted' /\ ReadOnce'
      BY <2>1 DEF vars, Accounted, Order, ChargesMatchUse, Due, ReadOnce, ResultReadOnce, Waited
    <3>2. Alone => Alone'
      BY <2>1, NothingOpens DEF vars, Open, Holding, Continues, TaskOf
    <3>3. QED
      BY <3>1, <3>2
  <2>2. CASE Next
    BY <2>2, ProgressAccounted, OtherAccounted, ProgressReads, OtherReads, ProgressAlone, OtherAlone
       DEF ReadOnce
  <2>3. QED
    BY <2>1, <2>2
<1>3. Alone => OneOpenRequest
  BY DEF Alone
<1>4. QED
  BY TypeCorrect, <1>1, <1>2, <1>3, PTL DEF Spec


=============================================================================
