------------------------------ MODULE Payments ------------------------------
(***************************************************************************)
(* payments/store.js and payments/service.js: charges and refunds of one    *)
(* invoice, prepared in the database, dispatched once to the provider, and  *)
(* reconciled by queries when the answer was lost.                          *)
(*                                                                         *)
(* The provider is external and keeps its contract (payments/README.md): it *)
(* decides a request once by its operation id, and "failed" is definitive:  *)
(* a query answers "unknown" while a request could still be accepted.       *)
(* Scope, authority and evidence are left out; evidence that does not match *)
(* the intent counts as unknown.  Store transactions are one step each.     *)
(*                                                                         *)
(* Operators ending in Mut are altered forms of the definition below them. *)
(* No action uses them; they show that a property can fail.                *)
(***************************************************************************)
EXTENDS Naturals, FiniteSets, Functions

CONSTANTS
  ChargeKey, RefundKey,   \* request keys of charges and of refunds
  Bill, RefundAmount,     \* amount of the invoice; RefundAmount[k] of each refund
  Caller,                 \* processes that execute or reconcile
  MaxPayMishaps           \* bound: lost answers, aborts and crashes

MoneyKey == ChargeKey \cup RefundKey

ASSUME PaymentsAssumption ==
  /\ ChargeKey \cap RefundKey = {} /\ IsFiniteSet(RefundKey)
  /\ Bill \in Nat \ {0} /\ RefundAmount \in [RefundKey -> Nat \ {0}] /\ MaxPayMishaps \in Nat

VARIABLES
  money,      \* iaic_money_operations: state of each key
  paymentOf,  \* the charge that the request for a refund names
  provider,   \* what the provider decided about each operation
  caller,     \* position of each caller
  payMishaps

payVars == <<money, paymentOf, provider, caller, payMishaps>>

NoCall == [step |-> "idle"]
Final == {"succeeded", "failed"}

PayTypeOK ==
  /\ money \in [MoneyKey -> {"absent", "prepared", "running", "unknown"} \cup Final]
  /\ paymentOf \in [RefundKey -> ChargeKey]
  /\ provider \in [MoneyKey -> {"none", "pending", "moved", "declined"}]
  /\ caller \in [Caller -> {NoCall} \cup [step : {"claimed", "sent", "query", "record"},
                                          op : MoneyKey, status : {"unknown"} \cup Final]]
  /\ payMishaps \in Nat

PayInit ==
  /\ money = [k \in MoneyKey |-> "absent"]
  /\ paymentOf \in [RefundKey -> ChargeKey]
  /\ provider = [k \in MoneyKey |-> "none"]
  /\ caller = [c \in Caller |-> NoCall]
  /\ payMishaps = 0
-----------------------------------------------------------------------------
PayMishap == payMishaps < MaxPayMishaps /\ payMishaps' = payMishaps + 1

Calls(c, step, k, status) == caller' = [caller EXCEPT ![c] = [step |-> step, op |-> k, status |-> status]]

(* PostgresPaymentStore.prepare, under the lock of the invoice *)

ReservingMut(k) == money[k] \in {"prepared", "running", "succeeded"}

\* Operations that the invoice counts: all that have not definitively failed.
Reserving(k) == money[k] \notin {"absent", "failed"}

Reserved(c) == {k \in RefundKey : paymentOf[k] = c /\ Reserving(k)}

Refunds(keys) == SumFunctionOnSet(RefundAmount, keys)

PrepareCharge(k) ==
  /\ money[k] = "absent"
  /\ \A c \in ChargeKey : ~Reserving(c)
  /\ money' = [money EXCEPT ![k] = "prepared"]
  /\ UNCHANGED <<paymentOf, provider, caller, payMishaps>>

PrepareRefund(k) ==
  /\ money[k] = "absent" /\ money[paymentOf[k]] = "succeeded"
  /\ Refunds(Reserved(paymentOf[k])) + RefundAmount[k] <= Bill
  /\ money' = [money EXCEPT ![k] = "prepared"]
  /\ UNCHANGED <<paymentOf, provider, caller, payMishaps>>

(* Payments.execute *)

\* claim: whoever finds the operation dispatched already only reads it.
ClaimMoney(c, k) ==
  /\ caller[c] = NoCall /\ money[k] = "prepared"
  /\ money' = [money EXCEPT ![k] = "running"]
  /\ Calls(c, "claimed", k, "unknown")
  /\ UNCHANGED <<paymentOf, provider, payMishaps>>

Send(c) ==
  /\ caller[c].step = "claimed"
  /\ provider' = [provider EXCEPT ![caller[c].op] = "pending"]
  /\ Calls(c, "sent", caller[c].op, "unknown")
  /\ UNCHANGED <<money, paymentOf, payMishaps>>

ProviderDecides(k) ==
  /\ provider[k] = "pending"
  /\ \E result \in {"moved", "declined"} : provider' = [provider EXCEPT ![k] = result]
  /\ UNCHANGED <<money, paymentOf, caller, payMishaps>>

Verdict(k) == IF provider[k] = "moved" THEN "succeeded" ELSE "failed"

Answered(c) ==
  /\ caller[c].step = "sent" /\ provider[caller[c].op] \in {"moved", "declined"}
  /\ Calls(c, "record", caller[c].op, Verdict(caller[c].op))
  /\ UNCHANGED <<money, paymentOf, provider, payMishaps>>

\* The signal was aborted, the timeout fired, or the answer was lost.
Interrupted(c) ==
  /\ caller[c].step \in {"claimed", "sent", "query"} /\ PayMishap
  /\ Calls(c, "record", caller[c].op, "unknown")
  /\ UNCHANGED <<money, paymentOf, provider>>

(* Payments.reconcile *)

Reconcilable(k) == money[k] \in {"running", "unknown"}

AskProvider(c, k) ==
  /\ caller[c] = NoCall /\ Reconcilable(k)
  /\ Calls(c, "query", k, "unknown")
  /\ UNCHANGED <<money, paymentOf, provider, payMishaps>>

\* A request that is on its way could still be accepted.
Underway(k) ==
  provider[k] = "pending" \/ \E c \in Caller : caller[c].step = "claimed" /\ caller[c].op = k

QueryAnswered(c) ==
  /\ caller[c].step = "query"
  /\ Calls(c, "record", caller[c].op, IF Underway(caller[c].op) THEN "unknown" ELSE Verdict(caller[c].op))
  /\ UNCHANGED <<money, paymentOf, provider, payMishaps>>

(* PostgresPaymentStore.record, cancel *)

\* Terminal evidence is immutable.
Recordable(k) == money[k] \in {"running", "unknown"}

Record(c) ==
  /\ caller[c].step = "record"
  /\ LET k == caller[c].op
     IN  money' = IF Recordable(k) THEN [money EXCEPT ![k] = caller[c].status] ELSE money
  /\ caller' = [caller EXCEPT ![c] = NoCall]
  /\ UNCHANGED <<paymentOf, provider, payMishaps>>

CancelMoney(k) ==
  /\ money[k] = "prepared"
  /\ money' = [money EXCEPT ![k] = "failed"]
  /\ UNCHANGED <<paymentOf, provider, caller, payMishaps>>

CallerDies(c) ==
  /\ caller[c] # NoCall /\ PayMishap
  /\ caller' = [caller EXCEPT ![c] = NoCall]
  /\ UNCHANGED <<money, paymentOf, provider>>

PayNext ==
  \/ \E k \in ChargeKey : PrepareCharge(k)
  \/ \E k \in RefundKey : PrepareRefund(k)
  \/ \E k \in MoneyKey : \/ ProviderDecides(k) \/ CancelMoney(k)
                         \/ \E c \in Caller : ClaimMoney(c, k) \/ AskProvider(c, k)
  \/ \E c \in Caller : \/ Send(c) \/ Answered(c) \/ Interrupted(c) \/ QueryAnswered(c)
                       \/ Record(c) \/ CallerDies(c)

PaySpec == PayInit /\ [][PayNext]_payVars
-----------------------------------------------------------------------------
(* Property *)

\* The provider moves the money of an invoice once and refunds no more than
\* that, although answers get lost, callers die and reconciliation races with
\* the request; what the database calls final is what the provider did, and
\* stays so (payments/store.js:25-60, service.js:14-38).
MoneyMovesOnce ==
  /\ Cardinality({k \in ChargeKey : provider[k] = "moved"}) <= 1
  /\ \A c \in ChargeKey : Refunds({k \in RefundKey : paymentOf[k] = c /\ provider[k] = "moved"})
                           <= IF provider[c] = "moved" THEN Bill ELSE 0
  /\ \A k \in MoneyKey : /\ money[k] = "succeeded" => provider[k] = "moved"
                         /\ money[k] = "failed" => provider[k] # "moved" /\ ~Underway(k)
=============================================================================
