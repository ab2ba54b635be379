---------------------------- MODULE TokenLedger ----------------------------
(***************************************************************************)
(* billing/token-ledger.js and budgets/allowance.js: allowance accounts,   *)
(* holds for model calls, settlement at measured use, release on proof of  *)
(* non-acceptance, holds of unknown use, and shared budgets.               *)
(*                                                                         *)
(* Every operation is one transaction that locks its account row first, so *)
(* an operation is one step.  The operators below are the committed        *)
(* transactions; a module that uses them says who calls them, and what     *)
(* happens when a commit or its acknowledgement is lost.                   *)
(*                                                                         *)
(* Abstractions.  Request ids are fresh and globally unique (randomUUID).  *)
(* A call of hold 0 is BYOK: system calls must reserve something.  Rated   *)
(* use is one number, the product of tokens and the pinned price.  An      *)
(* entry is unique by kind and request; its evidence is not modelled,      *)
(* because no caller repeats an operation with the same evidence.  A       *)
(* reconciliation source names one request and is bound in the transaction *)
(* that finalises it, so the state of the call already refuses a second    *)
(* source.  A revoked budget stands for an expired one as well.            *)
(*                                                                         *)
(* Operators ending in Mut are altered forms of the definition below them. *)
(* No action uses them; they show that a property can fail.                *)
(***************************************************************************)
EXTENDS Integers, FiniteSets, Functions

CONSTANTS
  Account, NoAccount,  \* payers, and the owner of nothing
  Request,             \* model requests
  Budget, NoBudget,    \* shared budgets, and the binding of a call without one
  Payment, AmountOf,   \* confirmed allowance sources; AmountOf[m] is what m issues
  PayerOf, MaximumOf   \* PayerOf[b], MaximumOf[b]: account and ceiling of budget b

ASSUME TokenLedgerAssumption ==
  /\ NoAccount \notin Account /\ NoBudget \notin Budget
  /\ IsFiniteSet(Request) /\ IsFiniteSet(Payment)
  /\ AmountOf \in [Payment -> Nat \ {0}]
  /\ PayerOf \in [Budget -> Account]
  /\ MaximumOf \in [Budget -> Nat]

VARIABLES
  calls,    \* iaic_token_calls, with the amount of the settlement entry
  results,  \* requests with a retained response in iaic_token_results
  issued,   \* issued[m]: the account that iaic_token_issuances binds m to
  revoked   \* budgets that admit no more calls

ledgerVars == <<calls, results, issued, revoked>>

CallState == {"absent", "reserved", "unknown", "settled", "released"}
Unresolved == {"reserved", "unknown"}

\* charged: the amount of the settlement entry, while there is none 0.
LedgerCall ==
  {row \in [state : CallState, account : Account \cup {NoAccount}, hold : Nat,
            budget : Budget \cup {NoBudget}, charged : Nat] :
     /\ row.state = "absent" <=> row.account = NoAccount
     /\ row.state # "settled" => row.charged = 0}

LedgerTypeOK ==
  /\ calls \in [Request -> LedgerCall]
  /\ results \in SUBSET Request
  /\ issued \in [Payment -> Account \cup {NoAccount}]
  /\ revoked \in SUBSET Budget

LedgerInit ==
  /\ calls = [r \in Request |-> [state |-> "absent", account |-> NoAccount, hold |-> 0,
                                 budget |-> NoBudget, charged |-> 0]]
  /\ results = {}
  /\ issued = [m \in Payment |-> NoAccount]
  /\ revoked = {}
-----------------------------------------------------------------------------
(* The sums the code asks SQL for *)

Holding(r) == calls[r].state \in Unresolved

Held(S) ==
  SumFunctionOnSet([r \in Request |-> calls[r].hold], {r \in S : Holding(r)})

Charged(S) == SumFunctionOnSet([r \in Request |-> calls[r].charged], S)

CallsOf(a) == {r \in Request : calls[r].account = a}
CallsUnder(b) == {r \in Request : calls[r].budget = b}

Issued(a) == SumFunctionOnSet(AmountOf, {m \in Payment : issued[m] = a})

\* readBalance: entries minus holds.
Available(a) == Issued(a) - Charged(CallsOf(a)) - Held(CallsOf(a))

(* Transactions *)

\* issue: a source that is bound already, to whatever account, issues nothing more.
Issue(a, m) ==
  /\ issued[m] = NoAccount
  /\ issued' = [issued EXCEPT ![m] = a]
  /\ UNCHANGED <<calls, results, revoked>>

Revoke(b) == b \notin revoked /\ revoked' = revoked \cup {b} /\ UNCHANGED <<calls, results, issued>>

CoversMut(a, hold) == hold > 0 => Issued(a) - Charged(CallsOf(a)) >= hold

Covers(a, hold) == hold > 0 => Available(a) >= hold

AdmitsMut(a, b, hold) ==
  \/ b = NoBudget
  \/ /\ b \in Budget \ revoked /\ PayerOf[b] = a
     /\ Held(CallsUnder(b)) + hold <= MaximumOf[b]

\* AllowanceBudgets.admit, inside the transaction of reserve.
Admits(a, b, hold) ==
  \/ b = NoBudget
  \/ /\ b \in Budget \ revoked /\ PayerOf[b] = a
     /\ Charged(CallsUnder(b)) + Held(CallsUnder(b)) + hold <= MaximumOf[b]

Reserve(r, a, b, hold) ==
  /\ calls[r].state = "absent"
  /\ Covers(a, hold) /\ Admits(a, b, hold)
  /\ calls' = [calls EXCEPT ![r] = [@ EXCEPT !.state = "reserved", !.account = a,
                                            !.hold = hold, !.budget = b]]
  /\ UNCHANGED <<results, issued, revoked>>

\* BYOK pays nothing; the platform absorbs what a budgeted call used above its
\* hold; any other call owes what it used.
Due(call, rated) ==
  CASE call.hold = 0 -> 0
    [] call.hold > 0 /\ call.budget # NoBudget /\ rated > call.hold -> call.hold
    [] OTHER -> rated

SettleMut(r, rated) ==
  /\ calls[r].state \in Unresolved
  /\ calls' = [calls EXCEPT ![r] = [@ EXCEPT !.charged = Due(calls[r], rated)]]
  /\ UNCHANGED <<results, issued, revoked>>

\* settleCall: a released call never settles, a settled one has its entry.
Settle(r, rated) ==
  /\ calls[r].state \in Unresolved
  /\ calls' = [calls EXCEPT ![r] = [@ EXCEPT !.state = "settled",
                                            !.charged = Due(calls[r], rated)]]
  /\ UNCHANGED <<results, issued, revoked>>

\* markUnknown, with the response that is to be retained, if there is one.
MarkUnknown(r, retained) ==
  /\ calls[r].state \in Unresolved
  /\ calls' = [calls EXCEPT ![r] = [@ EXCEPT !.state = "unknown"]]
  /\ results' = results \cup retained
  /\ UNCHANGED <<issued, revoked>>

Released(r) ==
  /\ calls' = [calls EXCEPT ![r] = [@ EXCEPT !.state = "released"]]
  /\ UNCHANGED <<results, issued, revoked>>

\* release, by the runtime: unknown use is not for the runtime to release.
Releasable(r) == calls[r].state = "reserved"

Release(r) == Releasable(r) /\ Released(r)

\* reconcile, measured: settles the original call at its pinned rate.
ReconcileMeasured(r, rated) == Settle(r, rated)

NoContradictionMut(r) == calls[r].state = "unknown" /\ r \notin results

\* reconcile, not_accepted: a retained response is proof of acceptance.
NoContradiction(r) == calls[r].state \in Unresolved /\ r \notin results

ReconcileNotAccepted(r) == NoContradiction(r) /\ Released(r)
=============================================================================
