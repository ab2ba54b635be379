----------------------------- MODULE Admission -----------------------------
(***************************************************************************)
(* agent/rate-model.js, rate-store.js, capacity.js and capacity-store.js:   *)
(* a model call passes the rate limits of a minute, takes one of the        *)
(* concurrent slots, reaches the provider, gives the slot back and replaces *)
(* the reserved tokens by those it used.                                   *)
(*                                                                         *)
(* The provider is external: it answers after it has finished generating,   *)
(* it uses at most the trusted bound of the call, and what is silent may go *)
(* on.  Store transactions are one step each (advisory locks); a worker may *)
(* stop between any two steps.  Identifiers, configuration checks and       *)
(* reading receipts are left out.                                          *)
(*                                                                         *)
(* Operators ending in Mut are altered forms of the definition below them. *)
(* No action uses them; they show that a property can fail.                *)
(***************************************************************************)
EXTENDS Naturals, FiniteSets, Functions

CONSTANTS
  Turn,                               \* turns of Tasks: each may be admitted once
  MaxConcurrent,                      \* slots
  RequestsPerMinute, TokensPerMinute, \* limits of a window
  Minute, MinInterval,                \* ticks of a window, and between two admissions
  MaxTokens,                          \* bound of the tokens that a call may use
  LastTick,                           \* bound: ticks of the clock
  MaxCallMishaps                      \* bound: stops, lost answers, failed writes

ASSUME AdmissionAssumption ==
  /\ {MaxConcurrent, RequestsPerMinute, TokensPerMinute, Minute, MaxTokens} \subseteq Nat \ {0}
  /\ MaxTokens <= TokensPerMinute /\ {MinInterval, LastTick, MaxCallMishaps} \subseteq Nat

VARIABLES
  clock,        \* ticks of the database's clock
  rates,        \* iaic_model_rate_reservations of each turn
  slots,        \* iaic_model_capacity_reservations of each turn
  modelCall,    \* position of the call of each turn
  generation,   \* what the provider does for each turn
  callMishaps

admissionVars == <<clock, rates, slots, modelCall, generation, callMishaps>>

AdmissionTypeOK ==
  /\ clock \in 0..LastTick
  /\ rates \in [Turn -> [state : {"none", "reserved", "settled", "not-called"}, at : 0..LastTick, tokens : Nat]]
  /\ slots \in [Turn -> {"none", "active", "released"}]
  /\ modelCall \in [Turn -> [step : {"new", "rated", "admitted", "calling", "release", "finish", "over"},
                             called : {"no", "yes", "unknown"}, usage : {"no", "yes"}]]
  /\ generation \in [Turn -> [state : {"none", "running", "finished"}, tokens : Nat]]
  /\ callMishaps \in Nat

AdmissionInit ==
  /\ clock = 0 /\ callMishaps = 0
  /\ rates = [t \in Turn |-> [state |-> "none", at |-> 0, tokens |-> 0]]
  /\ slots = [t \in Turn |-> "none"]
  /\ modelCall = [t \in Turn |-> [step |-> "new", called |-> "no", usage |-> "no"]]
  /\ generation = [t \in Turn |-> [state |-> "none", tokens |-> 0]]
-----------------------------------------------------------------------------
CallMishap == callMishaps < MaxCallMishaps /\ callMishaps' = callMishaps + 1

Moves(t, step, called, usage) ==
  modelCall' = [modelCall EXCEPT ![t] = [step |-> step, called |-> called, usage |-> usage]]

ClockTick ==
  /\ clock < LastTick
  /\ clock' = clock + 1
  /\ UNCHANGED <<rates, slots, modelCall, generation, callMishaps>>

(* PostgresModelRateLimits.admit *)

Counted == {t \in Turn : rates[t].state \notin {"none", "not-called"}}

MinuteOf(tick) == tick \div Minute

InWindow(tick) == {t \in Counted : MinuteOf(rates[t].at) = MinuteOf(tick)}

RateAdmits ==
  LET window == InWindow(clock)
  IN  /\ \A t \in Counted : rates[t].at + MinInterval <= clock
      /\ Cardinality(window) < RequestsPerMinute
      /\ SumFunctionOnSet([t \in Turn |-> rates[t].tokens], window) + MaxTokens <= TokensPerMinute

\* rateLimitedModel waits and asks again; a turn with a receipt is refused.
AdmitRate(t) ==
  /\ modelCall[t].step = "new" /\ rates[t].state = "none"
  /\ RateAdmits
  /\ rates' = [rates EXCEPT ![t] = [state |-> "reserved", at |-> clock, tokens |-> MaxTokens]]
  /\ Moves(t, "rated", "no", "no")
  /\ UNCHANGED <<clock, slots, generation, callMishaps>>

(* capacityModel *)

Active == {t \in Turn : slots[t] = "active"}

AdmitSlot(t) ==
  /\ modelCall[t].step = "rated"
  /\ Cardinality(Active) < MaxConcurrent
  /\ slots' = [slots EXCEPT ![t] = "active"]
  /\ Moves(t, "admitted", "no", "no")
  /\ UNCHANGED <<clock, rates, generation, callMishaps>>

\* Aborted, or no slot is free: the provider was not called.
NoSlot(t) ==
  /\ modelCall[t].step = "rated"
  /\ Moves(t, "finish", "no", "no")
  /\ UNCHANGED <<clock, rates, slots, generation, callMishaps>>

\* Aborted, or the adapter refuses before it sends.
NotDispatched(t) ==
  /\ modelCall[t].step = "admitted"
  /\ Moves(t, "release", "no", "no")
  /\ UNCHANGED <<clock, rates, slots, generation, callMishaps>>

Dispatched(t) ==
  /\ modelCall[t].step = "admitted"
  /\ Moves(t, "calling", "unknown", "no")
  /\ generation' = [generation EXCEPT ![t].state = "running"]
  /\ UNCHANGED <<clock, rates, slots, callMishaps>>

Generated(t) ==
  /\ generation[t].state = "running"
  /\ \E n \in 0..MaxTokens : generation' = [generation EXCEPT ![t] = [state |-> "finished", tokens |-> n]]
  /\ UNCHANGED <<clock, rates, slots, modelCall, callMishaps>>

\* The provider returned, or completed with an error; it may report usage.
Returned(t) ==
  /\ modelCall[t].step = "calling" /\ generation[t].state = "finished"
  /\ \E usage \in {"no", "yes"} : Moves(t, "release", "yes", usage)
  /\ UNCHANGED <<clock, rates, slots, generation, callMishaps>>

\* A transport error or a timeout does not prove that the provider stopped.
Silent(t) ==
  /\ modelCall[t].step = "calling" /\ CallMishap
  /\ Moves(t, "release", "unknown", "no")
  /\ UNCHANGED <<clock, rates, slots, generation>>

TerminalMut(t) == TRUE

Terminal(t) == modelCall[t].called # "unknown"

\* release fails without a trace when the database does.
ReleaseSlot(t) ==
  /\ modelCall[t].step = "release"
  /\ \/ /\ slots' = [slots EXCEPT ![t] = IF Terminal(t) THEN "released" ELSE @]
        /\ UNCHANGED callMishaps
     \/ UNCHANGED slots /\ CallMishap
  /\ Moves(t, "finish", modelCall[t].called, modelCall[t].usage)
  /\ UNCHANGED <<clock, rates, generation>>

(* PostgresModelRateLimits.finish *)

FinishRate(t) ==
  /\ modelCall[t].step = "finish"
  /\ \/ /\ rates' = [rates EXCEPT ![t] =
                       IF modelCall[t].called = "no" THEN [@ EXCEPT !.state = "not-called"]
                       ELSE IF modelCall[t].usage = "yes" THEN [@ EXCEPT !.state = "settled", !.tokens = generation[t].tokens]
                       ELSE @]
        /\ UNCHANGED callMishaps
     \/ UNCHANGED rates /\ CallMishap
  /\ Moves(t, "over", modelCall[t].called, "no")
  /\ UNCHANGED <<clock, slots, generation>>

WorkerDies(t) ==
  /\ modelCall[t].step \notin {"new", "over"} /\ CallMishap
  /\ Moves(t, "over", modelCall[t].called, "no")
  /\ UNCHANGED <<clock, rates, slots, generation>>

\* ModelCapacityReconciliation.resolve: the source of the operator confirms
\* that the original request finished or will never start.
ResolveSlot(t) ==
  /\ slots[t] = "active"
  /\ generation[t].state = "finished" \/ (generation[t].state = "none" /\ modelCall[t].step = "over")
  /\ slots' = [slots EXCEPT ![t] = "released"]
  /\ UNCHANGED <<clock, rates, modelCall, generation, callMishaps>>

AdmissionNext ==
  \/ ClockTick
  \/ \E t \in Turn : \/ AdmitRate(t) \/ AdmitSlot(t) \/ NoSlot(t) \/ NotDispatched(t) \/ Dispatched(t)
                     \/ Generated(t) \/ Returned(t) \/ Silent(t) \/ ReleaseSlot(t) \/ FinishRate(t)
                     \/ WorkerDies(t) \/ ResolveSlot(t)

AdmissionSpec == AdmissionInit /\ [][AdmissionNext]_admissionVars
-----------------------------------------------------------------------------
(* Property *)

Served(tick) == {t \in Turn : /\ rates[t].state # "none" /\ MinuteOf(rates[t].at) = MinuteOf(tick)
                              /\ generation[t].state # "none"}

\* The provider never generates for more calls at once than there are slots,
\* and the calls admitted in a minute neither outnumber its limit nor use more
\* tokens, although slots come back early, late or by an operator, tokens are
\* returned while the minute runs, and calls go on after their worker stopped
\* (agent/capacity.js:5-17, rate-model.js:5-27, rate-store.js:12-37).
ProviderLoadBounded ==
  /\ Cardinality({t \in Turn : generation[t].state = "running"}) <= MaxConcurrent
  /\ \A tick \in 0..LastTick :
       /\ Cardinality(Served(tick)) <= RequestsPerMinute
       /\ SumFunctionOnSet([t \in Turn |-> generation[t].tokens], Served(tick)) <= TokensPerMinute
=============================================================================
