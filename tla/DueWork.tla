------------------------------ MODULE DueWork ------------------------------
(***************************************************************************)
(* deferred/ and recurring/, composed as recurring/agent.js does, with     *)
(* triggers/task-completion.js.  A recurring rule turns each sequence      *)
(* number that came due into a deferred intent; a deferred intent becomes  *)
(* one Task when it is due and its trigger allows it.                      *)
(*                                                                         *)
(* Both loops work alike: claim a row with a lease, do one idempotent      *)
(* thing elsewhere, settle the row.  A worker that loses its lease does    *)
(* not know it; another one may claim the row meanwhile.  Each action is   *)
(* one committed statement, or what a worker does between two.             *)
(*                                                                         *)
(* Abstractions.  Time is due[r], the last sequence number of rule r whose *)
(* time has come; a lease is live or has expired, at any moment, since     *)
(* leases, intervals and delays are independent.  Waits before the next    *)
(* attempt only postpone a claim.  A claim token is named by its worker,   *)
(* who forgets the old one before it takes the next.  One source Task      *)
(* stands for the Tasks that triggers name.  The branch of claim that      *)
(* completes a rule (recurring/store.js:38) is left out: the settlement of *)
(* the last occurrence has completed it.                                   *)
(*                                                                         *)
(* Operators ending in Mut are altered forms of the definition below them. *)
(* No action uses them; they show that a property can fail.                *)
(***************************************************************************)
EXTENDS Integers, FiniteSets, FiniteSetsExt

CONSTANTS
  Rule, LastOf,        \* recurring rules; LastOf[r] is occurrence_count - 1
  Direct, TriggerOf,   \* intents of owners, and the condition they wait for
  Dispatcher,          \* loops of DeferredTasks, one a host
  Materializer,        \* loops of RecurringTasks, one a host
  Nobody,              \* the holder of a row that is not claimed
  MaxAttempts,         \* maxAttempts of both stores
  MaxDueMishaps,       \* bound: lost leases, stops, refused writes
  MaxDueChanges        \* bound: changes of a rule and retries by an owner

Occurrence == UNION {{<<r, n>> : n \in 0..LastOf[r]} : r \in Rule}
Intent == Occurrence \cup Direct

ASSUME DueWorkAssumption ==
  /\ LastOf \in [Rule -> Nat]
  /\ Direct \cap Occurrence = {} /\ TriggerOf \in [Direct -> {"none", "succeeded", "finished"}]
  /\ Nobody \notin Dispatcher \cup Materializer
  /\ MaxAttempts \in Nat \ {0} /\ MaxDueMishaps \in Nat /\ MaxDueChanges \in Nat

VARIABLES
  rules,      \* iaic_recurring_tasks
  intents,    \* iaic_deferred_tasks
  started,    \* intents whose key a Task carries
  due,        \* due[r]: last sequence number whose time has come
  source,     \* state of the Task that triggers name
  dispatch,   \* position of each dispatcher
  emit,       \* position of each materializer
  dueMishaps, dueChanges

dueVars == <<rules, intents, started, due, source, dispatch, emit, dueMishaps, dueChanges>>

NoSequence == -1
Sequence == Nat \cup {NoSequence}

RuleRow ==
  [state : {"active", "paused", "cancelled", "completed", "blocked"}, last : Sequence,
   pending : Sequence, skipped : Nat, attempts : Nat,
   holder : Materializer \cup {Nobody}, lease : {"live", "expired"}]

IntentRow ==
  {row \in [state : {"absent", "queued", "dispatching", "retry", "dispatched", "blocked", "cancelled"},
             admitted : {"no", "yes"}, attempts : Nat,
             holder : Dispatcher \cup {Nobody}, lease : {"live", "expired"}] :
     /\ row.state = "dispatching" <=> row.holder # Nobody
     /\ row.lease = "live" => row.holder # Nobody}

DispatchStep == {"claimed", "unoccupied", "allowed", "admitted", "receipt", "refused", "failed"}
AtRest == [step |-> "idle"]

DueTypeOK ==
  /\ rules \in [Rule -> RuleRow]
  /\ intents \in [Intent -> IntentRow]
  /\ started \in SUBSET Intent
  /\ due \in [Rule -> Sequence]
  /\ source \in {"open", "succeeded", "ended"}
  /\ dispatch \in [Dispatcher -> {AtRest} \cup [step : DispatchStep, intent : Intent, admitted : {"no", "yes"}]]
  /\ emit \in [Materializer -> {AtRest} \cup [step : {"claimed", "receipt", "failed"}, rule : Rule, seq : Nat]]
  /\ dueMishaps \in Nat /\ dueChanges \in Nat

DueInit ==
  /\ rules = [r \in Rule |-> [state |-> "active", last |-> NoSequence, pending |-> NoSequence, skipped |-> 0,
                              attempts |-> 0, holder |-> Nobody, lease |-> "expired"]]
  /\ intents = [i \in Intent |-> [state |-> "absent", admitted |-> "no", attempts |-> 0,
                                  holder |-> Nobody, lease |-> "expired"]]
  /\ started = {}
  /\ due = [r \in Rule |-> NoSequence]
  /\ source = "open"
  /\ dispatch = [d \in Dispatcher |-> AtRest]
  /\ emit = [m \in Materializer |-> AtRest]
  /\ dueMishaps = 0 /\ dueChanges = 0
-----------------------------------------------------------------------------
DueMishap == dueMishaps < MaxDueMishaps /\ dueMishaps' = dueMishaps + 1
DueChange == dueChanges < MaxDueChanges /\ dueChanges' = dueChanges + 1

\* token = $2 AND lease_until > now()
Holds(row, w) == row.holder = w /\ row.lease = "live"

UnclaimedMut(row) == row.holder = Nobody

\* token IS NULL OR lease_until <= now()
Unclaimed(row) == row.holder = Nobody \/ row.lease = "expired"

(* Recurring rules *)

ComesDue(r) ==
  /\ due[r] < LastOf[r]
  /\ due' = [due EXCEPT ![r] = @ + 1]
  /\ UNCHANGED <<rules, intents, started, source, dispatch, emit, dueMishaps, dueChanges>>

NextSequenceMut(r) == due[r]

\* An occurrence that was begun goes first; missed ones coalesce into the latest.
NextSequence(r) == IF rules[r].pending # NoSequence THEN rules[r].pending ELSE due[r]

ClaimRule(m, r) ==
  /\ emit[m] = AtRest
  /\ rules[r].state = "active" /\ Unclaimed(rules[r])
  /\ rules[r].pending # NoSequence \/ due[r] > rules[r].last
  /\ rules' = [rules EXCEPT ![r] = [@ EXCEPT !.pending = NextSequence(r), !.holder = m,
                                            !.lease = "live", !.attempts = rules[r].attempts + 1]]
  /\ emit' = [emit EXCEPT ![m] = [step |-> "claimed", rule |-> r, seq |-> NextSequence(r)]]
  /\ UNCHANGED <<intents, started, due, source, dispatch, dueMishaps, dueChanges>>

Saved(i) == IF intents[i].state = "absent" THEN [intents EXCEPT ![i] = [@ EXCEPT !.state = "queued"]]
            ELSE intents

\* scheduleOccurrence: the key names rule and sequence number.  The reply may be lost.
ScheduleOccurrence(m) ==
  /\ emit[m].step = "claimed"
  /\ intents' = Saved(<<emit[m].rule, emit[m].seq>>)
  /\ \/ emit' = [emit EXCEPT ![m] = [@ EXCEPT !.step = "receipt"]] /\ UNCHANGED dueMishaps
     \/ emit' = [emit EXCEPT ![m] = [@ EXCEPT !.step = "failed"]] /\ DueMishap
  /\ UNCHANGED <<rules, started, due, source, dispatch, dueChanges>>

\* The actor is gone, its input is refused, or dispatch was paused.
RefuseOccurrence(m) ==
  /\ emit[m].step = "claimed"
  /\ emit' = [emit EXCEPT ![m] = [@ EXCEPT !.step = "failed"]]
  /\ UNCHANGED <<rules, intents, started, due, source, dispatch, dueMishaps, dueChanges>>

FreedMut(row) == [row EXCEPT !.lease = "expired"]

Freed(row) == [row EXCEPT !.holder = Nobody, !.lease = "expired"]

Advanced(row, n) ==
  [Freed(row) EXCEPT !.state = IF row.pending = n THEN "completed" ELSE "active",
                     !.skipped = row.skipped + row.pending - row.last - 1,
                     !.last = row.pending, !.pending = NoSequence, !.attempts = 0]

Failed(row) == [Freed(row) EXCEPT !.state = IF row.attempts >= MaxAttempts THEN "blocked" ELSE "active"]

\* settle: a stale claim changes nothing.
SettleOccurrence(m) ==
  /\ emit[m].step \in {"receipt", "failed"}
  /\ LET r == emit[m].rule
     IN  IF Holds(rules[r], m) /\ rules[r].state = "active"
         THEN rules' = [rules EXCEPT ![r] = IF emit[m].step = "receipt" THEN Advanced(@, LastOf[r])
                                            ELSE Failed(@)]
         ELSE UNCHANGED rules
  /\ emit' = [emit EXCEPT ![m] = AtRest]
  /\ UNCHANGED <<intents, started, due, source, dispatch, dueMishaps, dueChanges>>

ChangeableMut(row, state) == row.state \notin {"cancelled", "completed"} /\ Unclaimed(row)

\* An occurrence that may have been scheduled is resolved before the rule stops.
Changeable(row, state) ==
  /\ row.state \notin {"cancelled", "completed"} /\ Unclaimed(row)
  /\ row.pending = NoSequence \/ state = "active"

ChangeRule(r, state) ==
  /\ DueChange
  /\ Changeable(rules[r], state)
  /\ rules' = [rules EXCEPT ![r] = [@ EXCEPT !.state = state, !.attempts = 0]]
  /\ UNCHANGED <<intents, started, due, source, dispatch, emit, dueMishaps>>

(* Deferred intents: their owner *)

Schedule(i) ==
  /\ intents[i].state = "absent"
  /\ intents' = Saved(i)
  /\ UNCHANGED <<rules, started, due, source, dispatch, emit, dueMishaps, dueChanges>>

CancellableMut(row) == row.state \in {"queued", "retry", "blocked"}

Cancellable(row) == row.state \in {"queued", "retry", "blocked"} /\ row.admitted = "no"

Cancel(i) ==
  /\ Cancellable(intents[i])
  /\ intents' = [intents EXCEPT ![i] = [Freed(@) EXCEPT !.state = "cancelled"]]
  /\ UNCHANGED <<rules, started, due, source, dispatch, emit, dueMishaps, dueChanges>>

Retry(i) ==
  /\ DueChange
  /\ intents[i].state = "blocked"
  /\ intents' = [intents EXCEPT ![i] = [Freed(@) EXCEPT !.state = "retry", !.attempts = 0]]
  /\ UNCHANGED <<rules, started, due, source, dispatch, emit, dueMishaps>>

(* Deferred intents: dispatchNext *)

DueGoes(d, step) == dispatch' = [dispatch EXCEPT ![d] = [@ EXCEPT !.step = step]]

DueAt(d, steps) == dispatch[d].step \in steps

ClaimableMut(row) == row.state \in {"queued", "retry"}

Claimable(row) ==
  \/ row.state \in {"queued", "retry"}
  \/ row.state = "dispatching" /\ row.lease = "expired"

Claim(d, i) ==
  /\ dispatch[d] = AtRest
  /\ Claimable(intents[i])
  /\ intents' = [intents EXCEPT ![i] = [@ EXCEPT !.state = "dispatching", !.holder = d,
                                                !.lease = "live", !.attempts = intents[i].attempts + 1]]
  /\ dispatch' = [dispatch EXCEPT ![d] = [step |-> "claimed", intent |-> i, admitted |-> intents[i].admitted]]
  /\ UNCHANGED <<rules, started, due, source, emit, dueMishaps, dueChanges>>

\* findTask: a Task with the key is the receipt of an admitted intent only.
FindTask(d) ==
  /\ DueAt(d, {"claimed"})
  /\ DueGoes(d, IF dispatch[d].intent \notin started THEN "unoccupied"
             ELSE IF dispatch[d].admitted = "yes" THEN "receipt" ELSE "refused")
  /\ UNCHANGED <<rules, intents, started, due, source, emit, dueMishaps, dueChanges>>

\* The host refuses the actor or the input, with a status or without.
Refuse(d) ==
  /\ DueAt(d, {"claimed", "unoccupied"})
  /\ \E step \in {"refused", "failed"} : DueGoes(d, step)
  /\ UNCHANGED <<rules, intents, started, due, source, emit, dueMishaps, dueChanges>>

Trigger(i) == IF i \in Direct THEN TriggerOf[i] ELSE "none"

Fires(i) == Trigger(i) = "none" \/ source = "succeeded" \/ (Trigger(i) = "finished" /\ source = "ended")

CheckTrigger(d) ==
  /\ DueAt(d, {"unoccupied"})
  /\ Fires(dispatch[d].intent) \/ source = "ended"
  /\ DueGoes(d, IF Fires(dispatch[d].intent) THEN "allowed" ELSE "refused")
  /\ UNCHANGED <<rules, intents, started, due, source, emit, dueMishaps, dueChanges>>

WaitForTrigger(d) ==
  LET i == dispatch[d].intent
  IN  /\ DueAt(d, {"unoccupied"})
      /\ Trigger(i) # "none" /\ source = "open"
      /\ IF Holds(intents[i], d)
         THEN intents' = [intents EXCEPT ![i] = [Freed(@) EXCEPT !.state = "queued",
                                                            !.attempts = intents[i].attempts - 1]]
         ELSE UNCHANGED intents
      /\ dispatch' = [dispatch EXCEPT ![d] = AtRest]
      /\ UNCHANGED <<rules, started, due, source, emit, dueMishaps, dueChanges>>

AdmitsMut(row, d) == TRUE

Admits(row, d) == row.state = "dispatching" /\ Holds(row, d)

Admit(d) ==
  LET i == dispatch[d].intent
  IN  /\ DueAt(d, {"allowed"})
      /\ IF Admits(intents[i], d)
         THEN /\ intents' = [intents EXCEPT ![i] = [@ EXCEPT !.admitted = "yes"]]
              /\ dispatch' = [dispatch EXCEPT ![d] = [@ EXCEPT !.step = "admitted", !.admitted = "yes"]]
         ELSE DueGoes(d, "refused") /\ UNCHANGED intents
      /\ UNCHANGED <<rules, started, due, source, emit, dueMishaps, dueChanges>>

\* startTask: the key of the intent names at most one Task.  The reply may be lost.
StartTask(d) ==
  /\ DueAt(d, {"admitted"})
  /\ started' = started \cup {dispatch[d].intent}
  /\ \/ DueGoes(d, "receipt") /\ UNCHANGED dueMishaps
     \/ DueGoes(d, "failed") /\ DueMishap
  /\ UNCHANGED <<rules, intents, due, source, emit, dueChanges>>

StartRefused(d) ==
  /\ DueAt(d, {"admitted"})
  /\ DueGoes(d, "failed")
  /\ UNCHANGED <<rules, intents, started, due, source, emit, dueMishaps, dueChanges>>

\* The state that settle gives a row: a receipt, or an error of an intent that
\* is blocked at once when it was refused before its admission.
Outcome(row, w) ==
  IF w.step = "receipt" THEN "dispatched"
  ELSE IF (w.step = "refused" /\ w.admitted = "no") \/ row.attempts >= MaxAttempts THEN "blocked"
  ELSE "retry"

Settles(row, d) == row.state = "dispatching" /\ Holds(row, d)

Settle(d) ==
  LET i == dispatch[d].intent
  IN  /\ DueAt(d, {"receipt", "refused", "failed"})
      /\ intents' = IF Settles(intents[i], d)
                    THEN [intents EXCEPT ![i] = [Freed(@) EXCEPT !.state = Outcome(intents[i], dispatch[d])]]
                    ELSE intents
      /\ dispatch' = [dispatch EXCEPT ![d] = AtRest]
      /\ UNCHANGED <<rules, started, due, source, emit, dueMishaps, dueChanges>>

(* The world *)

\* The Task that triggers name, when there is one, ends.
SourceEnds(result) ==
  /\ \E i \in Direct : Trigger(i) # "none"
  /\ source = "open" /\ source' = result
  /\ UNCHANGED <<rules, intents, started, due, dispatch, emit, dueMishaps, dueChanges>>

\* A lease of a worker that is still at work may expire; that of one that is
\* gone does.
Abandoned(i) == \A d \in Dispatcher : dispatch[d] # AtRest => dispatch[d].intent # i
AbandonedRule(r) == \A m \in Materializer : emit[m] # AtRest => emit[m].rule # r

ExpireIntent(i) ==
  /\ intents[i].lease = "live"
  /\ IF Abandoned(i) THEN UNCHANGED dueMishaps ELSE DueMishap
  /\ intents' = [intents EXCEPT ![i] = [@ EXCEPT !.lease = "expired"]]
  /\ UNCHANGED <<rules, started, due, source, dispatch, emit, dueChanges>>

ExpireRule(r) ==
  /\ rules[r].lease = "live"
  /\ IF AbandonedRule(r) THEN UNCHANGED dueMishaps ELSE DueMishap
  /\ rules' = [rules EXCEPT ![r] = [@ EXCEPT !.lease = "expired"]]
  /\ UNCHANGED <<intents, started, due, source, dispatch, emit, dueChanges>>

StopDispatcher(d) ==
  /\ DueMishap
  /\ dispatch[d] # AtRest
  /\ dispatch' = [dispatch EXCEPT ![d] = AtRest]
  /\ UNCHANGED <<rules, intents, started, due, source, emit, dueChanges>>

StopMaterializer(m) ==
  /\ DueMishap
  /\ emit[m] # AtRest
  /\ emit' = [emit EXCEPT ![m] = AtRest]
  /\ UNCHANGED <<rules, intents, started, due, source, dispatch, dueChanges>>

Dispatch(d) ==
  \/ FindTask(d) \/ Refuse(d) \/ CheckTrigger(d) \/ WaitForTrigger(d)
  \/ Admit(d) \/ StartTask(d) \/ StartRefused(d) \/ Settle(d)

Emit(m) == ScheduleOccurrence(m) \/ RefuseOccurrence(m) \/ SettleOccurrence(m)

DueNext ==
  \/ \E r \in Rule : \/ ComesDue(r) \/ ExpireRule(r)
                     \/ \E state \in {"active", "paused", "cancelled"} : ChangeRule(r, state)
                     \/ \E m \in Materializer : ClaimRule(m, r)
  \/ \E i \in Direct : Schedule(i)
  \/ \E i \in Intent : \/ Cancel(i) \/ Retry(i) \/ ExpireIntent(i)
                       \/ \E d \in Dispatcher : Claim(d, i)
  \/ \E d \in Dispatcher : Dispatch(d) \/ StopDispatcher(d)
  \/ \E m \in Materializer : Emit(m) \/ StopMaterializer(m)
  \/ \E result \in {"succeeded", "ended"} : SourceEnds(result)

DueSpec == DueInit /\ [][DueNext]_dueVars

\* Both loops tick every second while a host is up and supervisors restart
\* hosts; leases are wall-clock times.  A claim takes the row that has waited
\* longest for its next attempt, and an attempt puts it behind the others.
DueFairness ==
  /\ \A d \in Dispatcher : WF_dueVars(Dispatch(d))
  /\ \A m \in Materializer : WF_dueVars(Emit(m))
  /\ \A i \in Intent : SF_dueVars(\E d \in Dispatcher : Claim(d, i)) /\ WF_dueVars(ExpireIntent(i))
  /\ \A r \in Rule : SF_dueVars(\E m \in Materializer : ClaimRule(m, r)) /\ WF_dueVars(ExpireRule(r))

DueFairSpec == DueSpec /\ DueFairness
-----------------------------------------------------------------------------
(* Properties *)

Materialized(r) == {n \in 0..LastOf[r] : intents[<<r, n>>].state # "absent"}

\* Every sequence number of a rule that has passed became one intent or was
\* counted as skipped, and the only other intent is the one that is pending.
\* Workers may lose a lease after the intent was saved and before the rule was
\* settled (recurring/store.js:33-53).
OccurrencesAccounted ==
  \A r \in Rule :
    /\ Cardinality(Materialized(r) \cap 0..rules[r].last) + rules[r].skipped = rules[r].last + 1
    /\ Materialized(r) \subseteq 0..rules[r].last \cup {rules[r].pending}

\* A Task starts only for an intent that was admitted and is not cancelled, and
\* whose trigger came true, although a worker that lost its lease may be on its
\* way; an intent that says it was dispatched has its Task, whoever settled it
\* (deferred/service.js:20-37, deferred/store.js:29-54).
IntentsMatchTasks ==
  /\ \A i \in started : intents[i].admitted = "yes" /\ intents[i].state # "cancelled" /\ Fires(i)
  /\ \A i \in Intent : intents[i].state = "dispatched" => i \in started

\* A rule that was paused, cancelled or completed schedules nothing, even from
\* a worker that claimed it before (recurring/store.js:25-32).
StoppedRulesAreQuiet ==
  [][\A r \in Rule :
       rules[r].state \in {"paused", "cancelled", "completed"} /\ rules'[r].state = rules[r].state
       => \A n \in 0..LastOf[r] :
            intents[<<r, n>>].state = "absent" => intents'[<<r, n>>].state = "absent"]_dueVars

\* An occurrence that was begun is settled, or its rule is blocked and says so.
OccurrencesSettle ==
  \A r \in Rule : rules[r].pending # NoSequence ~> rules[r].pending = NoSequence \/ rules[r].state = "blocked"

\* An intent that nothing holds back gets its Task, or is blocked or cancelled.
IntentsResolve ==
  \A i \in Intent :
    intents[i].state \in {"queued", "retry", "dispatching"} /\ (Trigger(i) = "none" \/ source # "open")
    ~> intents[i].state \in {"dispatched", "blocked", "cancelled"}
=============================================================================
