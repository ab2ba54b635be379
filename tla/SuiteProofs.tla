---------------------------- MODULE SuiteProofs ----------------------------
(***************************************************************************)
(* Proofs about the services that MCServices runs side by side, stated of   *)
(* ServicesSpec itself: a step of it is a step of the service in focus and  *)
(* leaves the variables of the others alone.                               *)
(***************************************************************************)
EXTENDS MCServices, ServiceProofs

-----------------------------------------------------------------------------
(* Due work: occurrences and intents *)

\* A row nobody holds has no live lease; a pending occurrence lies between the last
\* one and what is due; a rule that was stopped has none.
RuleInv ==
  \A r \in Rule :
    /\ due[r] \in Int /\ due[r] <= LastOf[r]
    /\ rules[r].last >= NoSequence /\ rules[r].last <= due[r]
    /\ rules[r].pending # NoSequence => rules[r].last < rules[r].pending /\ rules[r].pending <= due[r]
    /\ rules[r].state \in {"paused", "cancelled", "completed"} => rules[r].pending = NoSequence

\* What a materializer carries is the pending occurrence, or one that was settled
\* meanwhile and has its intent; with a receipt it has its intent.
EmitInv ==
  \A m \in Materializer : \A r \in Rule :
    emit[m] # AtRest /\ emit[m].rule = r =>
      LET n == emit[m].seq
      IN  /\ n = rules[r].pending \/ (n <= rules[r].last /\ n \in Materialized(r))
          /\ rules[r].holder = m => n = rules[r].pending
          /\ emit[m].step = "receipt" => n \in Materialized(r)
          /\ n \in 0..LastOf[r]

\* An admitted intent is past cancellation and its trigger came true; a dispatcher
\* that was allowed to start a Task has seen the trigger.
IntentInv ==
  /\ \A i \in Intent :
       /\ intents[i].admitted = "yes" => intents[i].state \notin {"absent", "cancelled"} /\ Fires(i)
       /\ intents[i].state = "dispatched" => i \in started
       /\ intents[i].state = "dispatching" => intents[i].attempts > 0
  /\ \A i \in started : intents[i].admitted = "yes"
  /\ \A d \in Dispatcher :
       dispatch[d] # AtRest =>
         LET i == dispatch[d].intent
         IN  /\ intents[i].state # "absent"
             /\ dispatch[d].step = "allowed" => Fires(i)
             /\ dispatch[d].step = "admitted" => intents[i].admitted = "yes"
             /\ dispatch[d].step = "receipt" => i \in started

DueInv == DueTypeOK /\ RuleInv /\ EmitInv /\ OccurrencesAccounted /\ IntentInv

LEMMA DueStarts == DueInit => DueInv
<1> SUFFICES ASSUME DueInit PROVE DueInv
  OBVIOUS
<1> USE DueWorkAssumption
<1>1. DueTypeOK
  BY DEF DueInit, DueTypeOK, RuleRow, IntentRow, Sequence, NoSequence, AtRest
<1>2. RuleInv /\ EmitInv /\ IntentInv
  BY DEF DueInit, RuleInv, EmitInv, IntentInv, NoSequence, Materialized, AtRest
<1>3. ASSUME NEW r \in Rule
      PROVE  /\ Cardinality(Materialized(r) \cap 0..rules[r].last) + rules[r].skipped = rules[r].last + 1
             /\ Materialized(r) \subseteq 0..rules[r].last \cup {rules[r].pending}
  <2>1. rules[r].last = -1 /\ rules[r].skipped = 0
    BY DEF DueInit, NoSequence
  <2>2. ASSUME NEW n \in 0..LastOf[r] PROVE <<r, n>> \in Intent
    BY DEF Intent, Occurrence
  <2>3. Materialized(r) = {}
    BY <2>2 DEF DueInit, Materialized
  <2>4. Cardinality(Materialized(r) \cap 0..rules[r].last) = 0
    BY <2>3, FS_EmptySet
  <2>5. QED
    BY <2>1, <2>3, <2>4
<1>4. OccurrencesAccounted
  BY <1>3 DEF OccurrencesAccounted
<1>5. QED
  BY <1>1, <1>2, <1>4 DEF DueInv

\* When no intent appears or disappears, a rule has the occurrences it had.
LEMMA SameOccurrences ==
  ASSUME \A i \in Occurrence : intents'[i].state = "absent" <=> intents[i].state = "absent",
         NEW r \in Rule
  PROVE  Materialized(r)' = Materialized(r)
<1>1. \A n \in 0..LastOf[r] : <<r, n>> \in Occurrence
  BY DEF Occurrence
<1>2. QED
  BY <1>1 DEF Materialized

\* Steps that leave the rules and their loops alone, and make no occurrence.
LEMMA RulesRest ==
  ASSUME DueInv, UNCHANGED <<rules, emit, due>>,
         \A i \in Occurrence : intents'[i].state = "absent" <=> intents[i].state = "absent"
  PROVE  RuleInv' /\ EmitInv' /\ OccurrencesAccounted'
<1>1. \A r \in Rule : Materialized(r)' = Materialized(r)
  BY SameOccurrences
<1>2. RuleInv'
  BY DEF DueInv, RuleInv
<1>3. OccurrencesAccounted'
  BY <1>1 DEF DueInv, OccurrencesAccounted
<1>4. EmitInv'
  BY <1>1 DEF DueInv, EmitInv
<1>5. QED
  BY <1>2, <1>3, <1>4

\* The trigger of i fires after the step.
FiresThen(i) == Trigger(i) = "none" \/ source' = "succeeded" \/ (Trigger(i) = "finished" /\ source' = "ended")

\* The row of one intent and the place of one dispatcher change.
LEMMA IntentsKeep ==
  ASSUME DueInv, UNCHANGED <<rules, emit, due>>, dueMishaps' \in Nat, dueChanges' \in Nat,
         started' \subseteq Intent, started \subseteq started',
         source' \in {"open", "succeeded", "ended"}, \A i \in Intent : Fires(i) => FiresThen(i),
         NEW i \in Intent, NEW row \in IntentRow, intents' = [intents EXCEPT ![i] = row],
         \A j \in started' : j \in started \/ j = i,
         row.state = "absent" => intents[i].state = "absent",
         intents[i].state = "absent" /\ i \in Occurrence => row.state = "absent",
         row.admitted = "yes" => row.state \notin {"absent", "cancelled"} /\ FiresThen(i),
         intents[i].admitted = "yes" => row.admitted = "yes",
         row.state = "dispatched" => i \in started',
         row.state = "dispatching" => row.attempts > 0,
         i \in started' => row.admitted = "yes",
         dispatch' \in [Dispatcher -> {AtRest} \cup [step : DispatchStep, intent : Intent, admitted : {"no", "yes"}]],
         \A d \in Dispatcher : dispatch'[d] # AtRest => dispatch'[d] = dispatch[d] \/
           LET j == dispatch'[d].intent
           IN  /\ intents'[j].state # "absent"
               /\ dispatch'[d].step = "allowed" => FiresThen(j)
               /\ dispatch'[d].step = "admitted" => intents'[j].admitted = "yes"
               /\ dispatch'[d].step = "receipt" => j \in started'
  PROVE  DueInv'
<1>1. intents' \in [Intent -> IntentRow] /\ intents'[i] = row /\ \A j \in Intent : j # i => intents'[j] = intents[j]
  BY DEF DueInv, DueTypeOK
<1>2. DueTypeOK'
  BY <1>1 DEF DueInv, DueTypeOK
<1>3. /\ \A j \in Intent : intents'[j].state = "absent" => intents[j].state = "absent"
      /\ \A j \in Occurrence : intents'[j].state = "absent" <=> intents[j].state = "absent"
  BY <1>1 DEF Intent
<1>4. RuleInv' /\ EmitInv' /\ OccurrencesAccounted'
  BY <1>3, RulesRest
<1>5. \A j \in Intent :
        /\ intents'[j].admitted = "yes" => intents'[j].state \notin {"absent", "cancelled"} /\ FiresThen(j)
        /\ intents'[j].state = "dispatched" => j \in started'
        /\ intents'[j].state = "dispatching" => intents'[j].attempts > 0
  BY <1>1 DEF DueInv, IntentInv
<1>6. \A j \in started' : intents'[j].admitted = "yes"
  BY <1>1 DEF DueInv, IntentInv
<1>7. \A j \in Intent : intents[j].admitted = "yes" => intents'[j].admitted = "yes"
  BY <1>1
<1>8. ASSUME NEW d \in Dispatcher, dispatch'[d] # AtRest
      PROVE  LET j == dispatch'[d].intent
             IN  /\ intents'[j].state # "absent"
                 /\ dispatch'[d].step = "allowed" => FiresThen(j)
                 /\ dispatch'[d].step = "admitted" => intents'[j].admitted = "yes"
                 /\ dispatch'[d].step = "receipt" => j \in started'
  <2>1. CASE dispatch'[d] = dispatch[d]
    <3>1. dispatch[d].intent \in Intent
      BY <1>8, <2>1 DEF DueInv, DueTypeOK
    <3>2. QED
      BY <1>3, <1>7, <1>8, <2>1, <3>1 DEF DueInv, IntentInv
  <2>2. CASE dispatch'[d] # dispatch[d]
    BY <1>8, <2>2
  <2>3. QED
    BY <2>1, <2>2
<1>9. IntentInv'
  <2>1. \A j \in Intent : FiresThen(j) => Fires(j)'
    BY DEF FiresThen, Fires
  <2>2. \A d \in Dispatcher : dispatch'[d] # AtRest => dispatch'[d].intent \in Intent
    OBVIOUS
  <2>3. QED
    BY <1>5, <1>6, <1>8, <2>1, <2>2 DEF IntentInv
<1>10. QED
  BY <1>2, <1>4, <1>9 DEF DueInv

\* Only the place of a dispatcher changes.
LEMMA DispatchersKeep ==
  ASSUME DueInv, UNCHANGED <<rules, intents, started, due, source, emit, dueChanges>>, dueMishaps' \in Nat,
         dispatch' \in [Dispatcher -> {AtRest} \cup [step : DispatchStep, intent : Intent, admitted : {"no", "yes"}]],
         \A d \in Dispatcher : dispatch'[d] # AtRest => dispatch'[d] = dispatch[d] \/
           LET j == dispatch'[d].intent
           IN  /\ intents[j].state # "absent"
               /\ dispatch'[d].step = "allowed" => Fires(j)
               /\ dispatch'[d].step = "admitted" => intents[j].admitted = "yes"
               /\ dispatch'[d].step = "receipt" => j \in started
  PROVE  DueInv'
<1>1. DueTypeOK'
  BY DEF DueInv, DueTypeOK
<1>2. RuleInv' /\ EmitInv' /\ OccurrencesAccounted'
  BY RulesRest
<1>3. \A j \in Intent : Fires(j)' = Fires(j)
  BY DEF Fires
<1>4. \A d \in Dispatcher : dispatch'[d] # AtRest => dispatch'[d].intent \in Intent
  OBVIOUS
<1>5. IntentInv'
  BY <1>3, <1>4 DEF DueInv, IntentInv
<1>6. QED
  BY <1>1, <1>2, <1>5 DEF DueInv

DispatchPlace == {AtRest} \cup [step : DispatchStep, intent : Intent, admitted : {"no", "yes"}]

\* What the invariant says of each row and place.
LEMMA DueRows ==
  ASSUME DueInv
  PROVE  /\ dueMishaps \in Nat /\ dueChanges \in Nat /\ dispatch \in [Dispatcher -> DispatchPlace]
         /\ \A i \in Intent : intents[i] \in IntentRow
         /\ started \subseteq Intent /\ source \in {"open", "succeeded", "ended"}
  BY DEF DueInv, DueTypeOK, DispatchPlace

IntentRecord ==
  [state : {"absent", "queued", "dispatching", "retry", "dispatched", "blocked", "cancelled"},
   admitted : {"no", "yes"}, attempts : Nat, holder : Dispatcher \cup {Nobody}, lease : {"live", "expired"}]

LEMMA DispatcherSteps ==
  ASSUME DueInv, NEW d \in Dispatcher, Dispatch(d) \/ StopDispatcher(d)
  PROVE  DueInv'
<1> USE DueRows
<1>1. CASE FindTask(d)
  BY <1>1, DispatchersKeep DEF FindTask, DueAt, DueGoes, DispatchPlace, DispatchStep, AtRest, DueInv, IntentInv
<1>2. CASE Refuse(d)
  BY <1>2, DispatchersKeep DEF Refuse, DueAt, DueGoes, DispatchPlace, DispatchStep, AtRest, DueInv, IntentInv
<1>3. CASE CheckTrigger(d)
  BY <1>3, DispatchersKeep DEF CheckTrigger, DueAt, DueGoes, DispatchPlace, DispatchStep, AtRest, DueInv, IntentInv
<1>4. CASE WaitForTrigger(d)
  <2> DEFINE i == dispatch[d].intent
             row == [Freed(intents[i]) EXCEPT !.state = "queued", !.attempts = intents[i].attempts - 1]
  <2>1. dispatch[d] # AtRest /\ i \in Intent
    BY <1>4 DEF WaitForTrigger, DueAt, AtRest, DispatchPlace
  <2>2. dispatch' = [dispatch EXCEPT ![d] = AtRest]
    BY <1>4 DEF WaitForTrigger
  <2>3. CASE Holds(intents[i], d)
    <3>1. intents[i].state = "dispatching" /\ intents[i].attempts > 0
      BY <2>1, <2>3, DueWorkAssumption DEF Holds, IntentRow, DueInv, IntentInv
    <3>2. /\ row \in IntentRow /\ row.state = "queued" /\ row.admitted = intents[i].admitted
      <4> DEFINE free == Freed(intents[i])
      <4>1. /\ free \in IntentRecord /\ free.attempts = intents[i].attempts /\ free.admitted = intents[i].admitted
            /\ free.holder = Nobody /\ free.lease = "expired"
        BY <2>1, <3>1 DEF IntentRow, IntentRecord, Freed
      <4>2. intents[i].attempts - 1 \in Nat
        BY <2>1, <3>1 DEF IntentRow
      <4> HIDE DEF free, i
      <4>3. /\ [free EXCEPT !.state = "queued", !.attempts = intents[i].attempts - 1] \in IntentRow
            /\ [free EXCEPT !.state = "queued", !.attempts = intents[i].attempts - 1].state = "queued"
            /\ [free EXCEPT !.state = "queued", !.attempts = intents[i].attempts - 1].admitted = intents[i].admitted
        BY <4>1, <4>2 DEF IntentRow, IntentRecord
      <4>4. QED
        BY <4>3 DEF free
    <3> HIDE DEF row
    <3>3. intents' = [intents EXCEPT ![i] = row]
      BY <1>4, <2>3 DEF WaitForTrigger, row
    <3>4. UNCHANGED <<rules, started, due, source, emit, dueMishaps, dueChanges>>
      BY <1>4 DEF WaitForTrigger
    <3>5. \A j \in Intent : Fires(j) => FiresThen(j)
      BY <3>4 DEF Fires, FiresThen
    <3>6. intents[i].admitted = "yes" => Fires(i)
      BY <2>1 DEF DueInv, IntentInv
    <3>7. i \in started => intents[i].admitted = "yes"
      BY DEF DueInv, IntentInv
    <3>8. dispatch' \in [Dispatcher -> DispatchPlace] /\ \A e \in Dispatcher : dispatch'[e] # AtRest => dispatch'[e] = dispatch[e]
      BY <2>2 DEF DispatchPlace
    <3> HIDE DEF i
    <3>9. QED
      BY <2>1, <3>1, <3>2, <3>3, <3>4, <3>5, <3>6, <3>7, <3>8, IntentsKeep DEF DispatchPlace
  <2>4. CASE ~Holds(intents[i], d)
    BY <1>4, <2>2, <2>4, DispatchersKeep DEF WaitForTrigger, DispatchPlace
  <2>5. QED
    BY <2>3, <2>4
<1>5. CASE Admit(d)
  <2> DEFINE i == dispatch[d].intent
             row == [intents[i] EXCEPT !.admitted = "yes"]
  <2>1. dispatch[d] # AtRest /\ i \in Intent /\ dispatch[d].step = "allowed"
    BY <1>5 DEF Admit, DueAt, AtRest, DispatchPlace
  <2>2. Fires(i)
    BY <2>1 DEF DueInv, IntentInv
  <2>3. CASE Admits(intents[i], d)
    <3>1. row \in IntentRow /\ row.state = "dispatching" /\ row.attempts > 0 /\ row.admitted = "yes"
      BY <2>1, <2>3 DEF Admits, IntentRow, DueInv, IntentInv
    <3>2. intents[i].state = "dispatching"
      BY <2>3 DEF Admits
    <3> HIDE DEF row
    <3>3. /\ intents' = [intents EXCEPT ![i] = row]
          /\ dispatch' = [dispatch EXCEPT ![d] = [@ EXCEPT !.step = "admitted", !.admitted = "yes"]]
          /\ UNCHANGED <<rules, started, due, source, emit, dueMishaps, dueChanges>>
      BY <1>5, <2>3 DEF Admit, row
    <3>4. \A j \in Intent : Fires(j) => FiresThen(j)
      BY <3>3 DEF Fires, FiresThen
    <3>5. dispatch' \in [Dispatcher -> DispatchPlace]
      BY <2>1, <3>3 DEF DispatchPlace, DispatchStep
    <3>6. \A e \in Dispatcher : e # d => dispatch'[e] = dispatch[e]
      BY <3>3
    <3>7. dispatch'[d].intent = i /\ dispatch'[d].step = "admitted"
      BY <2>1, <3>3 DEF DispatchPlace
    <3>8. intents'[i].admitted = "yes" /\ intents'[i].state # "absent"
      BY <2>1, <3>1, <3>3 DEF DueInv, DueTypeOK
    <3> HIDE DEF i
    <3>9. \A e \in Dispatcher : dispatch'[e] # AtRest => dispatch'[e] = dispatch[e] \/
           LET j == dispatch'[e].intent
           IN  /\ intents'[j].state # "absent"
               /\ dispatch'[e].step = "allowed" => FiresThen(j)
               /\ dispatch'[e].step = "admitted" => intents'[j].admitted = "yes"
               /\ dispatch'[e].step = "receipt" => j \in started'
      BY <3>6, <3>7, <3>8
    <3>10. QED
      BY <2>1, <2>2, <3>1, <3>2, <3>3, <3>4, <3>5, <3>9, IntentsKeep DEF DispatchPlace
  <2>4. CASE ~Admits(intents[i], d)
    BY <1>5, <2>1, <2>4, DispatchersKeep DEF Admit, DueGoes, DispatchPlace, DispatchStep, AtRest, DueInv, IntentInv
  <2>5. QED
    BY <2>3, <2>4
<1>6. CASE StartTask(d)
  <2> DEFINE i == dispatch[d].intent
             row == intents[i]
  <2>1. dispatch[d] # AtRest /\ i \in Intent /\ dispatch[d].step = "admitted"
    BY <1>6 DEF StartTask, DueAt, AtRest, DispatchPlace
  <2>2. intents[i].admitted = "yes" /\ intents[i].state # "absent"
    BY <2>1 DEF DueInv, IntentInv
  <2>3. row \in IntentRow /\ intents' = [intents EXCEPT ![i] = row]
    BY <1>6, <2>1 DEF StartTask, DueInv, DueTypeOK
  <2>4. /\ started' = started \cup {i} /\ UNCHANGED <<rules, due, source, emit, dueChanges>> /\ dueMishaps' \in Nat
        /\ \E step \in {"receipt", "failed"} : dispatch' = [dispatch EXCEPT ![d] = [@ EXCEPT !.step = step]]
    BY <1>6 DEF StartTask, DueGoes, DueMishap
  <2>5. \A j \in Intent : Fires(j) => FiresThen(j)
    BY <2>4 DEF Fires, FiresThen
  <2>6. dispatch' \in [Dispatcher -> DispatchPlace] /\ \A e \in Dispatcher : e # d => dispatch'[e] = dispatch[e]
    BY <2>1, <2>4 DEF DispatchPlace, DispatchStep
  <2>7. dispatch'[d].intent = i /\ dispatch'[d].step \in {"receipt", "failed"} /\ intents' = intents
    BY <1>6, <2>1, <2>4 DEF DispatchPlace, StartTask
  <2>8. /\ row.admitted = "yes" => row.state \notin {"absent", "cancelled"} /\ Fires(i)
        /\ row.state = "dispatching" => row.attempts > 0
    BY <2>1 DEF DueInv, IntentInv
  <2> HIDE DEF i
  <2>9. \A e \in Dispatcher : dispatch'[e] # AtRest => dispatch'[e] = dispatch[e] \/
         LET j == dispatch'[e].intent
         IN  /\ intents'[j].state # "absent"
             /\ dispatch'[e].step = "allowed" => FiresThen(j)
             /\ dispatch'[e].step = "admitted" => intents'[j].admitted = "yes"
             /\ dispatch'[e].step = "receipt" => j \in started'
    BY <2>2, <2>4, <2>6, <2>7
  <2> HIDE DEF row
  <2>10. started' \subseteq Intent /\ started \subseteq started' /\ (\A j \in started' : j \in started \/ j = i) /\ i \in started'
    BY <2>1, <2>4
  <2>11. QED
    BY <2>1, <2>2, <2>3, <2>4, <2>5, <2>6, <2>8, <2>9, <2>10, IntentsKeep DEF DispatchPlace, row
<1>7. CASE StartRefused(d)
  BY <1>7, DispatchersKeep DEF StartRefused, DueAt, DueGoes, DispatchPlace, DispatchStep, AtRest, DueInv, IntentInv
<1>8. CASE Settle(d)
  <2> DEFINE i == dispatch[d].intent
             row == [Freed(intents[i]) EXCEPT !.state = Outcome(intents[i], dispatch[d])]
  <2>1. dispatch[d] # AtRest /\ i \in Intent /\ dispatch[d].step \in {"receipt", "refused", "failed"}
    BY <1>8 DEF Settle, DueAt, AtRest, DispatchPlace
  <2>2. dispatch' = [dispatch EXCEPT ![d] = AtRest]
    BY <1>8 DEF Settle
  <2>3. dispatch' \in [Dispatcher -> DispatchPlace] /\ \A e \in Dispatcher : dispatch'[e] # AtRest => dispatch'[e] = dispatch[e]
    BY <2>2 DEF DispatchPlace
  <2>4. CASE Settles(intents[i], d)
    <3>1. intents[i].state = "dispatching"
      BY <2>4 DEF Settles
    <3>2. /\ Outcome(intents[i], dispatch[d]) \in {"dispatched", "blocked", "retry"}
          /\ Outcome(intents[i], dispatch[d]) = "dispatched" => dispatch[d].step = "receipt"
      BY DEF Outcome
    <3>3. /\ row \in IntentRow /\ row.state = Outcome(intents[i], dispatch[d]) /\ row.admitted = intents[i].admitted
      BY <2>1, <3>1, <3>2 DEF IntentRow, Freed
    <3> HIDE DEF row
    <3>4. intents' = [intents EXCEPT ![i] = row] /\ UNCHANGED <<rules, started, due, source, emit, dueMishaps, dueChanges>>
      BY <1>8, <2>4 DEF Settle, row
    <3>5. \A j \in Intent : Fires(j) => FiresThen(j)
      BY <3>4 DEF Fires, FiresThen
    <3>6. /\ intents[i].admitted = "yes" => Fires(i)
          /\ dispatch[d].step = "receipt" => i \in started
          /\ i \in started => intents[i].admitted = "yes"
      BY <2>1 DEF DueInv, IntentInv
    <3> HIDE DEF i
    <3>7. QED
      BY <2>1, <2>3, <3>1, <3>2, <3>3, <3>4, <3>5, <3>6, IntentsKeep DEF DispatchPlace
  <2>5. CASE ~Settles(intents[i], d)
    BY <1>8, <2>3, <2>5, DispatchersKeep DEF Settle, DispatchPlace
  <2>6. QED
    BY <2>4, <2>5
<1>9. CASE StopDispatcher(d)
  BY <1>9, DispatchersKeep DEF StopDispatcher, DispatchPlace, DueMishap
<1>10. QED
  BY <1>1, <1>2, <1>3, <1>4, <1>5, <1>6, <1>7, <1>8, <1>9 DEF Dispatch

\* What owners, the clock and the source Task do to an intent.
LEMMA OwnerSteps ==
  ASSUME DueInv, NEW i \in Intent,
         \/ Cancel(i) \/ Retry(i) \/ ExpireIntent(i) \/ (i \in Direct /\ Schedule(i))
         \/ \E d \in Dispatcher : Claim(d, i)
  PROVE  DueInv'
<1> USE DueRows
<1>1. /\ intents[i].admitted = "yes" => intents[i].state \notin {"absent", "cancelled"} /\ Fires(i)
      /\ intents[i].state = "dispatching" => intents[i].attempts > 0
      /\ intents[i].state = "dispatched" => i \in started
      /\ i \in started => intents[i].admitted = "yes"
  BY DEF DueInv, IntentInv
<1> DEFINE Kept(row) ==
      /\ row \in IntentRow /\ intents' = [intents EXCEPT ![i] = row]
      /\ row.state = "absent" => intents[i].state = "absent"
      /\ intents[i].state = "absent" /\ i \in Occurrence => row.state = "absent"
      /\ row.state = "cancelled" => intents[i].admitted = "no"
      /\ row.admitted = intents[i].admitted
      /\ row.state = "dispatched" => intents[i].state = "dispatched"
      /\ row.state = "dispatching" => row.attempts > 0
<1>2. ASSUME NEW row, Kept(row), UNCHANGED <<rules, emit, due, started, source, dispatch>>,
             dueMishaps' \in Nat, dueChanges' \in Nat
      PROVE  DueInv'
  <2>1. \A j \in Intent : Fires(j) => FiresThen(j)
    BY <1>2 DEF Fires, FiresThen
  <2>2. QED
    BY <1>1, <1>2, <2>1, IntentsKeep DEF DispatchPlace
<1>3. CASE Cancel(i)
  <2> DEFINE row == [Freed(intents[i]) EXCEPT !.state = "cancelled"]
  <2>1. Kept(row)
    BY <1>3 DEF Cancel, Cancellable, IntentRow, Freed
  <2> HIDE DEF row, Kept
  <2>2. QED
    BY <1>2, <1>3, <2>1 DEF Cancel
<1>4. CASE Retry(i)
  <2> DEFINE row == [Freed(intents[i]) EXCEPT !.state = "retry", !.attempts = 0]
  <2>1. Kept(row)
    BY <1>4 DEF Retry, IntentRow, Freed
  <2> HIDE DEF row, Kept
  <2>2. QED
    BY <1>2, <1>4, <2>1 DEF Retry, DueChange
<1>5. CASE ExpireIntent(i)
  <2> DEFINE row == [intents[i] EXCEPT !.lease = "expired"]
  <2>1. Kept(row)
    BY <1>1, <1>5 DEF ExpireIntent, IntentRow
  <2> HIDE DEF row, Kept
  <2>2. UNCHANGED <<rules, emit, due, started, source, dispatch>> /\ dueMishaps' \in Nat /\ dueChanges' \in Nat
    BY <1>5 DEF ExpireIntent, DueMishap
  <2>3. QED
    BY <1>2, <2>1, <2>2
<1>6. CASE i \in Direct /\ Schedule(i)
  <2> DEFINE row == [intents[i] EXCEPT !.state = "queued"]
  <2>1. i \notin Occurrence
    BY <1>6, DueWorkAssumption
  <2>2. intents[i].state = "absent" /\ intents' = [intents EXCEPT ![i] = row]
    BY <1>6 DEF Schedule, Saved
  <2>3. Kept(row)
    BY <2>1, <2>2 DEF IntentRow
  <2> HIDE DEF row, Kept
  <2>4. QED
    BY <1>2, <1>6, <2>3 DEF Schedule
<1>7. ASSUME NEW d \in Dispatcher, Claim(d, i)
      PROVE  DueInv'
  <2> DEFINE row == [intents[i] EXCEPT !.state = "dispatching", !.holder = d, !.lease = "live", !.attempts = intents[i].attempts + 1]
  <2>1. Kept(row) /\ row.state = "dispatching"
    <3>1. /\ intents' = [intents EXCEPT ![i] = row] /\ Claimable(intents[i])
          /\ intents[i] \in IntentRow /\ d \in Dispatcher /\ d # Nobody
      BY <1>7, DueWorkAssumption DEF Claim
    <3>2. intents[i].state \in {"queued", "retry", "dispatching"} /\ intents[i].attempts \in Nat
      BY <3>1 DEF Claimable, IntentRow
    <3> DEFINE n == intents[i].attempts + 1
    <3>3. n \in Nat /\ n > 0
      BY <3>2
    <3> HIDE DEF n
    <3>4. /\ [intents[i] EXCEPT !.state = "dispatching", !.holder = d, !.lease = "live", !.attempts = n] \in IntentRow
          /\ [intents[i] EXCEPT !.state = "dispatching", !.holder = d, !.lease = "live", !.attempts = n].state = "dispatching"
          /\ [intents[i] EXCEPT !.state = "dispatching", !.holder = d, !.lease = "live", !.attempts = n].attempts = n
          /\ [intents[i] EXCEPT !.state = "dispatching", !.holder = d, !.lease = "live", !.attempts = n].admitted
                = intents[i].admitted
      BY <3>1, <3>3 DEF IntentRow
    <3>5. row.state = "dispatching" /\ row \in IntentRow /\ row.attempts > 0 /\ row.admitted = intents[i].admitted
      BY <3>3, <3>4 DEF n
    <3> HIDE DEF row
    <3>6. QED
      BY <3>1, <3>2, <3>5
  <2> HIDE DEF row
  <2>2. /\ UNCHANGED <<rules, emit, due, started, source, dueMishaps, dueChanges>>
        /\ dispatch' = [dispatch EXCEPT ![d] = [step |-> "claimed", intent |-> i, admitted |-> intents[i].admitted]]
    BY <1>7 DEF Claim
  <2>3. \A j \in Intent : Fires(j) => FiresThen(j)
    BY <2>2 DEF Fires, FiresThen
  <2>4. dispatch' \in [Dispatcher -> DispatchPlace]
    BY <2>2 DEF DispatchPlace, DispatchStep, IntentRow
  <2>5. intents'[i].state # "absent"
    BY <2>1 DEF DueInv, DueTypeOK
  <2>6. \A e \in Dispatcher : dispatch'[e] # AtRest => dispatch'[e] = dispatch[e] \/
         LET j == dispatch'[e].intent
         IN  /\ intents'[j].state # "absent"
             /\ dispatch'[e].step = "allowed" => FiresThen(j)
             /\ dispatch'[e].step = "admitted" => intents'[j].admitted = "yes"
             /\ dispatch'[e].step = "receipt" => j \in started'
    BY <2>2, <2>5
  <2>7. QED
    BY <1>1, <2>1, <2>2, <2>3, <2>4, <2>6, IntentsKeep DEF DispatchPlace
<1>8. QED
  BY <1>3, <1>4, <1>5, <1>6, <1>7

\* The intents and their loops do not see what happens to rules.
LEMMA IntentsRest ==
  ASSUME IntentInv, UNCHANGED <<intents, started, source, dispatch>>
  PROVE  IntentInv'
<1>1. \A i \in Intent : Fires(i)' = Fires(i)
  BY DEF Fires
<1>2. \A d \in Dispatcher : dispatch[d] # AtRest /\ dispatch[d].step = "allowed" => FiresThen(dispatch[d].intent)
  BY DEF IntentInv, Fires, FiresThen
<1>3. QED
  BY <1>1, <1>2 DEF IntentInv, Fires, FiresThen

EmitPlace == {AtRest} \cup [step : {"claimed", "receipt", "failed"}, rule : Rule, seq : Nat]

\* The row of one rule changes, and where the materializers are.
LEMMA RuleChanges ==
  ASSUME DueInv, NEW r \in Rule, NEW row \in RuleRow, rules' = [rules EXCEPT ![r] = row],
         UNCHANGED <<intents, started, due, source, dispatch>>, dueMishaps' \in Nat, dueChanges' \in Nat,
         row.last >= NoSequence, row.last <= due[r],
         row.pending # NoSequence => row.last < row.pending /\ row.pending <= due[r],
         row.state \in {"paused", "cancelled", "completed"} => row.pending = NoSequence,
         Cardinality(Materialized(r) \cap 0..row.last) + row.skipped = row.last + 1,
         Materialized(r) \subseteq 0..row.last \cup {row.pending},
         emit' \in [Materializer -> EmitPlace], EmitInv'
  PROVE  DueInv'
<1>1. rules' \in [Rule -> RuleRow] /\ rules'[r] = row /\ \A s \in Rule : s # r => rules'[s] = rules[s]
  BY DEF DueInv, DueTypeOK
<1>2. DueTypeOK'
  BY <1>1 DEF DueInv, DueTypeOK, EmitPlace
<1>3. RuleInv'
  BY <1>1 DEF DueInv, RuleInv
<1>4. \A s \in Rule : Materialized(s)' = Materialized(s)
  BY SameOccurrences
<1>5. OccurrencesAccounted'
  <2>1. ASSUME NEW s \in Rule
        PROVE  /\ Cardinality(Materialized(s) \cap 0..rules'[s].last) + rules'[s].skipped = rules'[s].last + 1
               /\ Materialized(s) \subseteq 0..rules'[s].last \cup {rules'[s].pending}
    BY <1>1 DEF DueInv, OccurrencesAccounted
  <2>2. QED
    BY <1>4, <2>1 DEF OccurrencesAccounted
<1>6. QED
  BY <1>2, <1>3, <1>5, IntentsRest DEF DueInv

\* What the invariant says of one rule.
LEMMA RuleFacts ==
  ASSUME DueInv, NEW r \in Rule
  PROVE  /\ rules[r] \in RuleRow /\ due[r] \in Int /\ due[r] <= LastOf[r] /\ LastOf[r] \in Nat
         /\ rules[r].last \in Int /\ rules[r].pending \in Int /\ rules[r].skipped \in Nat
         /\ rules[r].last >= NoSequence /\ rules[r].last <= due[r]
         /\ rules[r].pending # NoSequence => rules[r].last < rules[r].pending /\ rules[r].pending <= due[r]
         /\ rules[r].state \in {"paused", "cancelled", "completed"} => rules[r].pending = NoSequence
         /\ Cardinality(Materialized(r) \cap 0..rules[r].last) + rules[r].skipped = rules[r].last + 1
         /\ Materialized(r) \subseteq 0..rules[r].last \cup {rules[r].pending}
         /\ dueMishaps \in Nat /\ dueChanges \in Nat /\ emit \in [Materializer -> EmitPlace]
<1>1. /\ rules[r] \in RuleRow /\ LastOf[r] \in Nat /\ dueMishaps \in Nat /\ dueChanges \in Nat
      /\ emit \in [Materializer -> EmitPlace]
  BY DueWorkAssumption DEF DueInv, DueTypeOK, EmitPlace
<1>2. rules[r].last \in Int /\ rules[r].pending \in Int /\ rules[r].skipped \in Nat
  BY <1>1 DEF RuleRow, Sequence, NoSequence
<1>3. QED
  BY <1>1, <1>2 DEF DueInv, RuleInv, OccurrencesAccounted

\* Where a materializer is, when nothing it depends on has changed for the worse.
LEMMA EmittersKeep ==
  ASSUME DueInv, NEW r \in Rule, UNCHANGED intents, emit' \in [Materializer -> EmitPlace],
         rules' \in [Rule -> RuleRow], \A s \in Rule : s # r => rules'[s] = rules[s],
         \A n \in 0..LastOf[r] : n = rules[r].pending =>
           n = rules'[r].pending \/ (n <= rules'[r].last /\ n \in Materialized(r)),
         rules[r].last <= rules'[r].last,
         \A m \in Materializer : rules'[r].holder = m => rules[r].holder = m /\ rules'[r].pending = rules[r].pending,
         \A m \in Materializer : emit'[m] # AtRest =>
           /\ emit[m] # AtRest /\ emit'[m].rule = emit[m].rule /\ emit'[m].seq = emit[m].seq
           /\ emit'[m].step = "receipt" => emit[m].step = "receipt"
  PROVE  EmitInv'
<1>1. \A s \in Rule : Materialized(s)' = Materialized(s)
  BY SameOccurrences
<1>2. SUFFICES ASSUME NEW m \in Materializer, NEW s \in Rule, emit'[m] # AtRest, emit'[m].rule = s
               PROVE  LET n == emit'[m].seq
                      IN  /\ n = rules'[s].pending \/ (n <= rules'[s].last /\ n \in Materialized(s)')
                          /\ rules'[s].holder = m => n = rules'[s].pending
                          /\ emit'[m].step = "receipt" => n \in Materialized(s)'
                          /\ n \in 0..LastOf[s]
  BY DEF EmitInv
<1> DEFINE n == emit[m].seq
<1>3. emit[m] # AtRest /\ emit[m].rule = s /\ emit'[m].seq = n
  BY <1>2
<1>4. /\ n = rules[s].pending \/ (n <= rules[s].last /\ n \in Materialized(s))
      /\ rules[s].holder = m => n = rules[s].pending
      /\ emit[m].step = "receipt" => n \in Materialized(s)
      /\ n \in 0..LastOf[s]
  BY <1>3 DEF DueInv, EmitInv
<1>5. rules[s].last \in Int /\ rules'[s].last \in Int /\ n \in Int
  <2>1. rules[s] \in RuleRow /\ rules'[s] \in RuleRow
    BY RuleFacts
  <2>2. QED
    BY <1>4, <2>1 DEF RuleRow, Sequence, NoSequence
<1> HIDE DEF n
<1>6. CASE s = r
  BY <1>1, <1>2, <1>3, <1>4, <1>5, <1>6
<1>7. CASE s # r
  BY <1>1, <1>2, <1>3, <1>4, <1>7
<1>8. QED
  BY <1>6, <1>7

LEMMA RuleOrder ==
  ASSUME DueInv, NEW r \in Rule
  PROVE  /\ rules[r] \in RuleRow /\ due[r] \in Int /\ due[r] <= LastOf[r] /\ LastOf[r] \in Nat
         /\ rules[r].last \in Int /\ rules[r].pending \in Int /\ rules[r].attempts \in Nat
         /\ rules[r].last >= -1 /\ rules[r].last <= due[r]
         /\ rules[r].pending # -1 => rules[r].last < rules[r].pending /\ rules[r].pending <= due[r]
  BY RuleFacts DEF NoSequence, RuleRow

LEMMA RuleSteps ==
  ASSUME DueInv, NEW r \in Rule,
         \/ ComesDue(r) \/ ExpireRule(r)
         \/ \E state \in {"active", "paused", "cancelled"} : ChangeRule(r, state)
         \/ \E m \in Materializer : ClaimRule(m, r)
  PROVE  DueInv'
<1> DEFINE Facts(s) ==
      /\ rules[s] \in RuleRow /\ due[s] \in Int /\ due[s] <= LastOf[s] /\ LastOf[s] \in Nat
      /\ rules[s].last \in Int /\ rules[s].pending \in Int /\ rules[s].skipped \in Nat
      /\ rules[s].last >= NoSequence /\ rules[s].last <= due[s]
      /\ rules[s].pending # NoSequence => rules[s].last < rules[s].pending /\ rules[s].pending <= due[s]
      /\ rules[s].state \in {"paused", "cancelled", "completed"} => rules[s].pending = NoSequence
      /\ Cardinality(Materialized(s) \cap 0..rules[s].last) + rules[s].skipped = rules[s].last + 1
      /\ Materialized(s) \subseteq 0..rules[s].last \cup {rules[s].pending}
<1>0. dueMishaps \in Nat /\ dueChanges \in Nat /\ emit \in [Materializer -> EmitPlace] /\ \A s \in Rule : Facts(s)
  BY RuleFacts
<1> HIDE DEF Facts
<1>1. CASE ComesDue(r)
  <2>1. \A s \in Rule : Materialized(s)' = Materialized(s)
    BY <1>1, SameOccurrences DEF ComesDue
  <2>2. due'[r] = due[r] + 1 /\ due'[r] \in Sequence /\ \A s \in Rule : s # r => due'[s] = due[s]
    BY <1>1 DEF ComesDue, DueInv, DueTypeOK, Sequence, NoSequence
  <2>3. DueTypeOK'
    BY <1>1, <2>2 DEF ComesDue, DueInv, DueTypeOK
  <2>4. RuleInv'
    <3> SUFFICES ASSUME NEW s \in Rule
                 PROVE  /\ due'[s] \in Int /\ due'[s] <= LastOf[s]
                        /\ rules[s].last >= NoSequence /\ rules[s].last <= due'[s]
                        /\ rules[s].pending # NoSequence => rules[s].last < rules[s].pending /\ rules[s].pending <= due'[s]
                        /\ rules[s].state \in {"paused", "cancelled", "completed"} => rules[s].pending = NoSequence
      BY <1>1 DEF RuleInv, ComesDue
    <3>1. due'[s] = due[s] \/ (due'[s] = due[s] + 1 /\ due[s] < LastOf[s])
      BY <1>1, <2>2 DEF ComesDue
    <3>2. /\ due[s] \in Int /\ LastOf[s] \in Int /\ due[s] <= LastOf[s] /\ rules[s].last \in Int /\ rules[s].pending \in Int
          /\ rules[s].last >= NoSequence /\ rules[s].last <= due[s]
          /\ rules[s].pending # NoSequence => rules[s].last < rules[s].pending /\ rules[s].pending <= due[s]
          /\ rules[s].state \in {"paused", "cancelled", "completed"} => rules[s].pending = NoSequence
      <4>1. Facts(s)
        BY <1>0
      <4>2. QED
        BY <4>1 DEF Facts
    <3>3. QED
      BY <3>1, <3>2
  <2>5. EmitInv'
    BY <1>1, <2>1 DEF ComesDue, DueInv, EmitInv, DueTypeOK
  <2>6. OccurrencesAccounted'
    BY <1>1, <2>1 DEF ComesDue, DueInv, OccurrencesAccounted
  <2>7. QED
    BY <1>1, <2>3, <2>4, <2>5, <2>6, IntentsRest DEF ComesDue, DueInv
<1>2. ASSUME NEW row \in RuleRow, rules' = [rules EXCEPT ![r] = row],
             UNCHANGED <<intents, started, due, source, dispatch, emit>>, dueMishaps' \in Nat, dueChanges' \in Nat,
             row.last = rules[r].last, row.pending = rules[r].pending, row.skipped = rules[r].skipped,
             row.holder = rules[r].holder,
             row.state \in {"paused", "cancelled", "completed"} => row.pending = NoSequence
      PROVE  DueInv'
  <2>1. rules' \in [Rule -> RuleRow] /\ rules'[r] = row /\ \A s \in Rule : s # r => rules'[s] = rules[s]
    BY <1>2 DEF DueInv, DueTypeOK
  <2>2. emit' \in [Materializer -> EmitPlace]
    BY <1>0, <1>2
  <2>3. EmitInv'
    <3>1. rules[r].last \in Int
      BY RuleOrder
    <3>2. QED
      BY <1>2, <2>1, <2>2, <3>1, EmittersKeep
  <2>4. QED
    BY <1>0, <1>2, <2>2, <2>3, RuleChanges DEF Facts
<1>3. CASE ExpireRule(r)
  <2> DEFINE row == [rules[r] EXCEPT !.lease = "expired"]
  <2>1. /\ row \in RuleRow /\ row.last = rules[r].last /\ row.pending = rules[r].pending /\ row.skipped = rules[r].skipped
        /\ row.holder = rules[r].holder /\ row.state = rules[r].state
    BY RuleOrder DEF RuleRow
  <2>2. /\ rules' = [rules EXCEPT ![r] = row] /\ UNCHANGED <<intents, started, due, source, dispatch, emit>>
        /\ dueMishaps' \in Nat /\ dueChanges' \in Nat
    BY <1>0, <1>3 DEF ExpireRule, DueMishap
  <2> HIDE DEF row
  <2>3. row.state \in {"paused", "cancelled", "completed"} => row.pending = NoSequence
    BY <1>0, <2>1 DEF Facts
  <2>4. QED
    BY <1>2, <2>1, <2>2, <2>3
<1>4. ASSUME NEW state \in {"active", "paused", "cancelled"}, ChangeRule(r, state)
      PROVE  DueInv'
  <2> DEFINE row == [rules[r] EXCEPT !.state = state, !.attempts = 0]
  <2>1. /\ row \in RuleRow /\ row.last = rules[r].last /\ row.pending = rules[r].pending /\ row.skipped = rules[r].skipped
        /\ row.holder = rules[r].holder /\ row.state = state
    BY RuleOrder DEF RuleRow
  <2>2. /\ rules' = [rules EXCEPT ![r] = row] /\ UNCHANGED <<intents, started, due, source, dispatch, emit>>
        /\ dueMishaps' \in Nat /\ dueChanges' \in Nat
        /\ rules[r].pending = NoSequence \/ state = "active"
    BY <1>0, <1>4 DEF ChangeRule, DueChange, Changeable
  <2> HIDE DEF row
  <2>3. QED
    BY <1>2, <2>1, <2>2
<1>5. ASSUME NEW m \in Materializer, ClaimRule(m, r)
      PROVE  DueInv'
  <2> DEFINE n == NextSequence(r)
             tries == rules[r].attempts + 1
             row == [rules[r] EXCEPT !.pending = n, !.holder = m, !.lease = "live", !.attempts = tries]
  <2>1. /\ n \in Int /\ rules[r].last < n /\ n <= due[r] /\ n \in Nat
        /\ rules[r].pending # NoSequence => n = rules[r].pending
        /\ rules[r].state = "active"
    <3>1. rules[r].pending # NoSequence \/ due[r] > rules[r].last
      BY <1>5 DEF ClaimRule
    <3>2. rules[r].state = "active"
      BY <1>5 DEF ClaimRule
    <3>3. QED
      BY <3>1, <3>2, RuleOrder DEF NextSequence, NoSequence
  <2>2. tries \in Nat /\ n \in Sequence
    BY <2>1, RuleOrder DEF Sequence
  <2>3. /\ rules' = [rules EXCEPT ![r] = row]
        /\ emit' = [emit EXCEPT ![m] = [step |-> "claimed", rule |-> r, seq |-> n]]
        /\ UNCHANGED <<intents, started, due, source, dispatch, dueMishaps, dueChanges>>
    BY <1>5 DEF ClaimRule
  <2> HIDE DEF n, tries
  <2>4. /\ row \in RuleRow /\ row.last = rules[r].last /\ row.pending = n /\ row.skipped = rules[r].skipped
        /\ row.holder = m /\ row.state = rules[r].state
    BY <2>2, RuleOrder DEF RuleRow
  <2> HIDE DEF row
  <2>5. rules' \in [Rule -> RuleRow] /\ rules'[r] = row /\ \A s \in Rule : s # r => rules'[s] = rules[s]
    BY <2>3, <2>4 DEF DueInv, DueTypeOK
  <2>6. emit' \in [Materializer -> EmitPlace]
    BY <1>0, <2>1, <2>3 DEF EmitPlace
  <2>7. \A s \in Rule : Materialized(s)' = Materialized(s)
    BY <2>3, SameOccurrences
  <2>8. ASSUME NEW k \in Materializer, NEW s \in Rule, emit'[k] # AtRest, emit'[k].rule = s
        PROVE  LET q == emit'[k].seq
               IN  /\ q = rules'[s].pending \/ (q <= rules'[s].last /\ q \in Materialized(s)')
                   /\ rules'[s].holder = k => q = rules'[s].pending
                   /\ emit'[k].step = "receipt" => q \in Materialized(s)'
                   /\ q \in 0..LastOf[s]
    <3>1. CASE k = m
      <4>1. emit'[k] = [step |-> "claimed", rule |-> r, seq |-> n]
        BY <1>0, <2>3, <3>1
      <4>2. n \in 0..LastOf[r]
        <5>1. LastOf[r] \in Int /\ due[r] \in Int /\ due[r] <= LastOf[r]
          BY RuleOrder
        <5>2. QED
          BY <2>1, <5>1
      <4>3. QED
        BY <2>4, <2>5, <2>8, <4>1, <4>2
    <3>2. CASE k # m
      <4> DEFINE q == emit[k].seq
      <4>1. emit'[k] = emit[k]
        BY <2>3, <3>2
      <4>2. /\ q = rules[s].pending \/ (q <= rules[s].last /\ q \in Materialized(s))
            /\ rules[s].holder = k => q = rules[s].pending
            /\ emit[k].step = "receipt" => q \in Materialized(s)
            /\ q \in 0..LastOf[s]
        BY <2>8, <4>1 DEF DueInv, EmitInv
      <4> HIDE DEF q, Facts
      <4>3. CASE s = r
        BY <2>1, <2>4, <2>5, <2>7, <3>2, <4>1, <4>2, <4>3 DEF NoSequence, q
      <4>4. CASE s # r
        BY <2>5, <2>7, <4>1, <4>2, <4>4 DEF q
      <4>5. QED
        BY <4>3, <4>4
    <3>3. QED
      BY <3>1, <3>2
  <2>9. EmitInv'
    BY <2>8 DEF EmitInv
  <2>10. Materialized(r) \subseteq 0..row.last \cup {row.pending}
    <3>1. Materialized(r) \subseteq Nat
      BY DEF Materialized
    <3>2. Materialized(r) \subseteq 0..rules[r].last \cup {rules[r].pending} /\ rules[r].pending \in Int
      BY <1>0 DEF Facts
    <3>3. QED
      BY <2>1, <2>4, <3>1, <3>2 DEF NoSequence
  <2>11. QED
    BY <1>0, <2>1, <2>3, <2>4, <2>6, <2>9, <2>10, RuleChanges DEF Facts
<1>6. QED
  BY <1>1, <1>3, <1>4, <1>5

\* What materializers do.
LEMMA MaterializerSteps ==
  ASSUME DueInv, NEW m \in Materializer, Emit(m) \/ StopMaterializer(m)
  PROVE  DueInv'
<1> USE DueWorkAssumption
<1>0. /\ emit \in [Materializer -> EmitPlace] /\ dueMishaps \in Nat /\ dueChanges \in Nat
      /\ rules \in [Rule -> RuleRow]
  BY DEF DueInv, DueTypeOK, EmitPlace
<1>1. ASSUME UNCHANGED <<rules, intents, started, due, source, dispatch>>, dueMishaps' \in Nat, dueChanges' \in Nat,
             emit' \in [Materializer -> EmitPlace],
             \A k \in Materializer : emit'[k] # AtRest =>
               /\ emit[k] # AtRest /\ emit'[k].rule = emit[k].rule /\ emit'[k].seq = emit[k].seq
               /\ emit'[k].step = "receipt" => emit[k].step = "receipt"
      PROVE  DueInv'
  <2>1. \A r \in Rule : Materialized(r)' = Materialized(r)
    BY <1>1, SameOccurrences
  <2>2. RuleInv' /\ OccurrencesAccounted'
    BY <1>1, RulesRest DEF DueInv, RuleInv, OccurrencesAccounted, Materialized
  <2>3. EmitInv'
    BY <1>1, <2>1 DEF DueInv, EmitInv
  <2>4. DueTypeOK'
    BY <1>1 DEF DueInv, DueTypeOK, EmitPlace
  <2>5. QED
    BY <1>1, <2>2, <2>3, <2>4, IntentsRest DEF DueInv
<1>2. CASE StopMaterializer(m)
  BY <1>0, <1>1, <1>2 DEF StopMaterializer, DueMishap, EmitPlace
<1>3. CASE RefuseOccurrence(m)
  BY <1>0, <1>1, <1>3 DEF RefuseOccurrence, EmitPlace, AtRest
<1>4. CASE ScheduleOccurrence(m)
  <2>0. emit[m] # AtRest /\ emit[m].rule \in Rule /\ emit[m].seq \in Nat /\ emit[m].step = "claimed"
    BY <1>0, <1>4 DEF ScheduleOccurrence, EmitPlace, AtRest
  <2>1. PICK r \in Rule, n \in Nat : r = emit[m].rule /\ n = emit[m].seq
    BY <2>0
  <2>2. /\ n = rules[r].pending \/ (n <= rules[r].last /\ n \in Materialized(r))
        /\ n \in 0..LastOf[r]
    BY <2>0, <2>1 DEF DueInv, EmitInv
  <2>3. /\ rules[r].pending \in Int /\ rules[r].last \in Int /\ rules[r].last >= NoSequence
        /\ rules[r].pending # NoSequence => rules[r].last < rules[r].pending
    BY <2>1, RuleFacts
  <2>4. intents' = Saved(<<r, n>>) /\ UNCHANGED <<rules, started, due, source, dispatch>>
        /\ dueMishaps' \in Nat /\ dueChanges' \in Nat
    BY <1>0, <1>4, <2>1 DEF ScheduleOccurrence, DueMishap
  <2>5. /\ emit'[m] # AtRest /\ emit'[m].rule = r /\ emit'[m].seq = n
        /\ emit' \in [Materializer -> EmitPlace] /\ \A k \in Materializer : k # m => emit'[k] = emit[k]
    BY <1>0, <1>4, <2>0, <2>1 DEF ScheduleOccurrence, EmitPlace, AtRest
  <2> DEFINE i == <<r, n>>
  <2>6. i \in Occurrence /\ i \in Intent
    BY <2>1, <2>2 DEF Occurrence, Intent
  <2>7. /\ intents' \in [Intent -> IntentRow] /\ intents'[i].state # "absent"
        /\ \A j \in Intent : intents'[j] = intents[j] \/ (j = i /\ intents[i].state = "absent" /\ intents'[i].state = "queued"
                                                       /\ intents'[i].admitted = intents[i].admitted)
    <3>1. intents \in [Intent -> IntentRow]
      BY DEF DueInv, DueTypeOK
    <3> HIDE DEF i
    <3>2. CASE intents[i].state = "absent"
      <4> DEFINE row == [intents[i] EXCEPT !.state = "queued"]
      <4>1. row \in IntentRow /\ row.state = "queued" /\ row.admitted = intents[i].admitted
        BY <2>6, <3>1, <3>2 DEF IntentRow
      <4>2. intents' = [intents EXCEPT ![i] = row]
        BY <2>4, <3>2 DEF Saved, i
      <4> HIDE DEF row
      <4>3. QED
        BY <2>6, <3>1, <3>2, <4>1, <4>2
    <3>3. CASE intents[i].state # "absent"
      BY <2>4, <3>1, <3>3 DEF Saved, i
    <3>4. QED
      BY <3>2, <3>3
  <2>8. Materialized(r)' = Materialized(r) \cup {n}
    <3>1. \A k \in 0..LastOf[r] : <<r, k>> \in Intent /\ (<<r, k>> = i <=> k = n)
      BY <2>1 DEF Intent, Occurrence
    <3> HIDE DEF i
    <3>2. \A k \in 0..LastOf[r] : intents'[<<r, k>>].state # "absent" <=> (intents[<<r, k>>].state # "absent" \/ k = n)
      BY <2>7, <3>1
    <3>3. QED
      BY <2>2, <3>2 DEF Materialized
  <2>9. \A s \in Rule : s # r => Materialized(s)' = Materialized(s)
    <3>1. \A s \in Rule : \A k \in 0..LastOf[s] : <<s, k>> \in Intent /\ (s # r => <<s, k>> # i)
      BY DEF Intent, Occurrence
    <3> HIDE DEF i
    <3>2. \A s \in Rule : s # r => \A k \in 0..LastOf[s] : intents'[<<s, k>>] = intents[<<s, k>>]
      BY <2>7, <3>1
    <3>3. QED
      BY <3>2 DEF Materialized
  <2>10. DueTypeOK'
    BY <2>4, <2>5, <2>7 DEF DueInv, DueTypeOK, EmitPlace
  <2>11. RuleInv'
    BY <2>4 DEF DueInv, RuleInv
  <2>12. EmitInv'
    <3>1. ASSUME NEW k \in Materializer, NEW s \in Rule, emit'[k] # AtRest, emit'[k].rule = s
          PROVE  LET q == emit'[k].seq
                 IN  /\ q = rules[s].pending \/ (q <= rules[s].last /\ q \in Materialized(s)')
                     /\ rules[s].holder = k => q = rules[s].pending
                     /\ emit'[k].step = "receipt" => q \in Materialized(s)'
                     /\ q \in 0..LastOf[s]
      <4>1. Materialized(s) \subseteq Materialized(s)'
        BY <2>8, <2>9
      <4>2. CASE k = m
        BY <2>0, <2>1, <2>2, <2>5, <2>8, <3>1, <4>1, <4>2 DEF DueInv, EmitInv
      <4>3. CASE k # m
        <5>1. emit'[k] = emit[k]
          BY <2>5, <4>3
        <5>2. LET q == emit[k].seq
              IN  /\ q = rules[s].pending \/ (q <= rules[s].last /\ q \in Materialized(s))
                  /\ rules[s].holder = k => q = rules[s].pending
                  /\ emit[k].step = "receipt" => q \in Materialized(s)
                  /\ q \in 0..LastOf[s]
          BY <3>1, <5>1 DEF DueInv, EmitInv
        <5>3. QED
          BY <4>1, <5>1, <5>2
      <4>4. QED
        BY <4>2, <4>3
    <3>2. QED
      BY <2>4, <3>1 DEF EmitInv
  <2>13. OccurrencesAccounted'
    <3>1. ASSUME NEW s \in Rule
          PROVE  /\ Materialized(s)' \cap 0..rules[s].last = Materialized(s) \cap 0..rules[s].last
                 /\ Materialized(s)' \subseteq 0..rules[s].last \cup {rules[s].pending}
      <4>1. Materialized(s) \subseteq 0..rules[s].last \cup {rules[s].pending}
        BY RuleFacts
      <4>2. CASE s = r
        <5>0. Materialized(s)' = Materialized(s) \cup {n}
          BY <2>8, <4>2
        <5>1. CASE n = rules[r].pending
          <6>1. n \notin 0..rules[r].last
            <7>1. n # NoSequence
              BY <2>1 DEF NoSequence
            <7>2. rules[r].last < n /\ rules[r].last \in Int
              BY <2>3, <5>1, <7>1
            <7>3. QED
              BY <2>1, <7>2
          <6>2. QED
            BY <4>1, <4>2, <5>0, <5>1, <6>1
        <5>2. CASE n \in Materialized(r)
          BY <4>1, <4>2, <5>0, <5>2
        <5>3. QED
          BY <2>2, <5>1, <5>2
      <4>3. CASE s # r
        BY <2>9, <4>1, <4>3
      <4>4. QED
        BY <4>2, <4>3
    <3>2. QED
      BY <2>4, <3>1 DEF DueInv, OccurrencesAccounted
  <2>14. IntentInv'
    <3>1. \A j \in Intent :
            /\ Fires(j) => FiresThen(j)
            /\ FiresThen(j) => Fires(j)'
            /\ intents'[j].admitted = intents[j].admitted
            /\ intents[j].state # "absent" => intents'[j] = intents[j]
            /\ intents'[j] = intents[j] \/ intents'[j].state = "queued"
      BY <2>4, <2>7 DEF Fires, FiresThen
    <3>2. ASSUME NEW j \in Intent
          PROVE  /\ intents'[j].admitted = "yes" => intents'[j].state \notin {"absent", "cancelled"} /\ FiresThen(j)
                 /\ intents'[j].state = "dispatched" => j \in started'
                 /\ intents'[j].state = "dispatching" => intents'[j].attempts > 0
      <4>1. /\ intents[j].admitted = "yes" => intents[j].state \notin {"absent", "cancelled"} /\ Fires(j)
            /\ intents[j].state = "dispatched" => j \in started
            /\ intents[j].state = "dispatching" => intents[j].attempts > 0
        BY DEF DueInv, IntentInv
      <4>2. QED
        BY <2>4, <3>1, <4>1
    <3>3. \A j \in started' : intents'[j].admitted = "yes"
      <4>1. \A j \in started : j \in Intent /\ intents[j].admitted = "yes"
        BY DueRows DEF DueInv, IntentInv
      <4>2. QED
        BY <2>4, <3>1, <4>1
    <3>4. ASSUME NEW d \in Dispatcher, dispatch[d] # AtRest
          PROVE  LET j == dispatch[d].intent
                 IN  /\ j \in Intent /\ intents'[j].state # "absent"
                     /\ dispatch[d].step = "allowed" => FiresThen(j)
                     /\ dispatch[d].step = "admitted" => intents'[j].admitted = "yes"
                     /\ dispatch[d].step = "receipt" => j \in started
      <4>1. dispatch[d].intent \in Intent
        BY <3>4, DueRows DEF DispatchPlace
      <4>2. LET j == dispatch[d].intent
            IN  /\ intents[j].state # "absent"
                /\ dispatch[d].step = "allowed" => Fires(j)
                /\ dispatch[d].step = "admitted" => intents[j].admitted = "yes"
                /\ dispatch[d].step = "receipt" => j \in started
        BY <3>4 DEF DueInv, IntentInv
      <4>3. QED
        BY <3>1, <4>1, <4>2
    <3>5. \A j \in Intent : FiresThen(j) => Fires(j)'
      BY <3>1
    <3>6. QED
      BY <2>4, <3>2, <3>3, <3>4, <3>5 DEF IntentInv
  <2>15. QED
    BY <2>10, <2>11, <2>12, <2>13, <2>14 DEF DueInv
<1>5. CASE SettleOccurrence(m)
  <2>0. emit[m] # AtRest /\ emit[m].rule \in Rule /\ emit[m].seq \in Nat /\ emit[m].step \in {"receipt", "failed"}
    BY <1>0, <1>5 DEF SettleOccurrence, EmitPlace, AtRest
  <2>1. PICK r \in Rule, n \in Nat : r = emit[m].rule /\ n = emit[m].seq
    BY <2>0
  <2>2. /\ rules[r].holder = m => n = rules[r].pending
        /\ emit[m].step = "receipt" => n \in Materialized(r)
    BY <2>0, <2>1 DEF DueInv, EmitInv
  <2>3. /\ emit' = [emit EXCEPT ![m] = AtRest] /\ UNCHANGED <<intents, started, due, source, dispatch, dueMishaps, dueChanges>>
        /\ rules' = IF Holds(rules[r], m) /\ rules[r].state = "active"
                    THEN [rules EXCEPT ![r] = IF emit[m].step = "receipt" THEN Advanced(rules[r], LastOf[r])
                                              ELSE Failed(rules[r])]
                    ELSE rules
    BY <1>5, <2>1 DEF SettleOccurrence
  <2>4. /\ emit' \in [Materializer -> EmitPlace]
        /\ \A k \in Materializer : emit'[k] # AtRest => emit'[k] = emit[k]
    BY <1>0, <2>3 DEF EmitPlace
  <2>5. CASE ~(Holds(rules[r], m) /\ rules[r].state = "active")
    <3>1. rules' = rules
      BY <2>3, <2>5
    <3>2. QED
      BY <1>0, <1>1, <2>3, <2>4, <3>1
  <2>6. CASE Holds(rules[r], m) /\ rules[r].state = "active"
    <3>1. n = rules[r].pending /\ rules[r] \in RuleRow /\ rules[r].pending # NoSequence
      BY <1>0, <2>1, <2>2, <2>6 DEF Holds, NoSequence
    <3>2. /\ due[r] \in Int /\ rules[r].last \in Int /\ rules[r].skipped \in Nat
          /\ rules[r].last >= -1 /\ rules[r].last < n /\ n <= due[r]
          /\ Cardinality(Materialized(r) \cap 0..rules[r].last) + rules[r].skipped = rules[r].last + 1
          /\ Materialized(r) \subseteq 0..rules[r].last \cup {n}
      BY <2>1, <3>1, RuleFacts DEF NoSequence
    <3>3. CASE emit[m].step = "receipt"
      <4> DEFINE state == IF rules[r].pending = LastOf[r] THEN "completed" ELSE "active"
                 skipped == rules[r].skipped + rules[r].pending - rules[r].last - 1
                 row == Advanced(rules[r], LastOf[r])
      <4>1. skipped \in Nat /\ state \in {"completed", "active"} /\ skipped = rules[r].skipped + n - rules[r].last - 1
        BY <2>1, <3>1, <3>2
      <4>2. /\ row \in RuleRow /\ row.state = state /\ row.last = n /\ row.pending = NoSequence
            /\ row.skipped = skipped /\ row.holder = Nobody
        <5> HIDE DEF skipped, state
        <5>1. row = [Freed(rules[r]) EXCEPT !.state = state, !.skipped = skipped, !.last = n,
                                           !.pending = NoSequence, !.attempts = 0]
          BY <3>1 DEF Advanced, skipped, state
        <5>2. n \in Sequence /\ NoSequence \in Sequence
          BY <2>1 DEF Sequence
        <5> DEFINE free == Freed(rules[r])
        <5>3. free \in RuleRow /\ free.holder = Nobody
          BY <3>1 DEF Freed, RuleRow
        <5> HIDE DEF free, row
        <5>4. LET x == [free EXCEPT !.state = state, !.skipped = skipped, !.last = n,
                                    !.pending = NoSequence, !.attempts = 0]
              IN  /\ x \in RuleRow /\ x.state = state /\ x.last = n /\ x.pending = NoSequence
                  /\ x.skipped = skipped /\ x.holder = free.holder
          BY <4>1, <5>2, <5>3 DEF RuleRow
        <5>5. QED
          BY <5>1, <5>3, <5>4 DEF free
      <4>3. rules' = [rules EXCEPT ![r] = row]
        BY <2>3, <2>6, <3>3
      <4> HIDE DEF row, state, skipped
      <4>4. Cardinality(Materialized(r) \cap 0..n) = Cardinality(Materialized(r) \cap 0..rules[r].last) + 1
        <5> DEFINE old == Materialized(r) \cap 0..rules[r].last
        <5>1. Materialized(r) \cap 0..n = old \cup {n} /\ n \notin old
          BY <2>1, <2>2, <3>2, <3>3
        <5>2. rules[r].last \in Int
          BY <3>2
        <5> HIDE DEF old
        <5>3. IsFiniteSet(old)
          <6>1. IsFiniteSet(0..rules[r].last)
            BY <5>2, FS_Interval
          <6>2. QED
            BY <6>1, FS_Subset DEF old
        <5>4. Cardinality(old \cup {n}) = Cardinality(old) + 1
          BY <5>1, <5>3, FS_AddElement
        <5>5. QED
          BY <5>1, <5>4 DEF old
      <4>5. Cardinality(Materialized(r) \cap 0..row.last) + row.skipped = row.last + 1
        <5>1. Cardinality(Materialized(r) \cap 0..rules[r].last) \in Int
          <6>1. IsFiniteSet(0..rules[r].last)
            BY <3>2, FS_Interval
          <6>2. IsFiniteSet(Materialized(r) \cap 0..rules[r].last)
            BY <6>1, FS_Subset
          <6>3. QED
            BY <6>2, FS_CardinalityType
        <5>2. QED
          BY <2>1, <3>2, <4>1, <4>2, <4>4, <5>1
      <4>6. Materialized(r) \subseteq 0..row.last \cup {row.pending}
        BY <2>1, <3>2, <4>2
      <4>7. rules' \in [Rule -> RuleRow] /\ rules'[r] = row /\ \A s \in Rule : s # r => rules'[s] = rules[s]
        BY <1>0, <2>1, <4>2, <4>3
      <4>8. EmitInv'
        <5>1. \A k \in 0..LastOf[r] : k = rules[r].pending => k <= rules'[r].last /\ k \in Materialized(r)
          BY <2>1, <2>2, <3>1, <3>3, <4>2, <4>7
        <5>2. rules[r].last <= rules'[r].last
          BY <2>1, <3>2, <4>2, <4>7
        <5>3. \A k \in Materializer : rules'[r].holder # k
          BY <4>2, <4>7
        <5>4. QED
          BY <2>1, <2>3, <2>4, <4>7, <5>1, <5>2, <5>3, EmittersKeep
      <4>9. row.last >= NoSequence /\ row.last <= due[r]
        BY <2>1, <3>2, <4>2 DEF NoSequence
      <4>10. QED
        BY <1>0, <2>1, <2>3, <2>4, <4>2, <4>3, <4>5, <4>6, <4>8, <4>9, RuleChanges
    <3>4. CASE emit[m].step # "receipt"
      <4> DEFINE state == IF rules[r].attempts >= MaxAttempts THEN "blocked" ELSE "active"
                 row == Failed(rules[r])
      <4>1. state \in {"blocked", "active"}
        OBVIOUS
      <4>2. /\ row \in RuleRow /\ row.state = state /\ row.last = rules[r].last /\ row.pending = rules[r].pending
            /\ row.skipped = rules[r].skipped /\ row.holder = Nobody
        <5>1. row = [Freed(rules[r]) EXCEPT !.state = state]
          BY DEF Failed
        <5> DEFINE free == Freed(rules[r])
        <5>2. /\ free \in RuleRow /\ free.holder = Nobody /\ free.last = rules[r].last /\ free.pending = rules[r].pending
              /\ free.skipped = rules[r].skipped
          BY <3>1 DEF Freed, RuleRow
        <5> HIDE DEF free, row, state
        <5>3. LET x == [free EXCEPT !.state = state]
              IN  /\ x \in RuleRow /\ x.state = state /\ x.last = free.last /\ x.pending = free.pending
                  /\ x.skipped = free.skipped /\ x.holder = free.holder
          BY <4>1, <5>2 DEF RuleRow
        <5>4. QED
          BY <5>1, <5>2, <5>3 DEF free
      <4>3. rules' = [rules EXCEPT ![r] = row]
        BY <2>3, <2>6, <3>4
      <4> HIDE DEF row, state
      <4>4. rules' \in [Rule -> RuleRow] /\ rules'[r] = row /\ \A s \in Rule : s # r => rules'[s] = rules[s]
        BY <1>0, <2>1, <4>2, <4>3
      <4>5. EmitInv'
        <5>1. \A k \in Materializer : rules'[r].holder # k
          BY <4>2, <4>4
        <5>2. rules[r].last <= rules'[r].last /\ rules'[r].pending = rules[r].pending
          BY <3>2, <4>2, <4>4
        <5>3. \A k \in 0..LastOf[r] : k = rules[r].pending => k = rules'[r].pending
          BY <5>2
        <5>4. QED
          BY <2>1, <2>3, <2>4, <4>4, <5>1, <5>2, <5>3, EmittersKeep
      <4>6. /\ row.last >= NoSequence /\ row.last <= due[r] /\ (row.pending # NoSequence => row.last < row.pending /\ row.pending <= due[r])
            /\ row.state \notin {"paused", "cancelled", "completed"}
            /\ Cardinality(Materialized(r) \cap 0..row.last) + row.skipped = row.last + 1
            /\ Materialized(r) \subseteq 0..row.last \cup {row.pending}
        <5>1. rules[r].last >= NoSequence /\ rules[r].last < n /\ n <= due[r] /\ rules[r].last \in Int /\ due[r] \in Int /\ n \in Int
          BY <3>2 DEF NoSequence
        <5>2. row.last = rules[r].last /\ row.pending = n /\ row.skipped = rules[r].skipped
          BY <3>1, <4>2
        <5>3. QED
          BY <3>2, <4>1, <4>2, <5>1, <5>2
      <4>7. QED
        BY <1>0, <2>1, <2>3, <2>4, <4>2, <4>3, <4>5, <4>6, RuleChanges
    <3>5. QED
      BY <3>3, <3>4
  <2>7. QED
    BY <2>5, <2>6
<1>6. QED
  BY <1>2, <1>3, <1>4, <1>5 DEF Emit

LEMMA DueWorks == DueInv /\ [DueNext]_dueVars => DueInv'
<1> SUFFICES ASSUME DueInv, [DueNext]_dueVars PROVE DueInv'
  OBVIOUS
<1>1. CASE \E r \in Rule : \/ ComesDue(r) \/ ExpireRule(r)
                           \/ \E state \in {"active", "paused", "cancelled"} : ChangeRule(r, state)
                           \/ \E m \in Materializer : ClaimRule(m, r)
  BY <1>1, RuleSteps
<1>2. CASE \E i \in Direct : Schedule(i)
  BY <1>2, OwnerSteps DEF Intent
<1>3. CASE \E i \in Intent : Cancel(i) \/ Retry(i) \/ ExpireIntent(i) \/ \E d \in Dispatcher : Claim(d, i)
  BY <1>3, OwnerSteps
<1>4. CASE \E d \in Dispatcher : Dispatch(d) \/ StopDispatcher(d)
  BY <1>4, DispatcherSteps
<1>5. CASE \E m \in Materializer : Emit(m) \/ StopMaterializer(m)
  BY <1>5, MaterializerSteps
<1>6. ASSUME NEW result \in {"succeeded", "ended"}, SourceEnds(result)
      PROVE  DueInv'
  <2>1. UNCHANGED <<rules, intents, started, due, dispatch, emit, dueMishaps, dueChanges>> /\ source = "open" /\ source' = result
    BY <1>6 DEF SourceEnds
  <2>2. RuleInv' /\ EmitInv' /\ OccurrencesAccounted'
    BY <2>1, RulesRest
  <2>3. DueTypeOK'
    BY <2>1 DEF DueInv, DueTypeOK
  <2>4. \A i : Fires(i) => FiresThen(i)
    BY <2>1 DEF Fires, FiresThen
  <2>5. IntentInv'
    BY <2>1, <2>4 DEF DueInv, IntentInv, Fires, FiresThen
  <2>6. QED
    BY <2>2, <2>3, <2>5 DEF DueInv
<1>7. CASE UNCHANGED dueVars
  <2>1. UNCHANGED <<rules, intents, started, due, source, dispatch, emit, dueMishaps, dueChanges>>
    BY <1>7 DEF dueVars
  <2>2. RuleInv' /\ EmitInv' /\ OccurrencesAccounted'
    BY <2>1, RulesRest
  <2>3. DueTypeOK'
    BY <2>1 DEF DueInv, DueTypeOK
  <2>4. QED
    BY <2>1, <2>2, <2>3, IntentsRest DEF DueInv
<1>8. QED
  BY <1>1, <1>2, <1>3, <1>4, <1>5, <1>6, <1>7 DEF DueNext

LEMMA DueIsSound == DueInv => OccurrencesAccounted /\ IntentsMatchTasks
<1> SUFFICES ASSUME DueInv PROVE OccurrencesAccounted /\ IntentsMatchTasks
  OBVIOUS
<1>1. \A i \in started : intents[i].admitted = "yes" /\ intents[i].state # "cancelled" /\ Fires(i)
  BY DueRows DEF DueInv, IntentInv
<1>2. QED
  BY <1>1 DEF DueInv, IntentInv, IntentsMatchTasks

\* A stopped rule has nothing pending, so its materializers carry what was settled.
LEMMA StoppedStaysQuiet ==
  DueInv /\ [DueNext]_dueVars =>
    \A r \in Rule :
       rules[r].state \in {"paused", "cancelled", "completed"} /\ rules'[r].state = rules[r].state
       => \A n \in 0..LastOf[r] :
            intents[<<r, n>>].state = "absent" => intents'[<<r, n>>].state = "absent"
<1> SUFFICES ASSUME DueInv, [DueNext]_dueVars, NEW r \in Rule, NEW n \in 0..LastOf[r],
                    rules[r].state \in {"paused", "cancelled", "completed"},
                    intents[<<r, n>>].state = "absent", intents'[<<r, n>>].state # "absent"
             PROVE  FALSE
  OBVIOUS
<1> DEFINE i == <<r, n>>
<1>0. i \in Occurrence /\ i \in Intent /\ i \notin Direct /\ intents \in [Intent -> IntentRow]
  BY DueWorkAssumption DEF Occurrence, Intent, DueInv, DueTypeOK
<1>1. ASSUME NEW m \in Materializer, ScheduleOccurrence(m) PROVE FALSE
  <2>1. emit[m] # AtRest /\ emit[m].rule \in Rule
    BY <1>1 DEF ScheduleOccurrence, DueInv, DueTypeOK, AtRest
  <2>2. emit[m].rule = r /\ emit[m].seq = n
    BY <1>0, <1>1 DEF ScheduleOccurrence, Saved
  <2>3. n = rules[r].pending \/ n \in Materialized(r)
    BY <2>1, <2>2 DEF DueInv, EmitInv
  <2>4. rules[r].pending = NoSequence
    BY RuleFacts
  <2>5. QED
    BY <2>3, <2>4 DEF Materialized, NoSequence
<1> HIDE DEF i
<1>2. ASSUME NEW j \in Intent, Cancel(j) \/ Retry(j) \/ ExpireIntent(j) \/ (j \in Direct /\ Schedule(j))
                                 \/ \E d \in Dispatcher : Claim(d, j)
      PROVE  FALSE
  <2>1. CASE Cancel(j)
    BY <1>0, <1>2, <2>1 DEF Cancel, Cancellable, i
  <2>2. CASE Retry(j)
    BY <1>0, <1>2, <2>2 DEF Retry, i
  <2>3. CASE ExpireIntent(j)
    BY <1>0, <1>2, <2>3 DEF ExpireIntent, IntentRow, i
  <2>4. CASE j \in Direct /\ Schedule(j)
    BY <1>0, <1>2, <2>4 DEF Schedule, Saved, i
  <2>5. CASE \E d \in Dispatcher : Claim(d, j)
    BY <1>0, <1>2, <2>5 DEF Claim, Claimable, i
  <2>6. QED
    BY <1>2, <2>1, <2>2, <2>3, <2>4, <2>5
<1>3. ASSUME NEW d \in Dispatcher, Dispatch(d) PROVE FALSE
  <2>1. \/ UNCHANGED intents
        \/ WaitForTrigger(d) \/ Admit(d) \/ Settle(d)
    BY <1>3 DEF Dispatch, FindTask, Refuse, CheckTrigger, StartTask, StartRefused
  <2>2. CASE UNCHANGED intents
    BY <2>2
  <2>3. ASSUME WaitForTrigger(d) \/ Admit(d) \/ Settle(d) PROVE FALSE
    <3>1. dispatch[d] # AtRest
      BY <2>3 DEF WaitForTrigger, Admit, Settle, DueAt, AtRest
    <3>2. intents[dispatch[d].intent].state # "absent"
      BY <3>1 DEF DueInv, IntentInv
    <3>3. \A j \in Intent : j # dispatch[d].intent => intents'[j] = intents[j]
      BY <1>0, <2>3 DEF WaitForTrigger, Admit, Settle
    <3>4. QED
      BY <1>0, <3>2, <3>3 DEF i
  <2>4. QED
    BY <2>1, <2>2, <2>3
<1>4. QED
  <2>1. \/ UNCHANGED intents
        \/ \E m \in Materializer : ScheduleOccurrence(m)
        \/ \E d \in Dispatcher : Dispatch(d)
        \/ \E j \in Intent : Cancel(j) \/ Retry(j) \/ ExpireIntent(j) \/ (j \in Direct /\ Schedule(j))
                             \/ \E d \in Dispatcher : Claim(d, j)
    BY DEF DueNext, dueVars, Intent, ComesDue, ExpireRule, ChangeRule, ClaimRule, StopDispatcher, StopMaterializer,
           Emit, RefuseOccurrence, SettleOccurrence, SourceEnds
  <2>2. QED
    BY <1>1, <1>2, <1>3, <2>1

\* A step of the services is a step of the due work or leaves it alone.
LEMMA DueFocus == [ServicesNext]_servicesVars => [DueNext]_dueVars
  BY DEF ServicesNext, servicesVars, Only

\* Due work adds up from step to step, whatever the numbers of rules, occurrences,
\* workers and lost leases: of recurring/store.js:25-53 and deferred/store.js:29-54.
THEOREM DueWorkAddsUp == ServicesSpec => DueWorkHolds
<1>1. ServicesInit => DueInv
  BY DueStarts DEF ServicesInit
<1>2. DueInv /\ [ServicesNext]_servicesVars => DueInv'
  BY DueWorks, DueFocus
<1>3. ServicesSpec => []DueInv
  BY <1>1, <1>2, PTL DEF ServicesSpec
<1>4. ServicesSpec => StoppedRulesAreQuiet
  <2>1. DueInv /\ [ServicesNext]_servicesVars =>
          [\A r \in Rule :
             rules[r].state \in {"paused", "cancelled", "completed"} /\ rules'[r].state = rules[r].state
             => \A n \in 0..LastOf[r] :
                  intents[<<r, n>>].state = "absent" => intents'[<<r, n>>].state = "absent"]_dueVars
    BY StoppedStaysQuiet, DueFocus
  <2>2. QED
    BY <1>3, <2>1, PTL DEF ServicesSpec, StoppedRulesAreQuiet
<1>5. QED
  BY <1>3, <1>4, DueIsSound, PTL DEF DueWorkHolds
-----------------------------------------------------------------------------
(* Grants of delegations *)

\* x has an admitted call c of grant g, and has not said what became of it.
Pursues(x, g, c) ==
  /\ executor[x].step \in {"perform", "settle"}
  /\ executor[x].grant = g /\ executor[x].call = c

\* A call whose admission an executor holds is held by no other one, has run once
\* when it is settled and not before it is performed; what ran, or is said to have
\* run, was admitted; and admissions are within the terms.
CallInv ==
  /\ \A x \in Executor : \A g \in Grant : \A c \in GrantCall :
       Pursues(x, g, c) =>
         /\ calls[g][c] = "admitted"
         /\ performed[g][c] = IF executor[x].step = "perform" THEN 0 ELSE 1
         /\ \A y \in Executor : Pursues(y, g, c) => y = x
  /\ \A g \in Grant : \A c \in GrantCall :
       /\ performed[g][c] <= 1
       /\ performed[g][c] > 0 => calls[g][c] # "none"
       /\ calls[g][c] = "returned" => performed[g][c] = 1
  /\ \A g \in Grant : IsFiniteSet(Used(g)) /\ Cardinality(Used(g)) <= MaxCalls

GrantInv == GrantTypeOK /\ CallInv

LEMMA GrantsStart == GrantInit => GrantInv
<1> SUFFICES ASSUME GrantInit PROVE GrantInv
  OBVIOUS
<1> USE GrantsAssumption
<1>1. GrantTypeOK
  BY DEF GrantInit, GrantTypeOK
<1>2. \A g \in Grant : IsFiniteSet(Used(g)) /\ Cardinality(Used(g)) <= MaxCalls
  <2>1. \A g \in Grant : Used(g) = {}
    BY DEF GrantInit, Used
  <2>2. QED
    BY <2>1, FS_EmptySet
<1>3. CallInv
  BY <1>2 DEF GrantInit, CallInv, Pursues, NoErrand
<1>4. QED
  BY <1>1, <1>3 DEF GrantInv

ExecutorPlace ==
  {NoErrand} \cup [step : {"ready"}, grant : Grant] \cup
  [step : {"admit", "perform", "settle"}, grant : Grant, call : GrantCall]

\* No call is admitted, run or settled: an executor turns to something else.
LEMMA CallsKeep ==
  ASSUME CallInv, UNCHANGED <<calls, performed>>,
         \A x \in Executor : executor'[x] = executor[x] \/ executor'[x].step \notin {"perform", "settle"}
  PROVE  CallInv'
<1>1. \A g \in Grant : Used(g)' = Used(g)
  BY DEF Used
<1>2. \A x \in Executor : \A g \in Grant : \A c \in GrantCall :
        Pursues(x, g, c)' => Pursues(x, g, c) /\ executor'[x].step = executor[x].step
  BY DEF Pursues
<1>3. QED
  BY <1>1, <1>2 DEF CallInv

\* One executor goes on with call c of grant g, and its row and its count change.
LEMMA CallGoesOn ==
  ASSUME GrantInv, NEW x \in Executor, NEW g \in Grant, NEW c \in GrantCall, NEW place \in ExecutorPlace,
         NEW outcome \in {"none", "admitted", "returned", "unknown"}, NEW n \in Nat,
         executor' = [executor EXCEPT ![x] = place],
         calls' = [calls EXCEPT ![g][c] = outcome],
         performed' = [performed EXCEPT ![g][c] = n],
         \A y \in Executor : Pursues(y, g, c) => y = x,
         place.step \in {"perform", "settle"} =>
           /\ place.grant = g /\ place.call = c /\ outcome = "admitted"
           /\ n = IF place.step = "perform" THEN 0 ELSE 1,
         n <= 1, n > 0 => outcome # "none", outcome = "returned" => n = 1,
         outcome = "none" => calls[g][c] = "none",
         calls[g][c] = "none" => Cardinality(Used(g)) < MaxCalls
  PROVE  CallInv' /\ calls' \in [Grant -> [GrantCall -> {"none", "admitted", "returned", "unknown"}]]
                  /\ performed' \in [Grant -> [GrantCall -> Nat]] /\ executor' \in [Executor -> ExecutorPlace]
<1>1. /\ calls \in [Grant -> [GrantCall -> {"none", "admitted", "returned", "unknown"}]]
      /\ performed \in [Grant -> [GrantCall -> Nat]] /\ executor \in [Executor -> ExecutorPlace]
  BY DEF GrantInv, GrantTypeOK, ExecutorPlace
<1>2. /\ calls' \in [Grant -> [GrantCall -> {"none", "admitted", "returned", "unknown"}]]
      /\ performed' \in [Grant -> [GrantCall -> Nat]] /\ executor' \in [Executor -> ExecutorPlace]
  BY <1>1
<1>3. /\ calls'[g][c] = outcome /\ performed'[g][c] = n /\ executor'[x] = place
      /\ \A y \in Executor : y # x => executor'[y] = executor[y]
      /\ \A h \in Grant : \A d \in GrantCall :
           h # g \/ d # c => calls'[h][d] = calls[h][d] /\ performed'[h][d] = performed[h][d]
  BY <1>1
<1>4. ASSUME NEW y \in Executor, NEW h \in Grant, NEW d \in GrantCall, Pursues(y, h, d)'
      PROVE  /\ calls'[h][d] = "admitted"
             /\ performed'[h][d] = IF executor'[y].step = "perform" THEN 0 ELSE 1
             /\ \A z \in Executor : Pursues(z, h, d)' => z = y
  <2>1. \A z \in Executor : z # x => (Pursues(z, h, d)' <=> Pursues(z, h, d))
    BY <1>3 DEF Pursues
  <2>2. Pursues(x, h, d)' => h = g /\ d = c
    BY <1>3 DEF Pursues
  <2>3. CASE y = x
    <3>1. h = g /\ d = c /\ place.step \in {"perform", "settle"}
      BY <1>3, <1>4, <2>2, <2>3 DEF Pursues
    <3>2. QED
      BY <1>3, <2>1, <2>3, <3>1
  <2>4. CASE y # x
    <3>1. Pursues(y, h, d) /\ executor'[y] = executor[y]
      BY <1>3, <1>4, <2>1, <2>4
    <3>2. h # g \/ d # c
      BY <2>4, <3>1
    <3>3. /\ calls[h][d] = "admitted"
          /\ performed[h][d] = IF executor[y].step = "perform" THEN 0 ELSE 1
          /\ \A z \in Executor : Pursues(z, h, d) => z = y
      BY <3>1 DEF GrantInv, CallInv
    <3>4. ~Pursues(x, h, d)'
      BY <2>2, <3>2
    <3>5. QED
      BY <1>3, <2>1, <3>1, <3>2, <3>3, <3>4
  <2>5. QED
    BY <2>3, <2>4
<1>5. \A h \in Grant : \A d \in GrantCall :
        /\ performed'[h][d] <= 1
        /\ performed'[h][d] > 0 => calls'[h][d] # "none"
        /\ calls'[h][d] = "returned" => performed'[h][d] = 1
  BY <1>3 DEF GrantInv, CallInv
<1>6. ASSUME NEW h \in Grant
      PROVE  IsFiniteSet(Used(h)') /\ Cardinality(Used(h)') <= MaxCalls
  <2>1. IsFiniteSet(Used(h)) /\ Cardinality(Used(h)) <= MaxCalls /\ Cardinality(Used(h)) \in Nat /\ MaxCalls \in Nat
    BY GrantsAssumption, FS_CardinalityType DEF GrantInv, CallInv
  <2>2. CASE h = g /\ calls[g][c] = "none" /\ outcome # "none"
    <3>1. Used(h)' = Used(h) \cup {c} /\ c \notin Used(h)
      BY <1>3, <2>2 DEF Used
    <3>2. IsFiniteSet(Used(h) \cup {c}) /\ Cardinality(Used(h) \cup {c}) = Cardinality(Used(h)) + 1
      BY <2>1, <3>1, FS_AddElement
    <3>3. Cardinality(Used(h)) < MaxCalls
      BY <2>2
    <3>4. QED
      BY <2>1, <3>1, <3>2, <3>3
  <2>3. CASE ~(h = g /\ calls[g][c] = "none" /\ outcome # "none")
    <3>1. Used(h)' = Used(h)
      BY <1>3, <2>3 DEF Used
    <3>2. QED
      BY <2>1, <3>1
  <2>4. QED
    BY <2>2, <2>3
<1>7. CallInv'
  BY <1>4, <1>5, <1>6 DEF CallInv
<1>8. QED
  BY <1>2, <1>7

LEMMA GrantSteps == GrantInv /\ [GrantNext]_grantVars => GrantInv'
<1> SUFFICES ASSUME GrantInv, [GrantNext]_grantVars PROVE GrantInv'
  OBVIOUS
<1> USE GrantsAssumption DEF Grant
<1>1. /\ parentWaits \in {"yes", "no"} /\ tickCursor \in 0..Grants /\ grantMishaps \in Nat
      /\ grants \in [Grant -> {"absent", "active", "revoked", "expired"}]
      /\ child \in [Grant -> {"none", "queued", "running", "succeeded", "cancelled"}]
      /\ calls \in [Grant -> [GrantCall -> {"none", "admitted", "returned", "unknown"}]]
      /\ modelCalls \in [Grant -> 0..MaxGrantModelCalls]
      /\ performed \in [Grant -> [GrantCall -> Nat]]
      /\ delegator \in [Delegator -> {NoErrand} \cup [step : {"receipt", "submit", "create", "cancel"}, grant : Grant]]
      /\ executor \in [Executor -> ExecutorPlace]
  BY DEF GrantInv, GrantTypeOK, ExecutorPlace
<1>2. ASSUME UNCHANGED <<calls, performed, executor, modelCalls>>,
             parentWaits' \in {"yes", "no"}, tickCursor' \in 0..Grants, grantMishaps' \in Nat,
             grants' \in [Grant -> {"absent", "active", "revoked", "expired"}],
             child' \in [Grant -> {"none", "queued", "running", "succeeded", "cancelled"}],
             delegator' \in [Delegator -> {NoErrand} \cup [step : {"receipt", "submit", "create", "cancel"}, grant : Grant]]
      PROVE  GrantInv'
  <2>1. GrantTypeOK'
    BY <1>1, <1>2 DEF GrantTypeOK, ExecutorPlace
  <2>2. CallInv'
    BY <1>2, CallsKeep DEF GrantInv
  <2>3. QED
    BY <2>1, <2>2 DEF GrantInv
<1>3. ASSUME NEW d \in Delegator,
             \/ ReadDelegation(d) \/ CheckSubmit(d) \/ CreateChild(d) \/ CancelRevoked(d)
             \/ \E g \in Grant : IssueGrant(d, g) \/ RevokeGrant(d, g)
      PROVE  GrantInv'
  <2>0. delegator[d] # NoErrand => delegator[d].grant \in Grant
    BY <1>1
  <2>1. CASE ReadDelegation(d)
    <3>1. delegator[d].grant \in Grant
      BY <2>0, <2>1 DEF ReadDelegation, NoErrand
    <3>2. \E v \in {NoErrand} \cup [step : {"submit"}, grant : Grant] : delegator' = [delegator EXCEPT ![d] = v]
      BY <2>1, <3>1 DEF ReadDelegation, Errand, NoMoreErrand
    <3>3. QED
      BY <1>1, <1>2, <2>1, <3>2 DEF ReadDelegation
  <2>2. CASE CheckSubmit(d)
    <3>1. delegator[d].grant \in Grant
      BY <2>0, <2>2 DEF CheckSubmit, NoErrand
    <3>2. \E v \in {NoErrand} \cup [step : {"create"}, grant : Grant] : delegator' = [delegator EXCEPT ![d] = v]
      BY <2>2, <3>1 DEF CheckSubmit, Errand, NoMoreErrand
    <3>3. QED
      BY <1>1, <1>2, <2>2, <3>2 DEF CheckSubmit
  <2>3. CASE CreateChild(d)
    BY <1>1, <1>2, <2>3 DEF CreateChild, NoMoreErrand
  <2>4. CASE CancelRevoked(d)
    BY <1>1, <1>2, <2>4 DEF CancelRevoked, CancelledChild, NoMoreErrand
  <2>5. ASSUME NEW g \in Grant, IssueGrant(d, g) PROVE GrantInv'
    BY <1>1, <1>2, <2>5 DEF IssueGrant, Errand
  <2>6. ASSUME NEW g \in Grant, RevokeGrant(d, g) PROVE GrantInv'
    BY <1>1, <1>2, <2>6 DEF RevokeGrant, Errand
  <2>7. QED
    BY <1>3, <2>1, <2>2, <2>3, <2>4, <2>5, <2>6
<1>4. ASSUME NEW g \in Grant, ExpireGrant(g) PROVE GrantInv'
  BY <1>1, <1>2, <1>4 DEF ExpireGrant
<1>5. CASE ParentCloses
  BY <1>1, <1>2, <1>5 DEF ParentCloses
<1>6. CASE TickGrants
  <2> DEFINE rest == {g \in Grant : g > tickCursor /\ grants[g] # "absent"}
             next == IF rest = {} THEN 0 ELSE CHOOSE g \in rest : \A h \in rest : g <= h
  <2>1. next \in 0..Grants
    <3>1. CASE rest = {}
      BY <3>1
    <3>2. CASE rest # {}
      <4>1. rest \subseteq Nat
        OBVIOUS
      <4>2. PICK g \in rest : \A h \in rest : ~(<<h, g>> \in OpToRel(<, Nat))
        BY <3>2, <4>1, NatLessThanWellFounded, WFMin
      <4>3. ASSUME NEW h \in rest PROVE g <= h
        <5>1. g \in Nat /\ h \in Nat /\ ~(<<h, g>> \in OpToRel(<, Nat))
          BY <4>1, <4>2
        <5>2. h < g => <<h, g>> \in OpToRel(<, Nat)
          BY <5>1 DEF OpToRel
        <5>3. ~(h < g)
          BY <5>1, <5>2, Zenon
        <5>4. g \in Nat /\ h \in Nat
          BY <5>1
        <5>5. QED
          BY <5>3, <5>4
      <4>4. next \in rest
        BY <3>2, <4>3
      <4>5. QED
        BY <4>4
    <3>3. QED
      BY <3>1, <3>2
  <2>2. /\ tickCursor' = next
        /\ child' = IF next # 0 /\ Closed(next) THEN CancelledChild(next) ELSE child
        /\ UNCHANGED <<parentWaits, grants, calls, modelCalls, performed, delegator, executor, grantMishaps>>
    BY <1>6 DEF TickGrants
  <2> HIDE DEF next
  <2>3. child' \in [Grant -> {"none", "queued", "running", "succeeded", "cancelled"}]
    BY <1>1, <2>2 DEF CancelledChild
  <2>4. QED
    BY <1>1, <1>2, <2>1, <2>2, <2>3
<1>7. ASSUME UNCHANGED <<calls, performed, parentWaits, grants, delegator>>,
             NEW x \in Executor, NEW place \in ExecutorPlace, place.step \notin {"perform", "settle"},
             executor' = [executor EXCEPT ![x] = place],
             modelCalls' \in [Grant -> 0..MaxGrantModelCalls], tickCursor' \in 0..Grants, grantMishaps' \in Nat,
             child' \in [Grant -> {"none", "queued", "running", "succeeded", "cancelled"}]
      PROVE  GrantInv'
  <2>1. executor' \in [Executor -> ExecutorPlace] /\ \A y \in Executor : executor'[y] = executor[y] \/ executor'[y] = place
    BY <1>1, <1>7
  <2>2. GrantTypeOK'
    BY <1>1, <1>7, <2>1 DEF GrantTypeOK, ExecutorPlace
  <2>3. CallInv'
    BY <1>7, <2>1, CallsKeep DEF GrantInv
  <2>4. QED
    BY <2>2, <2>3 DEF GrantInv
<1>8. ASSUME NEW x \in Executor, NEW g \in Grant, RunChild(x, g) PROVE GrantInv'
  <2> DEFINE place == [step |-> "ready", grant |-> g]
  <2>1. place \in ExecutorPlace /\ place.step = "ready"
    BY DEF ExecutorPlace
  <2> HIDE DEF place
  <2>2. /\ executor' = [executor EXCEPT ![x] = place] /\ child' = [child EXCEPT ![g] = "running"]
        /\ UNCHANGED <<parentWaits, grants, calls, modelCalls, performed, delegator, tickCursor>>
        /\ grantMishaps' \in Nat
    BY <1>1, <1>8 DEF RunChild, GrantMishap, place
  <2>3. QED
    BY <1>1, <1>7, <2>1, <2>2
<1>9. ASSUME NEW x \in Executor, AdmitModelCall(x) PROVE GrantInv'
  <2>1. executor[x].grant \in Grant
    BY <1>1, <1>9 DEF AdmitModelCall, ExecutorPlace, NoErrand
  <2>2. modelCalls' \in [Grant -> 0..MaxGrantModelCalls]
    BY <1>1, <1>9, <2>1 DEF AdmitModelCall
  <2>3. executor[x] \in ExecutorPlace /\ executor[x].step = "ready" /\ executor' = [executor EXCEPT ![x] = executor[x]]
    BY <1>1, <1>9 DEF AdmitModelCall
  <2>4. QED
    BY <1>1, <1>7, <1>9, <2>2, <2>3 DEF AdmitModelCall
<1>10. ASSUME NEW x \in Executor, NEW c \in GrantCall, CheckTool(x, c) PROVE GrantInv'
  <2> DEFINE place == [step |-> "admit", grant |-> executor[x].grant, call |-> c]
  <2>1. executor[x].grant \in Grant
    BY <1>1, <1>10 DEF CheckTool, ExecutorPlace, NoErrand
  <2>2. place \in ExecutorPlace /\ place.step = "admit"
    BY <2>1 DEF ExecutorPlace
  <2> HIDE DEF place
  <2>3. executor' = [executor EXCEPT ![x] = place]
    BY <1>10 DEF CheckTool, place
  <2>4. QED
    BY <1>1, <1>7, <1>10, <2>2, <2>3 DEF CheckTool
<1>11. ASSUME NEW x \in Executor, EndChild(x) PROVE GrantInv'
  <2>1. NoErrand \in ExecutorPlace /\ NoErrand.step = "idle" /\ executor' = [executor EXCEPT ![x] = NoErrand]
    BY <1>11 DEF EndChild, ExecutorPlace, NoErrand
  <2>2. PICK status \in {"succeeded", "queued"} :
          child' = [child EXCEPT ![executor[x].grant] = IF @ = "running" THEN status ELSE @]
    BY <1>11 DEF EndChild
  <2>3. child' \in [Grant -> {"none", "queued", "running", "succeeded", "cancelled"}]
    BY <1>1, <2>2
  <2>4. UNCHANGED <<parentWaits, grants, calls, modelCalls, performed, delegator, tickCursor, grantMishaps>>
    BY <1>11 DEF EndChild
  <2>5. QED
    BY <1>1, <1>7, <2>1, <2>3, <2>4
<1>12. CASE DelegationStops
  <2>0. NoErrand \in ExecutorPlace /\ NoErrand.step = "idle" /\ grantMishaps' \in Nat
    BY <1>1, <1>12 DEF DelegationStops, GrantMishap, ExecutorPlace, NoErrand
  <2>1. CASE \E d \in Delegator : delegator[d] # NoErrand /\ NoMoreErrand(d) /\ UNCHANGED <<executor, tickCursor>>
    BY <1>1, <1>2, <1>12, <2>0, <2>1 DEF DelegationStops, NoMoreErrand
  <2>2. CASE \E x \in Executor : /\ executor' = [executor EXCEPT ![x] = NoErrand]
                                /\ UNCHANGED <<delegator, tickCursor>>
    <3>1. UNCHANGED <<parentWaits, grants, child, calls, modelCalls, performed>>
      BY <1>12 DEF DelegationStops
    <3>2. QED
      BY <1>1, <1>7, <2>0, <2>2, <3>1
  <2>3. CASE tickCursor' = 0 /\ UNCHANGED <<delegator, executor>>
    BY <1>1, <1>2, <1>12, <2>0, <2>3 DEF DelegationStops
  <2>4. QED
    BY <1>12, <2>1, <2>2, <2>3 DEF DelegationStops
<1>13. ASSUME NEW x \in Executor, AdmitTool(x) \/ Perform(x) \/ SettleCall(x) PROVE GrantInv'
  <2>1. /\ executor[x].grant \in Grant /\ executor[x].call \in GrantCall /\ executor[x].step \in {"admit", "perform", "settle"}
        /\ executor[x] \in [step : {"admit", "perform", "settle"}, grant : Grant, call : GrantCall]
    BY <1>1, <1>13 DEF AdmitTool, Perform, SettleCall, ExecutorPlace, NoErrand
  <2>2. PICK g \in Grant, c \in GrantCall : g = executor[x].grant /\ c = executor[x].call
    BY <2>1
  <2>3. UNCHANGED <<parentWaits, grants, child, modelCalls, delegator, tickCursor, grantMishaps>>
    BY <1>13 DEF AdmitTool, Perform, SettleCall
  <2>4. ASSUME CallInv', calls' \in [Grant -> [GrantCall -> {"none", "admitted", "returned", "unknown"}]],
               performed' \in [Grant -> [GrantCall -> Nat]], executor' \in [Executor -> ExecutorPlace]
        PROVE  GrantInv'
    BY <1>1, <2>3, <2>4 DEF GrantInv, GrantTypeOK, ExecutorPlace
  <2>5. /\ \A y \in Executor : Pursues(x, g, c) /\ Pursues(y, g, c) => y = x
        /\ Pursues(x, g, c) => calls[g][c] = "admitted" /\ performed[g][c] = IF executor[x].step = "perform" THEN 0 ELSE 1
        /\ Pursues(x, g, c) <=> executor[x].step # "admit"
        /\ performed[g][c] \in Nat /\ calls[g][c] \in {"none", "admitted", "returned", "unknown"}
        /\ performed[g][c] > 0 => calls[g][c] # "none"
        /\ calls = [calls EXCEPT ![g][c] = calls[g][c]] /\ performed = [performed EXCEPT ![g][c] = performed[g][c]]
    <3>1. Pursues(x, g, c) <=> executor[x].step # "admit"
      BY <2>1, <2>2 DEF Pursues
    <3>2. /\ performed[g][c] \in Nat /\ calls[g][c] \in {"none", "admitted", "returned", "unknown"}
          /\ calls = [calls EXCEPT ![g][c] = calls[g][c]] /\ performed = [performed EXCEPT ![g][c] = performed[g][c]]
      BY <1>1
    <3>3. QED
      BY <3>1, <3>2 DEF GrantInv, CallInv
  <2>6. CASE AdmitTool(x)
    <3>1. CASE AdmitsCall(g, c)
      <4> DEFINE place == [executor[x] EXCEPT !.step = "perform"]
      <4>1. place \in ExecutorPlace /\ place.step = "perform" /\ place.grant = g /\ place.call = c
        BY <2>1, <2>2 DEF ExecutorPlace
      <4> HIDE DEF place
      <4>2. /\ calls' = [calls EXCEPT ![g][c] = "admitted"] /\ executor' = [executor EXCEPT ![x] = place]
            /\ performed' = [performed EXCEPT ![g][c] = 0]
        <5>1. performed[g][c] = 0
          BY <2>5, <3>1 DEF AdmitsCall
        <5>2. QED
          BY <2>2, <2>5, <2>6, <3>1, <5>1 DEF AdmitTool, place
      <4>3. calls[g][c] = "none" /\ Cardinality(Used(g)) < MaxCalls
        BY <3>1 DEF AdmitsCall
      <4>4. \A y \in Executor : ~Pursues(y, g, c)
        BY <4>3 DEF GrantInv, CallInv
      <4>5. 0 \in Nat /\ 0 <= 1 /\ ~(0 > 0)
        OBVIOUS
      <4>6. /\ CallInv' /\ calls' \in [Grant -> [GrantCall -> {"none", "admitted", "returned", "unknown"}]]
            /\ performed' \in [Grant -> [GrantCall -> Nat]] /\ executor' \in [Executor -> ExecutorPlace]
        BY <4>1, <4>2, <4>3, <4>4, <4>5, CallGoesOn
      <4>7. QED
        BY <2>4, <4>6
    <3>2. CASE ~AdmitsCall(g, c)
      <4>1. NoErrand \in ExecutorPlace /\ NoErrand.step = "idle" /\ UNCHANGED <<calls, performed>>
            /\ executor' = [executor EXCEPT ![x] = NoErrand]
        BY <2>2, <2>6, <3>2 DEF AdmitTool, ExecutorPlace, NoErrand
      <4>2. QED
        BY <1>1, <1>7, <2>3, <4>1
    <3>3. QED
      BY <3>1, <3>2
  <2>7. CASE Perform(x)
    <3> DEFINE place == [executor[x] EXCEPT !.step = "settle"]
    <3>1. place \in ExecutorPlace /\ place.step = "settle" /\ place.grant = g /\ place.call = c
      BY <2>1, <2>2 DEF ExecutorPlace
    <3> HIDE DEF place
    <3>2. executor[x].step = "perform" /\ performed[g][c] = 0
      BY <2>5, <2>7 DEF Perform
    <3>3. /\ calls' = [calls EXCEPT ![g][c] = "admitted"] /\ executor' = [executor EXCEPT ![x] = place]
          /\ performed' = [performed EXCEPT ![g][c] = 1]
      BY <1>1, <2>2, <2>5, <2>7, <3>2 DEF Perform, place
    <3>4. 1 \in Nat /\ 1 <= 1 /\ 1 # 0
      OBVIOUS
    <3>5. \A y \in Executor : Pursues(y, g, c) => y = x
      BY <2>5, <3>2
    <3>6. calls[g][c] = "admitted"
      BY <2>5, <3>2
    <3>7. /\ CallInv' /\ calls' \in [Grant -> [GrantCall -> {"none", "admitted", "returned", "unknown"}]]
          /\ performed' \in [Grant -> [GrantCall -> Nat]] /\ executor' \in [Executor -> ExecutorPlace]
      BY <3>1, <3>3, <3>4, <3>5, <3>6, CallGoesOn
    <3>8. QED
      BY <2>4, <3>7
  <2>8. CASE SettleCall(x)
    <3> DEFINE place == [step |-> "ready", grant |-> g]
    <3>1. place \in ExecutorPlace /\ place.step = "ready"
      BY DEF ExecutorPlace
    <3>2. executor[x].step # "admit" /\ executor' = [executor EXCEPT ![x] = place]
      BY <2>2, <2>8 DEF SettleCall
    <3> HIDE DEF place
    <3>3. calls[g][c] = "admitted"
      BY <2>5, <3>2
    <3>4. PICK outcome \in {"unknown", "returned"} :
            /\ outcome = "returned" => executor[x].step = "settle"
            /\ calls' = [calls EXCEPT ![g][c] = outcome]
      BY <2>2, <2>8, <3>3 DEF SettleCall
    <3>5. /\ outcome = "returned" => performed[g][c] = 1
          /\ performed' = [performed EXCEPT ![g][c] = performed[g][c]] /\ performed[g][c] <= 1
      BY <2>5, <2>8, <3>2, <3>4 DEF SettleCall, GrantInv, CallInv
    <3>6. QED
      BY <2>4, <2>5, <3>1, <3>2, <3>3, <3>4, <3>5, CallGoesOn
  <2>9. QED
    BY <1>13, <2>6, <2>7, <2>8
<1>14. CASE UNCHANGED grantVars
  BY <1>1, <1>2, <1>14 DEF grantVars
<1>15. QED
  BY <1>3, <1>4, <1>5, <1>6, <1>8, <1>9, <1>10, <1>11, <1>12, <1>13, <1>14 DEF GrantNext

LEMMA GrantIsSound == GrantInv => GrantBoundsWork
<1> SUFFICES ASSUME GrantInv, NEW g \in Grant PROVE Cardinality({c \in GrantCall : performed[g][c] > 0}) <= MaxCalls
  BY DEF GrantInv, CallInv, GrantBoundsWork
<1> DEFINE ran == {c \in GrantCall : performed[g][c] > 0}
<1>1. ran \subseteq Used(g)
  BY DEF GrantInv, CallInv, Used
<1>2. IsFiniteSet(Used(g)) /\ Cardinality(Used(g)) <= MaxCalls /\ Cardinality(Used(g)) \in Nat /\ MaxCalls \in Nat
  BY GrantsAssumption, FS_CardinalityType DEF GrantInv, CallInv
<1>3. IsFiniteSet(ran) /\ Cardinality(ran) <= Cardinality(Used(g))
  BY <1>1, <1>2, FS_Subset
<1> HIDE DEF ran
<1>4. Cardinality(ran) \in Nat
  BY <1>3, FS_CardinalityType
<1>5. QED
  BY <1>2, <1>3, <1>4 DEF ran
-----------------------------------------------------------------------------
(* Admission of model calls *)

RateRow == [state : {"none", "reserved", "settled", "not-called"}, at : 0..LastTick, tokens : Nat]
CallPlace == [step : {"new", "rated", "admitted", "calling", "release", "finish", "over"},
              called : {"no", "yes", "unknown"}, usage : {"no", "yes"}]
GenerationRow == [state : {"none", "running", "finished"}, tokens : Nat]

\* What the rows of a turn, its call and the provider have to do with each other:
\* the provider works only for a turn whose rate is counted and, while it runs,
\* whose slot is active; a call that is said to be terminal is; and the tokens that
\* are counted cover those that were used.
TurnOK(rate, slot, call, generated) ==
  /\ generated.tokens <= MaxTokens /\ (generated.state # "finished" => generated.tokens = 0)
  /\ generated.state = "running" => slot = "active"
  /\ generated.state # "none" => rate.state \in {"reserved", "settled"}
  /\ rate.state = "reserved" => rate.tokens = MaxTokens
  /\ rate.state = "settled" => generated.state = "finished" /\ rate.tokens = generated.tokens
  /\ call.step \in {"rated", "admitted", "calling", "release", "finish"} => rate.state = "reserved"
  /\ call.step \in {"new", "rated", "admitted"} => generated.state = "none"
  /\ call.step = "admitted" => slot = "active"
  /\ call.step \in {"release", "finish"} =>
       /\ call.called = "no" => generated.state = "none"
       /\ call.called = "yes" => generated.state = "finished"
  /\ call.usage = "yes" => call.step \in {"release", "finish"} /\ call.called = "yes"

TurnInv == \A t \in Turn : TurnOK(rates[t], slots[t], modelCall[t], generation[t])

SlotInv == IsFiniteSet(Active) /\ Cardinality(Active) <= MaxConcurrent

TokensCounted == [t \in Turn |-> rates[t].tokens]

WindowInv ==
  /\ IsFiniteSet(Counted)
  /\ \A minute \in 0..LastTick : /\ Cardinality(InWindow(minute)) <= RequestsPerMinute
                               /\ SumFunctionOnSet(TokensCounted, InWindow(minute)) <= TokensPerMinute

AdmissionInv == AdmissionTypeOK /\ TurnInv /\ SlotInv /\ WindowInv

LEMMA AdmissionStarts == AdmissionInit => AdmissionInv
<1> SUFFICES ASSUME AdmissionInit PROVE AdmissionInv
  OBVIOUS
<1> USE AdmissionAssumption
<1>1. AdmissionTypeOK
  BY DEF AdmissionInit, AdmissionTypeOK
<1>2. TurnInv
  BY DEF AdmissionInit, TurnInv, TurnOK
<1>3. SlotInv
  <2>1. Active = {}
    BY DEF AdmissionInit, Active
  <2>2. QED
    BY <2>1, FS_EmptySet DEF SlotInv
<1>4. WindowInv
  <2>1. Counted = {} /\ \A minute \in 0..LastTick : InWindow(minute) = {}
    BY DEF AdmissionInit, Counted, InWindow
  <2>2. IsFiniteSet({}) /\ Cardinality({}) = 0 /\ SumFunctionOnSet(TokensCounted, {}) = 0
    BY FS_EmptySet, SumEmpty
  <2>3. QED
    BY <2>1, <2>2 DEF WindowInv
<1>5. QED
  BY <1>1, <1>2, <1>3, <1>4 DEF AdmissionInv

\* What the invariant says of the types of each row.
LEMMA TurnRows ==
  ASSUME AdmissionInv
  PROVE  /\ clock \in 0..LastTick /\ callMishaps \in Nat
         /\ rates \in [Turn -> RateRow] /\ slots \in [Turn -> {"none", "active", "released"}]
         /\ modelCall \in [Turn -> CallPlace] /\ generation \in [Turn -> GenerationRow]
         /\ \A t \in Turn : TurnOK(rates[t], slots[t], modelCall[t], generation[t])
  BY DEF AdmissionInv, AdmissionTypeOK, TurnInv, RateRow, CallPlace, GenerationRow

\* Only what belongs to turn t changes.
LEMMA TurnMoves ==
  ASSUME AdmissionInv, NEW t \in Turn, clock' \in 0..LastTick, callMishaps' \in Nat,
         NEW rate \in RateRow, NEW slot \in {"none", "active", "released"}, NEW call \in CallPlace,
         NEW generated \in GenerationRow, TurnOK(rate, slot, call, generated),
         rates' = [rates EXCEPT ![t] = rate], slots' = [slots EXCEPT ![t] = slot],
         modelCall' = [modelCall EXCEPT ![t] = call], generation' = [generation EXCEPT ![t] = generated]
  PROVE  AdmissionTypeOK' /\ TurnInv'
<1> USE TurnRows
<1>1. /\ rates' \in [Turn -> RateRow] /\ slots' \in [Turn -> {"none", "active", "released"}]
      /\ modelCall' \in [Turn -> CallPlace] /\ generation' \in [Turn -> GenerationRow]
  OBVIOUS
<1>2. AdmissionTypeOK'
  BY <1>1 DEF AdmissionTypeOK, RateRow, CallPlace, GenerationRow
<1>3. \A u \in Turn : TurnOK(rates'[u], slots'[u], modelCall'[u], generation'[u])
  OBVIOUS
<1>4. QED
  BY <1>2, <1>3 DEF TurnInv, TurnOK

\* Slots that are given back do no harm.
LEMMA SlotsKeep ==
  ASSUME AdmissionInv, \A t \in Turn : slots'[t] = "active" => slots[t] = "active"
  PROVE  SlotInv'
<1>1. Active' \subseteq Active
  BY DEF Active
<1>2. IsFiniteSet(Active) /\ Cardinality(Active) <= MaxConcurrent /\ Cardinality(Active) \in Nat /\ MaxConcurrent \in Nat
  BY AdmissionAssumption, FS_CardinalityType DEF AdmissionInv, SlotInv
<1>3. IsFiniteSet(Active') /\ Cardinality(Active') <= Cardinality(Active)
  BY <1>1, <1>2, FS_Subset
<1>4. Cardinality(Active') \in Nat
  BY <1>3, FS_CardinalityType
<1>5. QED
  BY <1>2, <1>3, <1>4 DEF SlotInv

\* Nor do turns that are no longer counted, or counted with fewer tokens.
LEMMA WindowsKeep ==
  ASSUME AdmissionInv, rates' \in [Turn -> RateRow],
         \A t \in Turn : rates'[t].state \notin {"none", "not-called"} =>
           /\ rates[t].state \notin {"none", "not-called"}
           /\ rates'[t].at = rates[t].at /\ rates'[t].tokens <= rates[t].tokens
  PROVE  WindowInv'
<1> DEFINE after == [t \in Turn |-> rates'[t].tokens]
<1>1. Counted' \subseteq Counted /\ IsFiniteSet(Counted)
  BY DEF Counted, AdmissionInv, WindowInv
<1>2. IsFiniteSet(Counted')
  BY <1>1, FS_Subset
<1>3. ASSUME NEW minute \in 0..LastTick
      PROVE  /\ Cardinality(InWindow(minute)') <= RequestsPerMinute
             /\ SumFunctionOnSet(after, InWindow(minute)') <= TokensPerMinute
  <2> DEFINE V == InWindow(minute)'
             W == InWindow(minute)
  <2>1. V \subseteq W /\ W \subseteq Counted /\ W \subseteq Turn
    BY DEF InWindow, Counted
  <2>2. IsFiniteSet(W) /\ IsFiniteSet(V) /\ Cardinality(V) <= Cardinality(W)
    <3>1. IsFiniteSet(W)
      BY <1>1, <2>1, FS_Subset
    <3>2. QED
      BY <2>1, <3>1, FS_Subset
  <2>3. \A t \in V : after[t] \in Nat /\ TokensCounted[t] \in Nat /\ after[t] <= TokensCounted[t]
    BY TurnRows DEF InWindow, Counted, RateRow, TokensCounted
  <2>4. \A t \in W : TokensCounted[t] \in Nat
    BY <2>1, TurnRows DEF RateRow, TokensCounted
  <2>5. Cardinality(W) <= RequestsPerMinute /\ SumFunctionOnSet(TokensCounted, W) <= TokensPerMinute
    BY DEF AdmissionInv, WindowInv
  <2> HIDE DEF V, W, after
  <2>6. SumFunctionOnSet(after, V) <= SumFunctionOnSet(TokensCounted, V)
    BY <2>2, <2>3, SumMonotone
  <2>7. SumFunctionOnSet(TokensCounted, V) <= SumFunctionOnSet(TokensCounted, W)
    BY <2>1, <2>2, <2>4, SumSubset
  <2>8. /\ SumFunctionOnSet(after, V) \in Nat /\ SumFunctionOnSet(TokensCounted, V) \in Nat /\ SumFunctionOnSet(TokensCounted, W) \in Nat
        /\ Cardinality(V) \in Nat /\ Cardinality(W) \in Nat /\ RequestsPerMinute \in Nat /\ TokensPerMinute \in Nat
    BY <2>2, <2>3, <2>4, SumNat, FS_CardinalityType, AdmissionAssumption
  <2>9. QED
    BY <2>2, <2>5, <2>6, <2>7, <2>8 DEF V
<1>4. QED
  BY <1>2, <1>3 DEF WindowInv, TokensCounted

LEMMA RateAdmitted ==
  ASSUME AdmissionInv, NEW t \in Turn, AdmitRate(t)
  PROVE  AdmissionInv'
<1>0. /\ clock \in 0..LastTick /\ callMishaps \in Nat
      /\ rates \in [Turn -> RateRow] /\ slots \in [Turn -> {"none", "active", "released"}]
      /\ modelCall \in [Turn -> CallPlace] /\ generation \in [Turn -> GenerationRow]
      /\ \A u \in Turn : TurnOK(rates[u], slots[u], modelCall[u], generation[u])
      /\ {LastTick, MaxTokens, MaxConcurrent, RequestsPerMinute, TokensPerMinute} \subseteq Nat
  BY TurnRows, AdmissionAssumption
<1> DEFINE rate == [state |-> "reserved", at |-> clock, tokens |-> MaxTokens]
           call == [step |-> "rated", called |-> "no", usage |-> "no"]
<1>1. /\ rates[t].state = "none" /\ modelCall[t].step = "new" /\ RateAdmits
      /\ rates' = [rates EXCEPT ![t] = rate] /\ modelCall' = [modelCall EXCEPT ![t] = call]
      /\ UNCHANGED <<clock, slots, generation, callMishaps>>
  BY DEF AdmitRate, Moves
<1>2. AdmissionTypeOK' /\ TurnInv'
  <2>1. generation[t].state = "none"
    BY <1>0, <1>1 DEF TurnOK
  <2>2. rate \in RateRow /\ call \in CallPlace /\ TurnOK(rate, slots[t], call, generation[t])
    BY <1>0, <2>1 DEF RateRow, CallPlace, TurnOK
  <2>3. /\ slots' = [slots EXCEPT ![t] = slots[t]] /\ generation' = [generation EXCEPT ![t] = generation[t]]
        /\ clock' \in 0..LastTick /\ callMishaps' \in Nat
        /\ slots[t] \in {"none", "active", "released"} /\ generation[t] \in GenerationRow
    BY <1>0, <1>1
  <2> HIDE DEF rate, call
  <2>4. rates' = [rates EXCEPT ![t] = rate] /\ modelCall' = [modelCall EXCEPT ![t] = call]
    BY <1>1
  <2>5. QED
    BY <2>2, <2>3, <2>4, TurnMoves
<1>3. SlotInv'
  BY <1>1, SlotsKeep
<1>4. rates' \in [Turn -> RateRow] /\ rates'[t] = rate /\ \A u \in Turn : u # t => rates'[u] = rates[u]
  BY <1>0, <1>1 DEF RateRow
<1>5. Counted' = Counted \cup {t} /\ t \notin Counted /\ IsFiniteSet(Counted)
  BY <1>1, <1>4 DEF Counted, AdmissionInv, WindowInv
<1>6. IsFiniteSet(Counted')
  BY <1>5, FS_AddElement
<1> DEFINE after == [u \in Turn |-> rates'[u].tokens]
<1>7. ASSUME NEW minute \in 0..LastTick
      PROVE  /\ Cardinality(InWindow(minute)') <= RequestsPerMinute
             /\ SumFunctionOnSet(after, InWindow(minute)') <= TokensPerMinute
  <2> DEFINE V == InWindow(minute)'
             W == InWindow(minute)
  <2>1. W \subseteq Counted /\ W \subseteq Turn /\ t \notin W
    BY <1>5 DEF InWindow, Counted
  <2>2. IsFiniteSet(W) /\ Cardinality(W) \in Nat
    BY <1>5, <2>1, FS_Subset, FS_CardinalityType
  <2>3. \A u \in W : after[u] \in Nat /\ TokensCounted[u] \in Nat /\ after[u] = TokensCounted[u]
    BY <1>0, <1>4, <2>1 DEF TokensCounted, RateRow
  <2>4. Cardinality(W) <= RequestsPerMinute /\ SumFunctionOnSet(TokensCounted, W) <= TokensPerMinute
    BY DEF AdmissionInv, WindowInv
  <2>5. CASE MinuteOf(minute) # MinuteOf(clock)
    <3>1. V = W
      BY <1>4, <1>5, <2>5 DEF InWindow, Counted
    <3> HIDE DEF V, W, after
    <3>2. SumFunctionOnSet(after, W) = SumFunctionOnSet(TokensCounted, W)
      BY <2>2, <2>3, SumSame
    <3>3. QED
      BY <2>4, <3>1, <3>2 DEF V
  <2>6. CASE MinuteOf(minute) = MinuteOf(clock)
    <3>1. V = W \cup {t} /\ W = InWindow(clock)
      BY <1>4, <1>5, <2>6 DEF InWindow, Counted
    <3>2. Cardinality(W) < RequestsPerMinute /\ SumFunctionOnSet(TokensCounted, W) + MaxTokens <= TokensPerMinute
      BY <1>1, <3>1 DEF RateAdmits, TokensCounted
    <3>3. after[t] = MaxTokens
      BY <1>4
    <3> HIDE DEF V, W, after, rate
    <3>4. IsFiniteSet(W \cup {t}) /\ Cardinality(W \cup {t}) = Cardinality(W) + 1
      BY <2>1, <2>2, FS_AddElement
    <3>5. SumFunctionOnSet(after, W \cup {t}) = after[t] + SumFunctionOnSet(after, (W \cup {t}) \ {t})
      <4>1. \A u \in W \cup {t} : after[u] \in Nat
        BY <1>0, <2>3, <3>3
      <4>2. QED
        BY <3>4, <4>1, SumTerm
    <3>6. (W \cup {t}) \ {t} = W
      BY <2>1
    <3>7. SumFunctionOnSet(after, W) = SumFunctionOnSet(TokensCounted, W)
      BY <2>2, <2>3, SumSame
    <3>8. SumFunctionOnSet(TokensCounted, W) \in Nat
      BY <2>2, <2>3, SumNat
    <3>9. QED
      BY <1>0, <2>2, <3>1, <3>2, <3>3, <3>4, <3>5, <3>6, <3>7, <3>8 DEF V
  <2>7. QED
    BY <2>5, <2>6
<1>8. WindowInv'
  BY <1>6, <1>7 DEF WindowInv, TokensCounted
<1>9. QED
  BY <1>2, <1>3, <1>8 DEF AdmissionInv

LEMMA SlotAdmitted ==
  ASSUME AdmissionInv, NEW t \in Turn, AdmitSlot(t)
  PROVE  AdmissionInv'
<1>0. /\ clock \in 0..LastTick /\ callMishaps \in Nat
      /\ rates \in [Turn -> RateRow] /\ slots \in [Turn -> {"none", "active", "released"}]
      /\ modelCall \in [Turn -> CallPlace] /\ generation \in [Turn -> GenerationRow]
      /\ \A u \in Turn : TurnOK(rates[u], slots[u], modelCall[u], generation[u])
      /\ {LastTick, MaxTokens, MaxConcurrent, RequestsPerMinute, TokensPerMinute} \subseteq Nat
  BY TurnRows, AdmissionAssumption
<1> DEFINE call == [step |-> "admitted", called |-> "no", usage |-> "no"]
<1>1. /\ modelCall[t].step = "rated" /\ Cardinality(Active) < MaxConcurrent
      /\ slots' = [slots EXCEPT ![t] = "active"] /\ modelCall' = [modelCall EXCEPT ![t] = call]
      /\ UNCHANGED <<clock, rates, generation, callMishaps>>
  BY DEF AdmitSlot, Moves
<1>2. AdmissionTypeOK' /\ TurnInv'
  <2>1. call \in CallPlace /\ TurnOK(rates[t], "active", call, generation[t])
    BY <1>0, <1>1 DEF CallPlace, TurnOK
  <2>2. /\ rates' = [rates EXCEPT ![t] = rates[t]] /\ generation' = [generation EXCEPT ![t] = generation[t]]
        /\ rates[t] \in RateRow /\ generation[t] \in GenerationRow
        /\ clock' \in 0..LastTick /\ callMishaps' \in Nat
    BY <1>0, <1>1
  <2> HIDE DEF call
  <2>3. QED
    BY <1>1, <2>1, <2>2, TurnMoves
<1>3. SlotInv'
  <2>1. Active' = Active \cup {t}
    BY <1>0, <1>1 DEF Active
  <2>2. IsFiniteSet(Active) /\ Cardinality(Active) \in Nat
    BY FS_CardinalityType DEF AdmissionInv, SlotInv
  <2>3. /\ IsFiniteSet(Active \cup {t})
        /\ Cardinality(Active \cup {t}) \in {Cardinality(Active), Cardinality(Active) + 1}
    BY <2>2, FS_AddElement, Zenon
  <2>4. Cardinality(Active \cup {t}) <= Cardinality(Active) + 1
    BY <2>2, <2>3
  <2>5. QED
    BY <1>0, <1>1, <2>1, <2>2, <2>3, <2>4 DEF SlotInv
<1>4. WindowInv'
  BY <1>0, <1>1, WindowsKeep DEF RateRow
<1>5. QED
  BY <1>2, <1>3, <1>4 DEF AdmissionInv

LEMMA AdmissionSteps == AdmissionInv /\ [AdmissionNext]_admissionVars => AdmissionInv'
<1> SUFFICES ASSUME AdmissionInv, [AdmissionNext]_admissionVars PROVE AdmissionInv'
  OBVIOUS
<1>0. /\ clock \in 0..LastTick /\ callMishaps \in Nat
      /\ rates \in [Turn -> RateRow] /\ slots \in [Turn -> {"none", "active", "released"}]
      /\ modelCall \in [Turn -> CallPlace] /\ generation \in [Turn -> GenerationRow]
      /\ \A t \in Turn : TurnOK(rates[t], slots[t], modelCall[t], generation[t])
      /\ LastTick \in Nat /\ MaxTokens \in Nat
  BY TurnRows, AdmissionAssumption
<1>1. ASSUME UNCHANGED <<rates, slots, modelCall, generation>>, clock' \in 0..LastTick, callMishaps' \in Nat
      PROVE  AdmissionInv'
  <2>1. AdmissionTypeOK' /\ TurnInv'
    BY <1>1 DEF AdmissionInv, AdmissionTypeOK, TurnInv
  <2>2. SlotInv'
    BY <1>0, <1>1, SlotsKeep
  <2>3. WindowInv'
    BY <1>0, <1>1, WindowsKeep DEF RateRow
  <2>4. QED
    BY <2>1, <2>2, <2>3 DEF AdmissionInv
<1>2. CASE ClockTick
  BY <1>0, <1>1, <1>2 DEF ClockTick
<1>3. CASE UNCHANGED admissionVars
  BY <1>0, <1>1, <1>3 DEF admissionVars
<1>4. ASSUME AdmissionTypeOK', TurnInv', rates' \in [Turn -> RateRow], NEW t \in Turn,
             \A u \in Turn : slots'[u] = "active" => slots[u] = "active",
             \A u \in Turn : u # t => rates'[u] = rates[u],
             rates'[t].state \notin {"none", "not-called"} =>
               /\ rates[t].state \notin {"none", "not-called"}
               /\ rates'[t].at = rates[t].at /\ rates'[t].tokens <= rates[t].tokens
      PROVE  AdmissionInv'
  <2>1. SlotInv'
    BY <1>4, SlotsKeep
  <2>2. \A u \in Turn : rates'[u].state \notin {"none", "not-called"} =>
           /\ rates[u].state \notin {"none", "not-called"}
           /\ rates'[u].at = rates[u].at /\ rates'[u].tokens <= rates[u].tokens
    BY <1>0, <1>4 DEF RateRow
  <2>3. QED
    BY <1>4, <2>1, <2>2, WindowsKeep DEF AdmissionInv
<1>5. ASSUME NEW t \in Turn, NEW call \in CallPlace, NEW generated \in GenerationRow,
             TurnOK(rates[t], slots[t], call, generated), clock' = clock, callMishaps' \in Nat, UNCHANGED <<rates, slots>>,
             modelCall' = [modelCall EXCEPT ![t] = call], generation' = [generation EXCEPT ![t] = generated]
      PROVE  AdmissionInv'
  <2>1. /\ rates' = [rates EXCEPT ![t] = rates[t]] /\ slots' = [slots EXCEPT ![t] = slots[t]]
        /\ clock' \in 0..LastTick /\ rates[t] \in RateRow /\ slots[t] \in {"none", "active", "released"}
    BY <1>0, <1>5
  <2>2. AdmissionTypeOK' /\ TurnInv'
    BY <1>5, <2>1, TurnMoves
  <2>3. rates' \in [Turn -> RateRow] /\ rates'[t].tokens <= rates[t].tokens
    BY <1>0, <1>5 DEF RateRow
  <2>4. QED
    BY <1>4, <1>5, <2>2, <2>3
<1>6. \A t \in Turn : /\ generation = [generation EXCEPT ![t] = generation[t]] /\ rates = [rates EXCEPT ![t] = rates[t]]
                      /\ slots = [slots EXCEPT ![t] = slots[t]] /\ modelCall = [modelCall EXCEPT ![t] = modelCall[t]]
  BY <1>0
<1>7. ASSUME NEW t \in Turn,
             \/ NoSlot(t) \/ NotDispatched(t) \/ Dispatched(t) \/ Generated(t) \/ Returned(t) \/ Silent(t)
             \/ ReleaseSlot(t) \/ FinishRate(t) \/ WorkerDies(t) \/ ResolveSlot(t)
      PROVE  AdmissionInv'
  <2> DEFINE Call(step, called, usage) == [step |-> step, called |-> called, usage |-> usage]
  <2>0. /\ rates[t] \in RateRow /\ slots[t] \in {"none", "active", "released"} /\ modelCall[t] \in CallPlace
        /\ generation[t] \in GenerationRow /\ TurnOK(rates[t], slots[t], modelCall[t], generation[t])
        /\ callMishaps \in Nat /\ MaxTokens \in Nat
    BY <1>0
  <2>1. CASE NoSlot(t)
    <3> DEFINE call == Call("finish", "no", "no")
    <3>1. call \in CallPlace /\ TurnOK(rates[t], slots[t], call, generation[t])
      BY <2>0, <2>1 DEF NoSlot, CallPlace, TurnOK
    <3>2. modelCall' = [modelCall EXCEPT ![t] = call] /\ UNCHANGED <<clock, rates, slots, generation, callMishaps>>
      BY <2>0, <2>1 DEF NoSlot, Moves
    <3> HIDE DEF call
    <3>3. QED
      BY <1>5, <2>0, <1>6, <3>1, <3>2
  <2>2. CASE NotDispatched(t)
    <3> DEFINE call == Call("release", "no", "no")
    <3>1. call \in CallPlace /\ TurnOK(rates[t], slots[t], call, generation[t])
      BY <2>0, <2>2 DEF NotDispatched, CallPlace, TurnOK
    <3>2. modelCall' = [modelCall EXCEPT ![t] = call] /\ UNCHANGED <<clock, rates, slots, generation, callMishaps>>
      BY <2>0, <2>2 DEF NotDispatched, Moves
    <3> HIDE DEF call
    <3>3. QED
      BY <1>5, <2>0, <1>6, <3>1, <3>2
  <2>3. CASE Dispatched(t)
    <3> DEFINE call == Call("calling", "unknown", "no")
               generated == [generation[t] EXCEPT !.state = "running"]
    <3>1. generated \in GenerationRow /\ generated.state = "running" /\ generated.tokens = generation[t].tokens
      BY <2>0 DEF GenerationRow
    <3>2. /\ modelCall' = [modelCall EXCEPT ![t] = call] /\ generation' = [generation EXCEPT ![t] = generated]
          /\ UNCHANGED <<clock, rates, slots, callMishaps>> /\ modelCall[t].step = "admitted"
      BY <2>0, <2>3 DEF Dispatched, Moves
    <3> HIDE DEF generated
    <3>3. call \in CallPlace /\ TurnOK(rates[t], slots[t], call, generated)
      BY <2>0, <3>1, <3>2 DEF CallPlace, TurnOK
    <3> HIDE DEF call
    <3>4. QED
      BY <1>5, <2>0, <1>6, <3>1, <3>2, <3>3
  <2>4. CASE Generated(t)
    <3>1. PICK n \in 0..MaxTokens : generation' = [generation EXCEPT ![t] = [state |-> "finished", tokens |-> n]]
      BY <2>0, <2>4 DEF Generated
    <3> DEFINE generated == [state |-> "finished", tokens |-> n]
    <3>2. generated \in GenerationRow /\ TurnOK(rates[t], slots[t], modelCall[t], generated)
      BY <2>0, <2>4 DEF Generated, GenerationRow, TurnOK
    <3>3. UNCHANGED <<clock, rates, slots, modelCall, callMishaps>>
      BY <2>0, <2>4 DEF Generated
    <3> HIDE DEF generated
    <3>4. QED
      BY <1>5, <2>0, <1>6, <3>1, <3>2, <3>3 DEF generated
  <2>5. CASE Returned(t)
    <3>1. PICK usage \in {"no", "yes"} : modelCall' = [modelCall EXCEPT ![t] = Call("release", "yes", usage)]
      BY <2>0, <2>5 DEF Returned, Moves
    <3> DEFINE call == Call("release", "yes", usage)
    <3>2. call \in CallPlace /\ TurnOK(rates[t], slots[t], call, generation[t])
      BY <2>0, <2>5 DEF Returned, CallPlace, TurnOK
    <3>3. UNCHANGED <<clock, rates, slots, generation, callMishaps>>
      BY <2>0, <2>5 DEF Returned
    <3>4. modelCall' = [modelCall EXCEPT ![t] = call]
      BY <3>1
    <3> HIDE DEF call
    <3>5. QED
      BY <1>5, <2>0, <1>6, <3>2, <3>3, <3>4
  <2>6. CASE Silent(t)
    <3> DEFINE call == Call("release", "unknown", "no")
    <3>1. call \in CallPlace /\ TurnOK(rates[t], slots[t], call, generation[t])
      BY <2>0, <2>6 DEF Silent, CallPlace, TurnOK
    <3>2. modelCall' = [modelCall EXCEPT ![t] = call] /\ UNCHANGED <<clock, rates, slots, generation>> /\ callMishaps' \in Nat
      BY <2>0, <2>6 DEF Silent, Moves, CallMishap
    <3> HIDE DEF call
    <3>3. QED
      BY <1>5, <2>0, <1>6, <3>1, <3>2
  <2>7. CASE ReleaseSlot(t)
    <3> DEFINE call == Call("finish", modelCall[t].called, modelCall[t].usage)
    <3>1. PICK slot \in {slots[t], "released"} :
            /\ slot # slots[t] => modelCall[t].called # "unknown"
            /\ slots' = [slots EXCEPT ![t] = slot] /\ callMishaps' \in Nat
      BY <1>6, <2>0, <2>7 DEF ReleaseSlot, Terminal, CallMishap
    <3>2. modelCall' = [modelCall EXCEPT ![t] = call] /\ UNCHANGED <<clock, rates, generation>> /\ modelCall[t].step = "release"
      BY <2>0, <2>7 DEF ReleaseSlot, Moves
    <3>3. call \in CallPlace /\ TurnOK(rates[t], slot, call, generation[t])
      BY <2>0, <3>1, <3>2 DEF CallPlace, TurnOK
    <3> HIDE DEF call
    <3>4. /\ rates' = [rates EXCEPT ![t] = rates[t]] /\ generation' = [generation EXCEPT ![t] = generation[t]]
          /\ slots' = [slots EXCEPT ![t] = slot] /\ modelCall' = [modelCall EXCEPT ![t] = call]
          /\ slot \in {"none", "active", "released"} /\ clock' \in 0..LastTick /\ callMishaps' \in Nat
          /\ rates[t] \in RateRow /\ generation[t] \in GenerationRow
      BY <1>0, <1>6, <2>0, <3>1, <3>2
    <3>5. AdmissionTypeOK' /\ TurnInv'
      BY <3>3, <3>4, TurnMoves
    <3>6. \A u \in Turn : slots'[u] = "active" => slots[u] = "active"
      BY <1>0, <3>1
    <3>7. rates' = rates /\ rates' \in [Turn -> RateRow] /\ rates'[t].tokens <= rates[t].tokens
      BY <1>0, <3>2 DEF RateRow
    <3>8. QED
      BY <1>4, <3>5, <3>6, <3>7
  <2>8. CASE FinishRate(t)
    <3> DEFINE call == Call("over", modelCall[t].called, "no")
               unused == [rates[t] EXCEPT !.state = "not-called"]
               paid == [rates[t] EXCEPT !.state = "settled", !.tokens = generation[t].tokens]
    <3>1. /\ unused \in RateRow /\ unused.state = "not-called"
          /\ paid \in RateRow /\ paid.state = "settled" /\ paid.tokens = generation[t].tokens /\ paid.at = rates[t].at
      <4>1. generation[t].tokens \in Nat
        BY <2>0 DEF GenerationRow
      <4>2. QED
        BY <2>0, <4>1 DEF RateRow
    <3>2. /\ modelCall' = [modelCall EXCEPT ![t] = call] /\ UNCHANGED <<clock, slots, generation>>
          /\ callMishaps' \in Nat /\ modelCall[t].step = "finish"
          /\ \/ rates' = rates
             \/ modelCall[t].called = "no" /\ rates' = [rates EXCEPT ![t] = unused]
             \/ modelCall[t].usage = "yes" /\ rates' = [rates EXCEPT ![t] = paid]
      BY <1>6, <2>0, <2>8 DEF FinishRate, Moves, CallMishap
    <3> HIDE DEF unused, paid
    <3>3. ASSUME NEW rate \in RateRow, TurnOK(rate, slots[t], call, generation[t]), rates' = [rates EXCEPT ![t] = rate],
                 rate.state = "not-called" \/ (rate.at = rates[t].at /\ rate.tokens <= rates[t].tokens)
          PROVE  AdmissionInv'
      <4>1. /\ slots' = [slots EXCEPT ![t] = slots[t]] /\ generation' = [generation EXCEPT ![t] = generation[t]]
            /\ modelCall' = [modelCall EXCEPT ![t] = call] /\ clock' \in 0..LastTick /\ callMishaps' \in Nat
            /\ slots[t] \in {"none", "active", "released"} /\ generation[t] \in GenerationRow
        BY <1>0, <1>6, <3>2
      <4>2. call \in CallPlace
        BY <2>0 DEF CallPlace
      <4> HIDE DEF call
      <4>3. AdmissionTypeOK' /\ TurnInv'
        BY <3>3, <4>1, <4>2, TurnMoves
      <4>4. rates' \in [Turn -> RateRow] /\ rates'[t] = rate /\ \A u \in Turn : u # t => rates'[u] = rates[u]
        BY <1>0, <3>3
      <4>5. rates[t].state = "reserved"
        BY <2>0, <3>2 DEF TurnOK
      <4>6. QED
        BY <1>4, <3>2, <3>3, <4>3, <4>4, <4>5
    <3>4. CASE rates' = rates
      <4>1. rates' = [rates EXCEPT ![t] = rates[t]] /\ rates[t].tokens <= rates[t].tokens
        BY <1>6, <2>0, <3>4 DEF RateRow
      <4>2. TurnOK(rates[t], slots[t], call, generation[t])
        BY <2>0, <3>2 DEF TurnOK
      <4>3. QED
        BY <2>0, <3>3, <4>1, <4>2
    <3>5. CASE modelCall[t].called = "no" /\ rates' = [rates EXCEPT ![t] = unused]
      <4>1. TurnOK(unused, slots[t], call, generation[t])
        BY <2>0, <3>1, <3>2, <3>5 DEF TurnOK
      <4>2. QED
        BY <3>1, <3>3, <3>5, <4>1
    <3>6. CASE modelCall[t].usage = "yes" /\ rates' = [rates EXCEPT ![t] = paid]
      <4>1. TurnOK(paid, slots[t], call, generation[t]) /\ paid.tokens <= rates[t].tokens
        BY <2>0, <3>1, <3>2, <3>6 DEF TurnOK
      <4>2. QED
        BY <3>1, <3>3, <3>6, <4>1
    <3>7. QED
      BY <3>2, <3>4, <3>5, <3>6
  <2>9. CASE WorkerDies(t)
    <3> DEFINE call == Call("over", modelCall[t].called, "no")
    <3>1. call \in CallPlace /\ TurnOK(rates[t], slots[t], call, generation[t])
      BY <2>0, <2>9 DEF CallPlace, TurnOK
    <3>2. modelCall' = [modelCall EXCEPT ![t] = call] /\ UNCHANGED <<clock, rates, slots, generation>> /\ callMishaps' \in Nat
      BY <2>0, <2>9 DEF WorkerDies, Moves, CallMishap
    <3> HIDE DEF call
    <3>3. QED
      BY <1>5, <2>0, <1>6, <3>1, <3>2
  <2>10. CASE ResolveSlot(t)
    <3>1. TurnOK(rates[t], "released", modelCall[t], generation[t])
      BY <2>0, <2>10 DEF ResolveSlot, TurnOK
    <3>2. slots' = [slots EXCEPT ![t] = "released"] /\ UNCHANGED <<clock, rates, modelCall, generation, callMishaps>>
      BY <2>0, <2>10 DEF ResolveSlot
    <3>3. /\ rates' = [rates EXCEPT ![t] = rates[t]] /\ generation' = [generation EXCEPT ![t] = generation[t]]
          /\ modelCall' = [modelCall EXCEPT ![t] = modelCall[t]]
      BY <1>6, <3>2
    <3>4. /\ clock' \in 0..LastTick /\ callMishaps' \in Nat /\ slots' = [slots EXCEPT ![t] = "released"]
          /\ "released" \in {"none", "active", "released"} /\ rates[t] \in RateRow
          /\ modelCall[t] \in CallPlace /\ generation[t] \in GenerationRow
      BY <1>0, <3>2
    <3>5. AdmissionTypeOK' /\ TurnInv'
      BY <3>1, <3>3, <3>4, TurnMoves
    <3>6. \A u \in Turn : slots'[u] = "active" => slots[u] = "active"
      BY <1>0, <3>2
    <3>7. rates' = rates /\ rates' \in [Turn -> RateRow] /\ rates'[t].tokens <= rates[t].tokens
      BY <1>0, <3>2 DEF RateRow
    <3>8. QED
      BY <1>4, <3>5, <3>6, <3>7
  <2>11. QED
    BY <1>7, <2>1, <2>2, <2>3, <2>4, <2>5, <2>6, <2>7, <2>8, <2>9, <2>10
<1>8. QED
  BY <1>2, <1>3, <1>7, RateAdmitted, SlotAdmitted DEF AdmissionNext

LEMMA AdmissionIsSound == AdmissionInv => ProviderLoadBounded
<1> SUFFICES ASSUME AdmissionInv PROVE ProviderLoadBounded
  OBVIOUS
<1>0. /\ clock \in 0..LastTick /\ callMishaps \in Nat
      /\ rates \in [Turn -> RateRow] /\ slots \in [Turn -> {"none", "active", "released"}]
      /\ modelCall \in [Turn -> CallPlace] /\ generation \in [Turn -> GenerationRow]
      /\ \A t \in Turn : TurnOK(rates[t], slots[t], modelCall[t], generation[t])
      /\ {LastTick, MaxTokens, MaxConcurrent, RequestsPerMinute, TokensPerMinute} \subseteq Nat
  BY TurnRows, AdmissionAssumption
<1>1. Cardinality({t \in Turn : generation[t].state = "running"}) <= MaxConcurrent
  <2> DEFINE running == {t \in Turn : generation[t].state = "running"}
  <2>1. running \subseteq Active
    BY <1>0 DEF TurnOK, Active
  <2>2. IsFiniteSet(Active) /\ Cardinality(Active) <= MaxConcurrent /\ Cardinality(Active) \in Nat
    BY <1>0, FS_CardinalityType DEF AdmissionInv, SlotInv
  <2> HIDE DEF running
  <2>3. IsFiniteSet(running) /\ Cardinality(running) <= Cardinality(Active)
    BY <2>1, <2>2, FS_Subset
  <2>4. Cardinality(running) \in Nat
    BY <2>3, FS_CardinalityType
  <2>5. QED
    BY <1>0, <2>2, <2>3, <2>4 DEF running
<1>2. ASSUME NEW minute \in 0..LastTick
      PROVE  /\ Cardinality(Served(minute)) <= RequestsPerMinute
             /\ SumFunctionOnSet([t \in Turn |-> generation[t].tokens], Served(minute)) <= TokensPerMinute
  <2> DEFINE V == Served(minute)
             W == InWindow(minute)
             used == [t \in Turn |-> generation[t].tokens]
  <2>1. V \subseteq W /\ W \subseteq Counted /\ W \subseteq Turn
    BY <1>0 DEF InWindow, Counted, Served, TurnOK
  <2>2. IsFiniteSet(W) /\ IsFiniteSet(V) /\ Cardinality(V) <= Cardinality(W)
    <3>1. IsFiniteSet(W)
      BY <2>1, FS_Subset DEF AdmissionInv, WindowInv
    <3>2. QED
      BY <2>1, <3>1, FS_Subset
  <2>3. \A t \in V : used[t] \in Nat /\ TokensCounted[t] \in Nat /\ used[t] <= TokensCounted[t]
    <3>1. ASSUME NEW t \in V PROVE used[t] \in Nat /\ TokensCounted[t] \in Nat /\ used[t] <= TokensCounted[t]
      <4>1. t \in Turn /\ rates[t] \in RateRow /\ generation[t] \in GenerationRow /\ generation[t].state # "none"
            /\ TurnOK(rates[t], slots[t], modelCall[t], generation[t])
        BY <1>0 DEF Served
      <4>2. generation[t].tokens <= rates[t].tokens /\ generation[t].tokens \in Nat /\ rates[t].tokens \in Nat
        BY <4>1 DEF TurnOK, RateRow, GenerationRow
      <4>3. QED
        BY <4>1, <4>2 DEF TokensCounted
    <3>2. QED
      BY <3>1
  <2>4. \A t \in W : TokensCounted[t] \in Nat
    BY <1>0, <2>1 DEF RateRow, TokensCounted
  <2>5. Cardinality(W) <= RequestsPerMinute /\ SumFunctionOnSet(TokensCounted, W) <= TokensPerMinute
    BY DEF AdmissionInv, WindowInv
  <2> HIDE DEF V, W, used
  <2>6. SumFunctionOnSet(used, V) <= SumFunctionOnSet(TokensCounted, V)
    BY <2>2, <2>3, SumMonotone
  <2>7. SumFunctionOnSet(TokensCounted, V) <= SumFunctionOnSet(TokensCounted, W)
    BY <2>1, <2>2, <2>4, SumSubset
  <2>8. /\ SumFunctionOnSet(used, V) \in Nat /\ SumFunctionOnSet(TokensCounted, V) \in Nat
        /\ SumFunctionOnSet(TokensCounted, W) \in Nat /\ Cardinality(V) \in Nat /\ Cardinality(W) \in Nat
    BY <2>2, <2>3, <2>4, SumNat, FS_CardinalityType
  <2>9. QED
    BY <1>0, <2>2, <2>5, <2>6, <2>7, <2>8 DEF V, used
<1>3. QED
  BY <1>1, <1>2 DEF ProviderLoadBounded
-----------------------------------------------------------------------------
(* Limits *)

LEMMA LimitsFocus ==
  [ServicesNext]_servicesVars => [AdmissionNext]_admissionVars /\ [GrantNext]_grantVars
  BY DEF ServicesNext, servicesVars, Only

\* No limit is passed by admissions that cross, whatever the numbers of turns, slots,
\* calls and processes: of the provider's load (agent/capacity-store.js:9-17,
\* rate-store.js:12-26) and of a grant (collaboration/authority.js:17-42).
THEOREM LimitsAreKept == ServicesSpec => []LimitsHold
<1>1. ServicesInit => AdmissionInv /\ GrantInv
  BY AdmissionStarts, GrantsStart DEF ServicesInit
<1>2. (AdmissionInv /\ GrantInv) /\ [ServicesNext]_servicesVars => (AdmissionInv /\ GrantInv)'
  BY AdmissionSteps, GrantSteps, LimitsFocus
<1>3. AdmissionInv /\ GrantInv => LimitsHold
  BY AdmissionIsSound, GrantIsSound DEF LimitsHold
<1>4. QED
  BY <1>1, <1>2, <1>3, PTL DEF ServicesSpec

-----------------------------------------------------------------------------
(* Hand-offs *)

ChildStage == {"absent", "live"} \cup Ended
HostRow == [step : HostStep, on : Handoff, seen : HandoffRow,
            report : {"ended", "childless", "none", "live"} \cup Ended]
HostPlace == {Free} \cup HostRow

\* What a row says of its child: a Task is made only for an activated hand-off, an
\* attached one exists, a finished one has ended, and so has that of a reconciled row
\* unless the row was closed before its activation; and only a child that was
\* admitted to the model succeeds.
RowTrue(row, kid, count, step) ==
  /\ row.state = "absent" => row.activated = "no" /\ row.reconciled = "no"
  /\ row.activated = "no" => kid = "absent"
  /\ row.attached = "yes" => kid # "absent"
  /\ row.attached = "no" => count = 0
  /\ row.state = "finished" => row.attached = "yes" /\ kid \in Ended
  /\ row.reconciled = "yes" => kid \in Ended \/ row.activated = "no"
  /\ kid = "succeeded" \/ step = "calling" => count > 0

\* What stays true of a row that somebody has read while it is written on.
SeenTrue(read, row, kid) ==
  /\ read.state # "absent" => row.state # "absent"
  /\ read.activated = "yes" => row.activated = "yes"
  /\ read.attached = "yes" => row.attached = "yes"
  /\ read.state \in ClosedStates \cup {"finished"} => row.state = read.state /\ row.activated = read.activated
  /\ read.state = "finished" => read.attached = "yes" /\ kid \in Ended
  /\ read.reconciled = "yes" => kid \in Ended \/ read.activated = "no"

\* What a host at a step has brought about, or knows.
HostKnows(at, row, kid) ==
  /\ SeenTrue(at.seen, row, kid)
  /\ at.step \in {"inserted", "approved"} => row.state # "absent"
  /\ at.step \in {"activated", "bound", "made"} => row.activated = "yes"
  /\ at.step = "made" => kid # "absent"
  /\ at.step \in {"close", "look", "decide", "cancel", "mark"} => at.seen.state # "absent"
  /\ at.step = "cancel" => at.seen.state \in ClosedStates /\ at.seen.attached = "yes"
  /\ at.step = "mark" /\ at.seen.state \in Open => row.attached = "yes" /\ kid \in Ended
  /\ at.step = "mark" /\ at.seen.state \notin Open => kid \in Ended \/ at.seen.activated = "no"
  /\ at.step = "report" => at.on \in Delegated /\ at.report \in {"ended", "childless"}
  /\ at.step = "told" => /\ at.seen.state = "finished" => at.report \in Ended
                         /\ at.seen.reconciled = "yes" => at.report # "live"
                         /\ at.report = "succeeded" => kid = "succeeded"

ApprovedFor(q, h) == At(q, "approved") /\ host[q].on = h

\* A hand-off that will never have a model call: it is closed, or past its deadline
\* and nobody is about to activate it.
NeverCalls(h) ==
  /\ admitted[h] = 0
  /\ \/ handoff[h].state \in ClosedStates
     \/ h \in deadline /\ handoff[h].activated = "no" /\ \A q \in Host : ~ApprovedFor(q, h)

\* What a report of the end of a child, or of there being none, has to be founded on.
ReportTrue(h, report) ==
  /\ report = "ended" => childTask[h] \in Ended
  /\ report = "childless" => NeverCalls(h)

\* Rows and children, what each host knows, and what a host tells or a parent was told.
HandoffInv ==
  /\ HandoffTypeOK
  /\ \A h \in Handoff : RowTrue(handoff[h], childTask[h], admitted[h], turn[h])
  /\ \A q \in Host : host[q] # Free => HostKnows(host[q], handoff[host[q].on], childTask[host[q].on])
  /\ \A q \in Host : At(q, "report") => ReportTrue(host[q].on, host[q].report)
  /\ \A h \in Delegated : ReportTrue(h, receipt[h])

\* How a row and its child may go on.
GoesOn(row, next, kid, kid2) ==
  /\ row.state # "absent" => next.state # "absent"
  /\ row.activated = "yes" => next.activated = "yes"
  /\ row.attached = "yes" => next.attached = "yes"
  /\ row.state \in ClosedStates \cup {"finished"} => next.state = row.state /\ next.activated = row.activated
  /\ kid \in Ended => kid2 = kid
  /\ kid # "absent" => kid2 # "absent"

LEMMA HandoffsStart == HandoffInit => HandoffInv
<1> SUFFICES ASSUME HandoffInit PROVE HandoffInv
  OBVIOUS
<1> USE HandoffsAssumption
<1>1. HandoffTypeOK
  BY DEF HandoffInit, HandoffTypeOK, HandoffRow, Flag, Open, ClosedStates, Ended
<1>2. \A h \in Handoff : RowTrue(handoff[h], childTask[h], admitted[h], turn[h])
  BY DEF HandoffInit, RowTrue, Ended
<1>3. \A q \in Host : host[q] = Free
  BY DEF HandoffInit
<1>4. \A h \in Delegated : ReportTrue(h, receipt[h])
  BY DEF HandoffInit, ReportTrue
<1>5. QED
  BY <1>1, <1>2, <1>3, <1>4 DEF HandoffInv, At

\* What a host knows stays true while rows and children go on.
LEMMA KnowledgeStays ==
  ASSUME NEW at \in HostRow, NEW row \in HandoffRow, NEW next \in HandoffRow, NEW kid, NEW kid2,
         HostKnows(at, row, kid), GoesOn(row, next, kid, kid2)
  PROVE  HostKnows(at, next, kid2)
<1>1. SeenTrue(at.seen, next, kid2)
  BY DEF HostKnows, SeenTrue, GoesOn, HostRow, HandoffRow, Flag, Ended
<1>2. QED
  BY <1>1 DEF HostKnows, GoesOn, HostRow, HandoffRow, Flag, Ended

\* From what a step does to rows, children and hosts, one by one.
LEMMA HandoffsMove ==
  ASSUME HandoffInv, HandoffTypeOK',
         \A h \in Handoff :
           /\ RowTrue(handoff'[h], childTask'[h], admitted'[h], turn'[h])
           /\ GoesOn(handoff[h], handoff'[h], childTask[h], childTask'[h])
           /\ h \in deadline => h \in deadline'
           /\ handoff'[h].activated # handoff[h].activated => \E q \in Host : ApprovedFor(q, h)
           /\ admitted'[h] # admitted[h] => handoff[h].state = "active",
         \A q \in Host :
           \/ host'[q] = host[q]
           \/ host'[q] = Free
           \/ /\ HostKnows(host'[q], handoff'[host'[q].on], childTask'[host'[q].on])
              /\ host'[q].step = "approved" => host'[q].on \notin deadline
              /\ host'[q].step = "report" => ReportTrue(host'[q].on, host'[q].report),
         \A h \in Delegated : ReportTrue(h, receipt'[h])
  PROVE  HandoffInv'
<1>0. HandoffTypeOK /\ (\A q \in Host : host[q] \in {Free} \cup HostRow) /\ (\A q \in Host : host'[q] \in {Free} \cup HostRow)
  BY DEF HandoffInv, HandoffTypeOK, HostRow
<1>1. ASSUME NEW h \in Handoff, NEW report, ReportTrue(h, report)
      PROVE  ReportTrue(h, report)'
  <2>1. report = "ended" => childTask'[h] \in Ended
    BY <1>1 DEF ReportTrue, GoesOn
  <2>2. ASSUME NeverCalls(h) PROVE NeverCalls(h)'
    <3>1. handoff[h] \in HandoffRow /\ handoff'[h] \in HandoffRow
      BY <1>0 DEF HandoffTypeOK
    <3>2. CASE handoff[h].state \in ClosedStates
      BY <2>2, <3>2 DEF NeverCalls, GoesOn, ClosedStates
    <3>3. CASE h \in deadline /\ handoff[h].activated = "no" /\ \A q \in Host : ~ApprovedFor(q, h)
      <4>1. handoff'[h].activated = "no" /\ h \in deadline'
        BY <3>1, <3>3
      <4>2. handoff[h].state # "active"
        BY <3>1, <3>3 DEF HandoffRow
      <4>3. ASSUME NEW q \in Host PROVE ~ApprovedFor(q, h)'
        BY <3>3 DEF ApprovedFor, At
      <4>4. QED
        BY <2>2, <4>1, <4>2, <4>3 DEF NeverCalls
    <3>4. QED
      BY <2>2, <3>2, <3>3 DEF NeverCalls
  <2>3. QED
    BY <1>1, <2>1, <2>2 DEF ReportTrue
<1>2. ASSUME NEW q \in Host, host'[q] # Free
      PROVE  HostKnows(host'[q], handoff'[host'[q].on], childTask'[host'[q].on])
  <2>1. CASE host'[q] = host[q]
    <3>1. host[q] \in HostRow /\ host[q].on \in Handoff
      BY <1>0, <1>2, <2>1 DEF HostRow
    <3>2. handoff[host[q].on] \in HandoffRow /\ handoff'[host[q].on] \in HandoffRow
      BY <1>0, <3>1 DEF HandoffTypeOK
    <3>3. HostKnows(host[q], handoff[host[q].on], childTask[host[q].on])
      BY <1>2, <2>1 DEF HandoffInv
    <3>4. QED
      BY <2>1, <3>1, <3>2, <3>3, KnowledgeStays
  <2>2. QED
    BY <1>2, <2>1
<1>3. ASSUME NEW q \in Host, At(q, "report")' PROVE ReportTrue(host[q].on, host[q].report)'
  <2>1. host'[q] \in HostRow /\ host'[q].on \in Handoff /\ host'[q].step = "report"
    BY <1>0, <1>3 DEF At, HostRow
  <2>2. ReportTrue(host'[q].on, host'[q].report)
    BY <1>3, <2>1 DEF At, HandoffInv
  <2>3. PICK h \in Handoff, report \in {host'[q].report} : h = host'[q].on
    BY <2>1
  <2>4. ReportTrue(h, report)'
    BY <1>1, <2>2, <2>3
  <2>5. QED
    BY <2>3, <2>4 DEF ReportTrue, NeverCalls, ApprovedFor, At
<1>4. ASSUME NEW h \in Delegated PROVE ReportTrue(h, receipt[h])'
  <2>1. h \in Handoff
    BY HandoffsAssumption
  <2>2. PICK report : report = receipt'[h]
    OBVIOUS
  <2>3. ReportTrue(h, report)'
    BY <1>1, <2>1, <2>2
  <2>4. QED
    BY <2>2, <2>3 DEF ReportTrue, NeverCalls, ApprovedFor, At
<1>5. QED
  BY <1>2, <1>3, <1>4 DEF HandoffInv

LEMMA HandoffTypes ==
  ASSUME HandoffInv
  PROVE  /\ handoff \in [Handoff -> HandoffRow] /\ childTask \in [Handoff -> ChildStage]
         /\ admitted \in [Handoff -> 0..MaxModelCalls] /\ turn \in [Handoff -> {"idle", "checked", "calling"}]
         /\ parent \in [Parent -> {"working", "input", "delegating", "succeeded", "cancelled"}]
         /\ receipt \in [Delegated -> {"none", "pending", "ended", "childless"}]
         /\ deadline \in SUBSET Handoff /\ forgets \in Nat /\ host \in [Host -> HostPlace]
  BY DEF HandoffInv, HandoffTypeOK, HostPlace, HostRow, ChildStage

\* A host moves, and with it at most one row and its child.
LEMMA HostMoves ==
  ASSUME HandoffInv, NEW q \in Host, NEW h \in Handoff, NEW to \in HostPlace,
         host' = [host EXCEPT ![q] = to],
         handoff' \in [Handoff -> HandoffRow], childTask' \in [Handoff -> ChildStage],
         \A g \in Handoff \ {h} : handoff'[g] = handoff[g] /\ childTask'[g] = childTask[g],
         parent' \in [Parent -> {"working", "input", "delegating", "succeeded", "cancelled"}],
         UNCHANGED <<admitted, receipt, turn, deadline>>, forgets' \in Nat,
         RowTrue(handoff'[h], childTask'[h], admitted[h], turn[h]),
         GoesOn(handoff[h], handoff'[h], childTask[h], childTask'[h]),
         handoff'[h].activated # handoff[h].activated => ApprovedFor(q, h),
         to # Free => /\ to.on = h
                      /\ HostKnows(to, handoff'[h], childTask'[h])
                      /\ to.step = "approved" => h \notin deadline
                      /\ to.step = "report" => ReportTrue(h, to.report)
  PROVE  HandoffInv'
<1>0. host \in [Host -> HostPlace] /\ host' \in [Host -> HostPlace]
  BY HandoffTypes
<1>1. HandoffTypeOK'
  BY <1>0, HandoffTypes DEF HandoffTypeOK, HostPlace, HostRow, ChildStage
<1>2. ASSUME NEW g \in Handoff
      PROVE  /\ RowTrue(handoff'[g], childTask'[g], admitted'[g], turn'[g])
             /\ GoesOn(handoff[g], handoff'[g], childTask[g], childTask'[g])
             /\ g \in deadline => g \in deadline'
             /\ handoff'[g].activated # handoff[g].activated => \E x \in Host : ApprovedFor(x, g)
             /\ admitted'[g] # admitted[g] => handoff[g].state = "active"
  <2>1. CASE g = h
    BY <2>1
  <2>2. CASE g # h
    <3>1. handoff'[g] = handoff[g] /\ childTask'[g] = childTask[g] /\ RowTrue(handoff[g], childTask[g], admitted[g], turn[g])
      BY <2>2 DEF HandoffInv
    <3>2. GoesOn(handoff[g], handoff[g], childTask[g], childTask[g])
      BY DEF GoesOn
    <3>3. QED
      BY <3>1, <3>2
  <2>3. QED
    BY <2>1, <2>2
<1>3. ASSUME NEW x \in Host
      PROVE  \/ host'[x] = host[x]
             \/ host'[x] = Free
             \/ /\ HostKnows(host'[x], handoff'[host'[x].on], childTask'[host'[x].on])
                /\ host'[x].step = "approved" => host'[x].on \notin deadline
                /\ host'[x].step = "report" => ReportTrue(host'[x].on, host'[x].report)
  <2>1. CASE x = q
    <3>1. host'[x] = to
      BY <1>0, <2>1
    <3>2. QED
      BY <3>1
  <2>2. CASE x # q
    BY <1>0, <2>2
  <2>3. QED
    BY <2>1, <2>2
<1>4. \A g \in Delegated : ReportTrue(g, receipt'[g])
  BY DEF HandoffInv
<1>5. QED
  BY <1>1, <1>2, <1>3, <1>4, HandoffsMove

\* A child or its admissions move, and no host.
LEMMA ChildMoves ==
  ASSUME HandoffInv, NEW h \in Handoff,
         handoff' \in [Handoff -> HandoffRow], childTask' \in [Handoff -> ChildStage],
         admitted' \in [Handoff -> 0..MaxModelCalls], turn' \in [Handoff -> {"idle", "checked", "calling"}],
         \A g \in Handoff \ {h} : /\ handoff'[g] = handoff[g] /\ childTask'[g] = childTask[g]
                                  /\ admitted'[g] = admitted[g] /\ turn'[g] = turn[g],
         UNCHANGED <<parent, receipt, deadline, host, forgets>>,
         RowTrue(handoff'[h], childTask'[h], admitted'[h], turn'[h]),
         GoesOn(handoff[h], handoff'[h], childTask[h], childTask'[h]),
         handoff'[h].activated = handoff[h].activated,
         admitted'[h] # admitted[h] => handoff[h].state = "active"
  PROVE  HandoffInv'
<1>1. HandoffTypeOK'
  BY DEF HandoffInv, HandoffTypeOK, ChildStage
<1>2. ASSUME NEW g \in Handoff
      PROVE  /\ RowTrue(handoff'[g], childTask'[g], admitted'[g], turn'[g])
             /\ GoesOn(handoff[g], handoff'[g], childTask[g], childTask'[g])
             /\ g \in deadline => g \in deadline'
             /\ handoff'[g].activated # handoff[g].activated => \E x \in Host : ApprovedFor(x, g)
             /\ admitted'[g] # admitted[g] => handoff[g].state = "active"
  <2>1. CASE g = h
    BY <2>1
  <2>2. CASE g # h
    <3>1. /\ handoff'[g] = handoff[g] /\ childTask'[g] = childTask[g] /\ admitted'[g] = admitted[g] /\ turn'[g] = turn[g]
          /\ RowTrue(handoff[g], childTask[g], admitted[g], turn[g])
      BY <2>2 DEF HandoffInv
    <3>2. GoesOn(handoff[g], handoff[g], childTask[g], childTask[g])
      BY DEF GoesOn
    <3>3. QED
      BY <3>1, <3>2
  <2>3. QED
    BY <2>1, <2>2
<1>3. \A x \in Host : host'[x] = host[x]
  OBVIOUS
<1>4. \A g \in Delegated : ReportTrue(g, receipt'[g])
  BY DEF HandoffInv
<1>5. QED
  BY <1>1, <1>2, <1>3, <1>4, HandoffsMove

\* Neither rows nor hosts move.
LEMMA ParentMoves ==
  ASSUME HandoffInv, UNCHANGED <<handoff, childTask, admitted, turn, host>>,
         parent' \in [Parent -> {"working", "input", "delegating", "succeeded", "cancelled"}],
         receipt' \in [Delegated -> {"none", "pending", "ended", "childless"}],
         deadline \subseteq deadline', deadline' \in SUBSET Handoff, forgets' \in Nat,
         \A h \in Delegated : ReportTrue(h, receipt'[h])
  PROVE  HandoffInv'
<1>1. HandoffTypeOK'
  BY DEF HandoffInv, HandoffTypeOK
<1>2. ASSUME NEW g \in Handoff
      PROVE  /\ RowTrue(handoff'[g], childTask'[g], admitted'[g], turn'[g])
             /\ GoesOn(handoff[g], handoff'[g], childTask[g], childTask'[g])
             /\ g \in deadline => g \in deadline'
             /\ handoff'[g].activated # handoff[g].activated => \E x \in Host : ApprovedFor(x, g)
             /\ admitted'[g] # admitted[g] => handoff[g].state = "active"
  BY DEF HandoffInv, GoesOn
<1>3. \A x \in Host : host'[x] = host[x]
  OBVIOUS
<1>4. QED
  BY <1>1, <1>2, <1>3, HandoffsMove

\* What somebody has read of a row and its child stays as true as it was then.
LEMMA ReadsTrue ==
  ASSUME NEW row \in HandoffRow, NEW next \in HandoffRow, NEW kid, NEW kid2, NEW count, NEW step,
         RowTrue(row, kid, count, step), GoesOn(row, next, kid, kid2)
  PROVE  SeenTrue(row, next, kid2)
  BY DEF RowTrue, GoesOn, SeenTrue, HandoffRow, Flag, Ended

LEMMA ReadsNow ==
  ASSUME NEW row \in HandoffRow, NEW kid, NEW count, NEW step, RowTrue(row, kid, count, step)
  PROVE  SeenTrue(row, row, kid)
  BY DEF RowTrue, SeenTrue, HandoffRow, Flag, Ended

\* What is written of a hand-off.
LEMMA AttachedRow ==
  ASSUME HandoffInv, NEW h \in Handoff, handoff[h].activated = "yes"
  PROVE  /\ Attached(h) \in HandoffRow /\ Attached(h).attached = "yes"
         /\ Attached(h).state = handoff[h].state /\ Attached(h).activated = "yes"
         /\ Attached(h).reconciled = handoff[h].reconciled
<1>1. handoff[h] \in HandoffRow
  BY HandoffTypes
<1>2. QED
  BY <1>1 DEF Attached, HandoffRow, Flag

LEMMA ClosedRow ==
  ASSUME HandoffInv, NEW h \in Handoff, NEW state \in ClosedStates \cup {"finished"}
  PROVE  /\ ClosedAs(h, state) \in HandoffRow
         /\ ClosedAs(h, state).activated = handoff[h].activated
         /\ ClosedAs(h, state).attached = handoff[h].attached
         /\ ClosedAs(h, state).reconciled = handoff[h].reconciled
         /\ ClosedAs(h, state).state = IF handoff[h].state \in Open THEN state ELSE handoff[h].state
<1>1. handoff[h] \in HandoffRow
  BY HandoffTypes
<1>2. QED
  BY <1>1 DEF ClosedAs, IsOpen, HandoffRow, Flag, Open, ClosedStates

LEMMA ReconciledRow ==
  ASSUME HandoffInv, NEW h \in Handoff, handoff[h].state \notin Open
  PROVE  /\ Reconciled(h) \in HandoffRow /\ Reconciled(h).reconciled = "yes"
         /\ Reconciled(h).state = handoff[h].state /\ Reconciled(h).activated = handoff[h].activated
         /\ Reconciled(h).attached = handoff[h].attached
<1>1. handoff[h] \in HandoffRow
  BY HandoffTypes
<1>2. QED
  BY <1>1 DEF Reconciled, HandoffRow, Flag

\* A host that is at work is at a step on a hand-off, with what it has brought about.
LEMMA HostAtWork ==
  ASSUME HandoffInv, NEW q \in Host, host[q] # Free
  PROVE  /\ host[q] \in HostRow /\ host[q].on \in Handoff /\ host[q].seen \in HandoffRow
         /\ HostKnows(host[q], handoff[host[q].on], childTask[host[q].on])
         /\ SeenTrue(host[q].seen, handoff[host[q].on], childTask[host[q].on])
  BY HandoffTypes DEF HandoffInv, HostPlace, HostRow, HostKnows

\* Where HostGoes takes a host.
LEMMA HostPlaces ==
  ASSUME NEW step \in HostStep, NEW h \in Handoff, NEW row \in HandoffRow
  PROVE  /\ [step |-> step, on |-> h, seen |-> row, report |-> "ended"] \in HostPlace
         /\ [step |-> step, on |-> h, seen |-> row, report |-> "ended"] \in HostRow
  BY DEF HostPlace, HostRow

\* A host moves, and nothing that hosts know of.
LEMMA HostWalks ==
  ASSUME HandoffInv, NEW q \in Host, NEW h \in Handoff, NEW to \in HostPlace,
         host' = [host EXCEPT ![q] = to],
         UNCHANGED <<handoff, childTask, admitted, receipt, turn, deadline>>,
         parent' \in [Parent -> {"working", "input", "delegating", "succeeded", "cancelled"}], forgets' \in Nat,
         to # Free => /\ to.on = h
                      /\ HostKnows(to, handoff[h], childTask[h])
                      /\ to.step = "approved" => h \notin deadline
                      /\ to.step = "report" => ReportTrue(h, to.report)
  PROVE  HandoffInv'
<1>1. handoff' \in [Handoff -> HandoffRow] /\ childTask' \in [Handoff -> ChildStage]
  BY HandoffTypes
<1>2. RowTrue(handoff'[h], childTask'[h], admitted[h], turn[h])
  BY DEF HandoffInv
<1>3. GoesOn(handoff[h], handoff'[h], childTask[h], childTask'[h])
  BY DEF GoesOn
<1>4. QED
  BY <1>1, <1>2, <1>3, HostMoves

\* A host turns to a hand-off whose row it reads now.
LEMMA HostReads ==
  ASSUME HandoffInv, NEW q \in Host, NEW h \in Handoff,
         NEW step \in {"checked", "look", "close", "children", "read"},
         HostGoes(q, step, h, handoff[h]), step \in {"close", "look"} => handoff[h].state # "absent",
         UNCHANGED <<handoff, childTask, admitted, receipt, turn, deadline, forgets>>,
         parent' \in [Parent -> {"working", "input", "delegating", "succeeded", "cancelled"}]
  PROVE  HandoffInv'
<1>1. handoff[h] \in HandoffRow /\ forgets \in Nat
  BY HandoffTypes
<1> DEFINE to == [step |-> step, on |-> h, seen |-> handoff[h], report |-> "ended"]
<1>2. to \in HostPlace
  BY <1>1, HostPlaces DEF HostStep
<1>3. SeenTrue(handoff[h], handoff[h], childTask[h])
  BY <1>1, ReadsNow DEF HandoffInv
<1>4. HostKnows(to, handoff[h], childTask[h])
  BY <1>3 DEF HostKnows
<1>5. host' = [host EXCEPT ![q] = to]
  BY DEF HostGoes
<1>6. to.on = h /\ to.step \notin {"approved", "report"}
  OBVIOUS
<1> HIDE DEF to
<1>7. QED
  BY <1>1, <1>2, <1>4, <1>5, <1>6, HostWalks

\* create of a hand-off (handoffs/service.js:60-84).
LEMMA CreateKeeps ==
  ASSUME HandoffInv, NEW q \in Host, Create(q)
  PROVE  HandoffInv'
<1> USE HandoffsAssumption
<1>0. host[q] # Free
  BY DEF Create, Insert, FindChild, Activate, Bind, MakeChild, Attach, At
<1> DEFINE h == host[q].on
<1>1. /\ h \in Handoff /\ host[q].seen \in HandoffRow
      /\ HostKnows(host[q], handoff[h], childTask[h]) /\ SeenTrue(host[q].seen, handoff[h], childTask[h])
  BY <1>0, HostAtWork
<1>2. /\ handoff \in [Handoff -> HandoffRow] /\ childTask \in [Handoff -> ChildStage] /\ forgets \in Nat
      /\ parent \in [Parent -> {"working", "input", "delegating", "succeeded", "cancelled"}]
  BY HandoffTypes
<1>3. handoff[h] \in HandoffRow /\ childTask[h] \in ChildStage /\ RowTrue(handoff[h], childTask[h], admitted[h], turn[h])
  BY <1>1, <1>2 DEF HandoffInv
<1>4. Free \in HostPlace
  BY DEF HostPlace
<1>5. ASSUME HostLeaves(q), UNCHANGED <<handoff, childTask, admitted, parent, receipt, turn, deadline, forgets>>
      PROVE  HandoffInv'
  BY <1>1, <1>2, <1>4, <1>5, HostWalks DEF HostLeaves
<1>6. ASSUME NEW step \in {"inserted", "approved", "bound"}, HostGoes(q, step, h, handoff[h]) \/ HostGoes(q, step, h, host[q].seen),
             step \in {"inserted", "approved"} => handoff[h].state # "absent",
             step = "bound" => handoff[h].activated = "yes",
             step = "approved" => h \notin deadline,
             UNCHANGED <<handoff, childTask, admitted, parent, receipt, turn, deadline, forgets>>
      PROVE  HandoffInv'
  <2>1. PICK seen \in HandoffRow : HostGoes(q, step, h, seen) /\ (seen = handoff[h] \/ seen = host[q].seen)
    BY <1>1, <1>3, <1>6
  <2> DEFINE to == [step |-> step, on |-> h, seen |-> seen, report |-> "ended"]
  <2>2. to \in HostPlace
    BY <1>1, HostPlaces DEF HostStep
  <2>3. SeenTrue(seen, handoff[h], childTask[h])
    BY <1>1, <1>3, <2>1, ReadsNow
  <2>4. HostKnows(to, handoff[h], childTask[h])
    BY <1>6, <2>3 DEF HostKnows
  <2>5. host' = [host EXCEPT ![q] = to]
    BY <2>1 DEF HostGoes
  <2>6. to.on = h /\ to.step = step /\ to # Free
    BY DEF Free
  <2> HIDE DEF to
  <2>7. QED
    BY <1>1, <1>2, <1>6, <2>2, <2>4, <2>5, <2>6, HostWalks
<1> HIDE DEF h
<1>7. CASE Insert(q)
  <2> DEFINE row == IF handoff[h].state = "absent" THEN [handoff[h] EXCEPT !.state = "prepared"] ELSE handoff[h]
  <2>1. CASE HostLeaves(q) /\ UNCHANGED handoff
    BY <1>5, <1>7, <2>1 DEF Insert
  <2>2. ASSUME Writes(h, row), IF row.state \in Open THEN HostGoes(q, "inserted", h, row) ELSE HostLeaves(q)
        PROVE  HandoffInv'
    <3>1. /\ row \in HandoffRow /\ row.activated = handoff[h].activated /\ row.attached = handoff[h].attached
          /\ row.reconciled = handoff[h].reconciled
          /\ row.state = IF handoff[h].state = "absent" THEN "prepared" ELSE handoff[h].state
      <4>1. handoff[h].state = "absent" => handoff[h].reconciled = "no"
        BY <1>3 DEF RowTrue
      <4>2. QED
        BY <1>3, <4>1 DEF HandoffRow, Open
    <3> HIDE DEF row
    <3>2. RowTrue(row, childTask[h], admitted[h], turn[h]) /\ GoesOn(handoff[h], row, childTask[h], childTask[h])
      BY <1>3, <3>1 DEF RowTrue, GoesOn, ClosedStates
    <3>3. handoff' \in [Handoff -> HandoffRow] /\ handoff'[h] = row /\ \A g \in Handoff \ {h} : handoff'[g] = handoff[g]
      BY <1>1, <1>2, <2>2, <3>1 DEF Writes
    <3>4. UNCHANGED <<admitted, parent, receipt, childTask, turn, deadline, forgets>>
      BY <1>7 DEF Insert
    <3>5. PICK to : /\ host' = [host EXCEPT ![q] = to]
                    /\ to = Free \/ (to = [step |-> "inserted", on |-> h, seen |-> row, report |-> "ended"] /\ row.state \in Open)
      BY <2>2 DEF HostGoes, HostLeaves
    <3>6. to \in HostPlace
      BY <1>1, <1>4, <3>1, <3>5, HostPlaces DEF HostStep
    <3>7. ASSUME to # Free PROVE to.on = h /\ to.step = "inserted" /\ HostKnows(to, row, childTask[h])
      <4>1. SeenTrue(row, row, childTask[h])
        BY <3>1, <3>2, ReadsNow
      <4>2. QED
        BY <3>5, <3>7, <4>1 DEF HostKnows, Open
    <3>8. QED
      BY <1>1, <1>2, <3>1, <3>2, <3>3, <3>4, <3>5, <3>6, <3>7, HostMoves
  <2>3. QED
    BY <1>7, <2>1, <2>2 DEF Insert, h
<1>8. CASE FindChild(q)
  <2>1. handoff[h].state # "absent"
    BY <1>1, <1>8 DEF FindChild, At, HostKnows, h
  <2>2. CASE HasChild(h) /\ host[q].seen.activated = "yes"
    <3>1. handoff[h].activated = "yes" /\ childTask[h] # "absent"
      BY <1>1, <2>2 DEF SeenTrue, HasChild
    <3>2. /\ Attached(h) \in HandoffRow /\ Attached(h).attached = "yes"
          /\ Attached(h).state = handoff[h].state /\ Attached(h).activated = "yes"
          /\ Attached(h).reconciled = handoff[h].reconciled
      BY <1>1, <3>1, AttachedRow
    <3>3. Writes(h, Attached(h)) /\ HostLeaves(q) /\ UNCHANGED <<admitted, parent, receipt, childTask, turn, deadline, forgets>>
      BY <1>8, <2>2 DEF FindChild, h
    <3>4. RowTrue(Attached(h), childTask[h], admitted[h], turn[h]) /\ GoesOn(handoff[h], Attached(h), childTask[h], childTask[h])
      BY <1>3, <3>1, <3>2 DEF RowTrue, GoesOn
    <3>5. handoff' \in [Handoff -> HandoffRow] /\ handoff'[h] = Attached(h) /\ \A g \in Handoff \ {h} : handoff'[g] = handoff[g]
      BY <1>1, <1>2, <3>2, <3>3 DEF Writes
    <3>6. QED
      BY <1>1, <1>2, <1>4, <3>1, <3>2, <3>3, <3>4, <3>5, HostMoves DEF HostLeaves
  <2>3. CASE HasChild(h) /\ host[q].seen.activated # "yes"
    BY <1>5, <1>8, <2>3 DEF FindChild, h
  <2>4. CASE ~HasChild(h) /\ Executable(h)
    <3>1. h \notin deadline /\ HostGoes(q, "approved", h, host[q].seen)
          /\ UNCHANGED <<handoff, childTask, admitted, parent, receipt, turn, deadline, forgets>>
      BY <1>8, <2>4 DEF FindChild, Executable, h
    <3>2. QED
      BY <1>6, <2>1, <3>1
  <2>5. CASE ~HasChild(h) /\ ~Executable(h)
    BY <1>5, <1>8, <2>5 DEF FindChild, h
  <2>6. QED
    BY <2>2, <2>3, <2>4, <2>5
<1>9. CASE Activate(q)
  <2> DEFINE row == [handoff[h] EXCEPT !.state = "active", !.activated = "yes"]
  <2>1. CASE ~Activable(h)
    BY <1>5, <1>9, <2>1 DEF Activate, h
  <2>2. CASE Activable(h)
    <3>1. /\ row \in HandoffRow /\ row.activated = "yes" /\ row.attached = handoff[h].attached
          /\ row.reconciled = handoff[h].reconciled /\ row.state = "active" /\ handoff[h].state \in Open
      BY <1>3, <2>2 DEF HandoffRow, Open, Flag, Activable, IsOpen
    <3>2. Writes(h, row) /\ HostGoes(q, "activated", h, row) /\ ApprovedFor(q, h)
          /\ UNCHANGED <<admitted, parent, receipt, childTask, turn, deadline, forgets>>
      BY <1>9, <2>2 DEF Activate, ApprovedFor, h
    <3> HIDE DEF row
    <3>3. RowTrue(row, childTask[h], admitted[h], turn[h]) /\ GoesOn(handoff[h], row, childTask[h], childTask[h])
      BY <1>3, <3>1 DEF RowTrue, GoesOn, ClosedStates, Open, HandoffRow
    <3>4. handoff' \in [Handoff -> HandoffRow] /\ handoff'[h] = row /\ \A g \in Handoff \ {h} : handoff'[g] = handoff[g]
      BY <1>1, <1>2, <3>1, <3>2 DEF Writes
    <3> DEFINE to == [step |-> "activated", on |-> h, seen |-> row, report |-> "ended"]
    <3>5. to \in HostPlace /\ host' = [host EXCEPT ![q] = to] /\ to.on = h /\ to.step = "activated"
      BY <1>1, <3>1, <3>2, HostPlaces DEF HostStep, HostGoes
    <3>6. HostKnows(to, row, childTask[h])
      <4>1. SeenTrue(row, row, childTask[h])
        BY <3>1, <3>3, ReadsNow
      <4>2. QED
        BY <3>1, <4>1 DEF HostKnows
    <3> HIDE DEF to
    <3>7. QED
      BY <1>1, <1>2, <3>1, <3>2, <3>3, <3>4, <3>5, <3>6, HostMoves
  <2>3. QED
    BY <2>1, <2>2
<1>10. CASE Bind(q)
  <2>1. CASE handoff[h].state = "active" /\ Executable(h)
    <3>1. handoff[h].activated = "yes"
      BY <1>3, <2>1 DEF HandoffRow
    <3>2. HostGoes(q, "bound", h, handoff[h]) /\ UNCHANGED <<handoff, childTask, admitted, parent, receipt, turn, deadline, forgets>>
      BY <1>10, <2>1 DEF Bind, h
    <3>3. QED
      BY <1>6, <3>1, <3>2
  <2>2. CASE ~(handoff[h].state = "active" /\ Executable(h))
    BY <1>5, <1>10, <2>2 DEF Bind, h
  <2>3. QED
    BY <2>1, <2>2
<1>11. CASE MakeChild(q)
  <2> DEFINE kid == IF childTask[h] = "absent" THEN "live" ELSE childTask[h]
  <2>1. handoff[h].activated = "yes"
    BY <1>1, <1>11 DEF MakeChild, At, HostKnows, h
  <2>2. kid \in ChildStage /\ kid # "absent" /\ (childTask[h] # "absent" => kid = childTask[h])
        /\ (childTask[h] = "absent" => kid = "live")
    BY <1>3 DEF ChildStage
  <2>3. /\ childTask' = [childTask EXCEPT ![h] = kid] /\ HostGoes(q, "made", h, handoff[h])
        /\ UNCHANGED <<handoff, admitted, parent, receipt, turn, deadline, forgets>>
    BY <1>11 DEF MakeChild, h
  <2> HIDE DEF kid
  <2>4. childTask' \in [Handoff -> ChildStage] /\ childTask'[h] = kid /\ \A g \in Handoff \ {h} : childTask'[g] = childTask[g]
    BY <1>1, <1>2, <2>2, <2>3
  <2>5. RowTrue(handoff[h], kid, admitted[h], turn[h]) /\ GoesOn(handoff[h], handoff[h], childTask[h], kid)
    BY <1>3, <2>1, <2>2 DEF RowTrue, GoesOn, Ended
  <2> DEFINE to == [step |-> "made", on |-> h, seen |-> handoff[h], report |-> "ended"]
  <2>6. to \in HostPlace /\ host' = [host EXCEPT ![q] = to] /\ to.on = h /\ to.step = "made"
    BY <1>1, <1>3, <2>3, HostPlaces DEF HostStep, HostGoes
  <2>7. HostKnows(to, handoff[h], kid)
    <3>1. SeenTrue(handoff[h], handoff[h], kid)
      BY <1>3, <2>5, ReadsNow
    <3>2. QED
      BY <2>1, <2>2, <3>1 DEF HostKnows
  <2> HIDE DEF to
  <2>8. QED
    BY <1>1, <1>2, <2>3, <2>4, <2>5, <2>6, <2>7, HostMoves
<1>12. CASE Attach(q)
  <2>1. handoff[h].activated = "yes" /\ childTask[h] # "absent"
    BY <1>1, <1>12 DEF Attach, At, HostKnows, h
  <2>2. /\ Attached(h) \in HandoffRow /\ Attached(h).attached = "yes"
        /\ Attached(h).state = handoff[h].state /\ Attached(h).activated = "yes"
        /\ Attached(h).reconciled = handoff[h].reconciled
    BY <1>1, <2>1, AttachedRow
  <2>3. Writes(h, Attached(h)) /\ HostLeaves(q) /\ UNCHANGED <<admitted, parent, receipt, childTask, turn, deadline, forgets>>
    BY <1>12 DEF Attach, h
  <2>4. RowTrue(Attached(h), childTask[h], admitted[h], turn[h]) /\ GoesOn(handoff[h], Attached(h), childTask[h], childTask[h])
    BY <1>3, <2>1, <2>2 DEF RowTrue, GoesOn
  <2>5. handoff' \in [Handoff -> HandoffRow] /\ handoff'[h] = Attached(h) /\ \A g \in Handoff \ {h} : handoff'[g] = handoff[g]
    BY <1>1, <1>2, <2>2, <2>3 DEF Writes
  <2>6. QED
    BY <1>1, <1>2, <1>4, <2>1, <2>2, <2>3, <2>4, <2>5, HostMoves DEF HostLeaves
<1>13. QED
  BY <1>7, <1>8, <1>9, <1>10, <1>11, <1>12 DEF Create

\* close and reconcile of a hand-off (handoffs/service.js:86-100, 135-147).
LEMMA ReconcileKeeps ==
  ASSUME HandoffInv, NEW q \in Host, ReconcileHandoff(q)
  PROVE  HandoffInv'
<1> USE HandoffsAssumption
<1>0. host[q] # Free
  BY DEF ReconcileHandoff, Close, Look, Decide, CancelChild, Mark, At
<1> DEFINE h == host[q].on
           seen == host[q].seen
<1>1. /\ h \in Handoff /\ seen \in HandoffRow
      /\ HostKnows(host[q], handoff[h], childTask[h]) /\ SeenTrue(seen, handoff[h], childTask[h])
  BY <1>0, HostAtWork
<1>2. /\ handoff \in [Handoff -> HandoffRow] /\ childTask \in [Handoff -> ChildStage] /\ forgets \in Nat
      /\ parent \in [Parent -> {"working", "input", "delegating", "succeeded", "cancelled"}]
  BY HandoffTypes
<1>3. handoff[h] \in HandoffRow /\ childTask[h] \in ChildStage /\ RowTrue(handoff[h], childTask[h], admitted[h], turn[h])
  BY <1>1, <1>2 DEF HandoffInv
<1>4. Free \in HostPlace
  BY DEF HostPlace
<1>5. UNCHANGED <<admitted, parent, receipt, turn, deadline, forgets>>
  BY DEF ReconcileHandoff, Close, Look, Decide, CancelChild, Mark
\* The host writes a row, or leaves it, and goes on with one it has in hand.
<1>6. ASSUME NEW next \in HandoffRow, NEW kid \in ChildStage,
             handoff' = [handoff EXCEPT ![h] = next] \/ (UNCHANGED handoff /\ next = handoff[h]),
             childTask' = [childTask EXCEPT ![h] = kid] \/ (UNCHANGED childTask /\ kid = childTask[h]),
             RowTrue(next, kid, admitted[h], turn[h]), GoesOn(handoff[h], next, childTask[h], kid),
             next.activated = handoff[h].activated,
             NEW to \in HostPlace, host' = [host EXCEPT ![q] = to],
             to # Free => to.on = h /\ HostKnows(to, next, kid) /\ to.step \notin {"approved", "report"}
      PROVE  HandoffInv'
  <2>1. handoff' \in [Handoff -> HandoffRow] /\ handoff'[h] = next /\ \A g \in Handoff \ {h} : handoff'[g] = handoff[g]
    BY <1>1, <1>2, <1>6
  <2>2. childTask' \in [Handoff -> ChildStage] /\ childTask'[h] = kid /\ \A g \in Handoff \ {h} : childTask'[g] = childTask[g]
    BY <1>1, <1>2, <1>6
  <2>3. QED
    BY <1>1, <1>2, <1>5, <1>6, <2>1, <2>2, HostMoves
\* The same, of what HostGoes and HostLeaves make of the host.
<1>7. ASSUME NEW next \in HandoffRow, NEW kid \in ChildStage,
             handoff' = [handoff EXCEPT ![h] = next] \/ (UNCHANGED handoff /\ next = handoff[h]),
             childTask' = [childTask EXCEPT ![h] = kid] \/ (UNCHANGED childTask /\ kid = childTask[h]),
             RowTrue(next, kid, admitted[h], turn[h]), GoesOn(handoff[h], next, childTask[h], kid),
             next.activated = handoff[h].activated,
             NEW step \in {"look", "mark", "decide", "cancel"}, NEW row \in HandoffRow,
             \/ HostLeaves(q)
             \/ /\ HostGoes(q, step, h, row) /\ SeenTrue(row, next, kid)
                /\ step # "look" => row.state # "absent"
                /\ step = "cancel" => row.state \in ClosedStates /\ row.attached = "yes"
                /\ step = "mark" /\ row.state \in Open => next.attached = "yes" /\ kid \in Ended
                /\ step = "mark" /\ row.state \notin Open => kid \in Ended \/ row.activated = "no"
                /\ row.state # "absent"
      PROVE  HandoffInv'
  <2>1. CASE HostLeaves(q)
    BY <1>4, <1>6, <1>7, <2>1 DEF HostLeaves
  <2>2. CASE ~HostLeaves(q)
    <3> DEFINE to == [step |-> step, on |-> h, seen |-> row, report |-> "ended"]
    <3>1. to \in HostPlace /\ host' = [host EXCEPT ![q] = to] /\ to.on = h /\ to.step = step
      BY <1>1, <1>7, <2>2, HostPlaces DEF HostStep, HostGoes
    <3>2. HostKnows(to, next, kid)
      BY <1>7, <2>2 DEF HostKnows
    <3> HIDE DEF to
    <3>3. QED
      BY <1>6, <1>7, <3>1, <3>2
  <2>3. QED
    BY <2>1, <2>2
<1>8. GoesOn(handoff[h], handoff[h], childTask[h], childTask[h])
  BY DEF GoesOn
<1> HIDE DEF h, seen
<1>9. CASE Close(q)
  <2> DEFINE row == ClosedAs(h, "cancelled")
  <2>1. /\ row \in HandoffRow /\ row.activated = handoff[h].activated /\ row.attached = handoff[h].attached
        /\ row.reconciled = handoff[h].reconciled
        /\ row.state = IF handoff[h].state \in Open THEN "cancelled" ELSE handoff[h].state
    BY <1>1, ClosedRow DEF ClosedStates
  <2>2. handoff[h].state # "absent"
    BY <1>1, <1>9 DEF Close, At, HostKnows, SeenTrue, h, seen
  <2>3. handoff' = [handoff EXCEPT ![h] = row] /\ HostGoes(q, "look", h, row) /\ UNCHANGED childTask
    BY <1>9 DEF Close, Writes, h
  <2> HIDE DEF row
  <2>4. RowTrue(row, childTask[h], admitted[h], turn[h]) /\ GoesOn(handoff[h], row, childTask[h], childTask[h])
    BY <1>3, <2>1 DEF RowTrue, GoesOn, ClosedStates, Open
  <2>5. SeenTrue(row, row, childTask[h])
    BY <2>1, <2>4, ReadsNow
  <2>6. row.state # "absent"
    BY <2>1, <2>2
  <2>7. QED
    BY <1>3, <1>7, <2>1, <2>3, <2>4, <2>5, <2>6
<1>10. CASE Look(q)
  <2> DEFINE found == seen.attached = "no" /\ seen.activated = "yes" /\ HasChild(h)
             row == IF found THEN Attached(h) ELSE seen
             step == IF row.attached = "yes" /\ childTask[h] \in Ended THEN "mark" ELSE "decide"
  <2>1. /\ IF found THEN Writes(h, row) ELSE UNCHANGED handoff
        /\ HostGoes(q, step, h, row) /\ UNCHANGED childTask
    BY <1>10 DEF Look, h, seen
  <2>2. seen.state # "absent" /\ handoff[h].state # "absent"
    BY <1>1, <1>10 DEF Look, At, HostKnows, SeenTrue, h, seen
  <2>3. CASE found
    <3>1. handoff[h].activated = "yes" /\ childTask[h] # "absent"
      BY <1>1, <2>3 DEF SeenTrue, HasChild
    <3>2. /\ row \in HandoffRow /\ row.attached = "yes"
          /\ row.state = handoff[h].state /\ row.activated = "yes"
          /\ row.reconciled = handoff[h].reconciled
      BY <1>1, <2>3, <3>1, AttachedRow
    <3>3. step \in {"mark", "decide"} /\ (step = "mark" => childTask[h] \in Ended)
      OBVIOUS
    <3>4. handoff' = [handoff EXCEPT ![h] = row]
      BY <2>1, <2>3 DEF Writes
    <3> HIDE DEF row, found, step
    <3>5. RowTrue(row, childTask[h], admitted[h], turn[h]) /\ GoesOn(handoff[h], row, childTask[h], childTask[h])
      BY <1>3, <3>1, <3>2 DEF RowTrue, GoesOn
    <3>6. SeenTrue(row, row, childTask[h])
      BY <3>2, <3>5, ReadsNow
    <3>7. QED
      BY <1>3, <1>7, <2>1, <2>2, <3>1, <3>2, <3>3, <3>4, <3>5, <3>6
  <2>4. CASE ~found
    <3>1. row = seen /\ UNCHANGED handoff
      BY <2>1, <2>4
    <3>2. step \in {"mark", "decide"} /\ (step = "mark" => seen.attached = "yes" /\ childTask[h] \in Ended)
      BY <3>1
    <3> HIDE DEF row, found, step
    <3>3. step = "mark" => handoff[h].attached = "yes"
      BY <1>1, <3>2 DEF SeenTrue
    <3>4. QED
      BY <1>1, <1>3, <1>7, <1>8, <2>1, <2>2, <3>1, <3>2, <3>3
  <2>5. QED
    BY <2>3, <2>4
<1>11. CASE Decide(q)
  <2> DEFINE over == IF parent[ParentOf[h]] \in Ended THEN "cancelled" ELSE "expired"
             closes == seen.state \in Open /\ (over = "cancelled" \/ h \in deadline)
             row == IF closes THEN ClosedAs(h, over) ELSE seen
  <2>1. /\ IF row # seen /\ row # handoff[h] THEN Writes(h, row) ELSE UNCHANGED handoff
        /\ IF row.state \notin ClosedStates THEN HostLeaves(q)
           ELSE IF seen.attached = "yes" THEN HostGoes(q, "cancel", h, row)
           ELSE IF row.activated = "no" THEN HostGoes(q, "mark", h, row) ELSE HostLeaves(q)
        /\ UNCHANGED childTask
    BY <1>11 DEF Decide, h, seen
  <2>2. over \in ClosedStates
    BY DEF ClosedStates
  <2>3. CASE closes
    <3>1. row = ClosedAs(h, over) /\ seen.state \in Open
      BY <2>3
    <3>2. /\ row \in HandoffRow /\ row.activated = handoff[h].activated /\ row.attached = handoff[h].attached
          /\ row.reconciled = handoff[h].reconciled
          /\ row.state = IF handoff[h].state \in Open THEN over ELSE handoff[h].state
      BY <1>1, <2>2, <3>1, ClosedRow
    <3> HIDE DEF row, closes, over
    <3>3. row # seen
      BY <2>2, <3>1, <3>2 DEF Open, ClosedStates
    <3>4. handoff' = [handoff EXCEPT ![h] = row] \/ (UNCHANGED handoff /\ row = handoff[h])
      BY <2>1, <3>3 DEF Writes
    <3>5. RowTrue(row, childTask[h], admitted[h], turn[h]) /\ GoesOn(handoff[h], row, childTask[h], childTask[h])
      BY <1>3, <2>2, <3>2 DEF RowTrue, GoesOn, ClosedStates, Open
    <3>6. SeenTrue(row, row, childTask[h])
      BY <3>2, <3>5, ReadsNow
    <3>7. row.state \in ClosedStates => row.state # "absent" /\ row.state \notin Open
      BY DEF ClosedStates, Open
    <3>8. seen.attached = "yes" => row.attached = "yes"
      BY <1>1, <3>2 DEF SeenTrue
    <3>9. CASE HostGoes(q, "cancel", h, row) /\ row.state \in ClosedStates /\ seen.attached = "yes"
      BY <1>3, <1>7, <2>1, <3>2, <3>4, <3>5, <3>6, <3>7, <3>8, <3>9
    <3>10. CASE HostGoes(q, "mark", h, row) /\ row.state \in ClosedStates /\ row.activated = "no"
      BY <1>3, <1>7, <2>1, <3>2, <3>4, <3>5, <3>6, <3>7, <3>10
    <3>11. CASE HostLeaves(q)
      BY <1>3, <1>7, <2>1, <3>2, <3>4, <3>5, <3>11
    <3>12. QED
      BY <2>1, <3>9, <3>10, <3>11
  <2>4. CASE ~closes
    <3>1. row = seen /\ UNCHANGED handoff /\ UNCHANGED childTask
      BY <2>1, <2>4
    <3>2. /\ IF seen.state \notin ClosedStates THEN HostLeaves(q)
             ELSE IF seen.attached = "yes" THEN HostGoes(q, "cancel", h, seen)
             ELSE IF seen.activated = "no" THEN HostGoes(q, "mark", h, seen) ELSE HostLeaves(q)
      BY <2>1, <3>1
    <3> HIDE DEF row, closes, over
    <3>3. seen.state \in ClosedStates => seen.state # "absent" /\ seen.state \notin Open
      BY DEF ClosedStates, Open
    <3>4. CASE HostGoes(q, "cancel", h, seen) /\ seen.state \in ClosedStates /\ seen.attached = "yes"
      BY <1>1, <1>3, <1>7, <1>8, <3>1, <3>3, <3>4
    <3>5. CASE HostGoes(q, "mark", h, seen) /\ seen.state \in ClosedStates /\ seen.activated = "no"
      BY <1>1, <1>3, <1>7, <1>8, <3>1, <3>3, <3>5
    <3>6. CASE HostLeaves(q)
      BY <1>1, <1>3, <1>7, <1>8, <3>1, <3>6
    <3>7. QED
      BY <3>2, <3>4, <3>5, <3>6
  <2>5. QED
    BY <2>3, <2>4
<1>12. CASE CancelChild(q)
  <2> DEFINE kid == IF childTask[h] = "live" THEN "cancelled" ELSE childTask[h]
  <2>1. /\ childTask' = [childTask EXCEPT ![h] = kid] /\ UNCHANGED handoff
        /\ IF childTask[h] = "succeeded" THEN HostLeaves(q) ELSE HostGoes(q, "mark", h, seen)
    BY <1>12 DEF CancelChild, h, seen
  <2>2. seen.state \in ClosedStates /\ seen.attached = "yes" /\ handoff[h].attached = "yes"
    BY <1>1, <1>12 DEF CancelChild, At, HostKnows, SeenTrue, h, seen
  <2>3. childTask[h] # "absent"
    BY <1>3, <2>2 DEF RowTrue
  <2>4. kid \in ChildStage /\ kid \in Ended /\ (childTask[h] \in Ended => kid = childTask[h])
        /\ (kid = "succeeded" => childTask[h] = "succeeded")
    BY <1>3, <2>3 DEF ChildStage, Ended
  <2> HIDE DEF kid
  <2>5. RowTrue(handoff[h], kid, admitted[h], turn[h]) /\ GoesOn(handoff[h], handoff[h], childTask[h], kid)
    <3>1. handoff[h].activated # "no"
      BY <1>3, <2>3 DEF RowTrue
    <3>2. QED
      BY <1>3, <2>3, <2>4, <3>1 DEF RowTrue, GoesOn, Ended
  <2>6. SeenTrue(seen, handoff[h], kid)
    BY <1>1, <2>4 DEF SeenTrue
  <2>7. seen.state # "absent" /\ seen.state \notin Open
    BY <2>2 DEF ClosedStates, Open
  <2>8. CASE HostLeaves(q)
    BY <1>1, <1>3, <1>7, <2>1, <2>4, <2>5, <2>8
  <2>9. CASE HostGoes(q, "mark", h, seen)
    BY <1>1, <1>3, <1>7, <2>1, <2>4, <2>5, <2>6, <2>7, <2>9
  <2>10. QED
    BY <2>1, <2>8, <2>9
<1>13. CASE Mark(q)
  <2>1. /\ Writes(h, IF seen.state \in Open THEN ClosedAs(h, "finished") ELSE Reconciled(h))
        /\ HostLeaves(q) /\ UNCHANGED childTask
    BY <1>13 DEF Mark, h, seen
  <2>2. /\ seen.state # "absent"
        /\ seen.state \in Open => handoff[h].attached = "yes" /\ childTask[h] \in Ended
        /\ seen.state \notin Open => childTask[h] \in Ended \/ seen.activated = "no"
    BY <1>1, <1>13 DEF Mark, At, HostKnows, h, seen
  <2>3. CASE seen.state \in Open
    <3> DEFINE row == ClosedAs(h, "finished")
    <3>1. /\ row \in HandoffRow /\ row.activated = handoff[h].activated /\ row.attached = handoff[h].attached
          /\ row.reconciled = handoff[h].reconciled
          /\ row.state = IF handoff[h].state \in Open THEN "finished" ELSE handoff[h].state
      BY <1>1, ClosedRow
    <3>2. handoff' = [handoff EXCEPT ![h] = row]
      BY <2>1, <2>3 DEF Writes
    <3> HIDE DEF row
    <3>3. RowTrue(row, childTask[h], admitted[h], turn[h]) /\ GoesOn(handoff[h], row, childTask[h], childTask[h])
      BY <1>3, <2>2, <2>3, <3>1 DEF RowTrue, GoesOn, ClosedStates, Open
    <3>4. QED
      BY <1>3, <1>7, <2>1, <3>1, <3>2, <3>3
  <2>4. CASE seen.state \notin Open
    <3> DEFINE row == Reconciled(h)
    <3>1. handoff[h].state = seen.state /\ handoff[h].activated = seen.activated
      <4>1. seen.state \in ClosedStates \cup {"finished"}
        BY <1>1, <2>2, <2>4 DEF HandoffRow, Open, ClosedStates
      <4>2. QED
        BY <1>1, <4>1 DEF SeenTrue
    <3>2. /\ row \in HandoffRow /\ row.reconciled = "yes"
          /\ row.state = handoff[h].state /\ row.activated = handoff[h].activated
          /\ row.attached = handoff[h].attached
      BY <1>1, <2>4, <3>1, ReconciledRow
    <3>3. handoff' = [handoff EXCEPT ![h] = row]
      BY <2>1, <2>4 DEF Writes
    <3> HIDE DEF row
    <3>4. RowTrue(row, childTask[h], admitted[h], turn[h]) /\ GoesOn(handoff[h], row, childTask[h], childTask[h])
      BY <1>3, <2>2, <2>4, <3>1, <3>2 DEF RowTrue, GoesOn
    <3>5. QED
      BY <1>3, <1>7, <2>1, <3>2, <3>3, <3>4
  <2>5. QED
    BY <2>3, <2>4
<1>14. QED
  BY <1>9, <1>10, <1>11, <1>12, <1>13 DEF ReconcileHandoff

\* A parent and what it is told (agent/delegation.js:19-37, handoffs/service.js:102-131).
LEMMA ParentKeeps ==
  ASSUME HandoffInv, NEW q \in Host,
         \/ Resume(q) \/ CancelChildren(q) \/ Receive(q) \/ TellHandoff(q) \/ EndReading(q) \/ Forget(q)
  PROVE  HandoffInv'
<1> USE HandoffsAssumption
<1>0. host[q] # Free
  BY DEF Resume, CancelChildren, Receive, TellHandoff, EndReading, Forget, At
<1> DEFINE h == host[q].on
           seen == host[q].seen
<1>1. /\ h \in Handoff /\ seen \in HandoffRow /\ host[q] \in HostRow
      /\ HostKnows(host[q], handoff[h], childTask[h]) /\ SeenTrue(seen, handoff[h], childTask[h])
  BY <1>0, HostAtWork
<1>2. /\ handoff \in [Handoff -> HandoffRow] /\ childTask \in [Handoff -> ChildStage] /\ forgets \in Nat
      /\ parent \in [Parent -> {"working", "input", "delegating", "succeeded", "cancelled"}]
      /\ host \in [Host -> HostPlace]
  BY HandoffTypes
<1>3. handoff[h] \in HandoffRow /\ childTask[h] \in ChildStage /\ RowTrue(handoff[h], childTask[h], admitted[h], turn[h])
  BY <1>1, <1>2 DEF HandoffInv
<1>4. Free \in HostPlace
  BY DEF HostPlace
<1>5. ASSUME HostLeaves(q), UNCHANGED <<handoff, childTask, admitted, receipt, turn, deadline>>, forgets' \in Nat,
             parent' \in [Parent -> {"working", "input", "delegating", "succeeded", "cancelled"}]
      PROVE  HandoffInv'
  BY <1>1, <1>4, <1>5, HostWalks DEF HostLeaves
<1>6. CASE Resume(q)
  <2>1. parent' \in [Parent -> {"working", "input", "delegating", "succeeded", "cancelled"}]
    BY <1>2, <1>6 DEF Resume
  <2>2. QED
    BY <1>2, <1>5, <1>6, <2>1 DEF Resume
<1>7. CASE CancelChildren(q)
  <2>1. CASE HostLeaves(q)
    BY <1>2, <1>5, <1>7, <2>1 DEF CancelChildren
  <2>2. CASE \E g \in {g \in Handoff : ParentOf[g] = ParentOf[host[q].on] /\ IsOpen(g)} : HostGoes(q, "close", g, handoff[g])
    <3>1. PICK g \in Handoff : IsOpen(g) /\ HostGoes(q, "close", g, handoff[g])
      BY <2>2
    <3>2. handoff[g].state # "absent"
      BY <3>1 DEF IsOpen, Open
    <3>3. UNCHANGED <<handoff, admitted, parent, receipt, childTask, turn, deadline, forgets>>
      BY <1>7 DEF CancelChildren
    <3>4. QED
      BY <1>2, <3>1, <3>2, <3>3, HostReads
  <2>3. QED
    BY <1>7, <2>1, <2>2 DEF CancelChildren
<1>8. CASE Receive(q)
  <2>1. h \in Delegated /\ host[q].report \in {"ended", "childless"} /\ ReportTrue(h, host[q].report)
    BY <1>1, <1>8 DEF Receive, At, HostKnows, HandoffInv
  <2>2. CASE ~ParentWaits(h)
    BY <1>2, <1>5, <1>8, <2>2 DEF Receive
  <2>3. CASE ParentWaits(h)
    <3>1. /\ receipt' = [receipt EXCEPT ![h] = host[q].report] /\ parent' = [parent EXCEPT ![ParentOf[h]] = "working"]
          /\ host' = [host EXCEPT ![q] = Free] /\ UNCHANGED <<handoff, admitted, childTask, turn, deadline, forgets>>
      BY <1>8, <2>3 DEF Receive, HostLeaves
    <3>2. receipt' \in [Delegated -> {"none", "pending", "ended", "childless"}]
      BY <2>1, <3>1, HandoffTypes
    <3>3. \A g \in Delegated : ReportTrue(g, receipt'[g])
      <4>1. receipt \in [Delegated -> {"none", "pending", "ended", "childless"}] /\ \A g \in Delegated : ReportTrue(g, receipt[g])
        BY HandoffTypes DEF HandoffInv
      <4>2. ASSUME NEW g \in Delegated PROVE ReportTrue(g, receipt'[g])
        <5>1. CASE g = h
          BY <2>1, <3>1, <4>1, <5>1
        <5>2. CASE g # h
          BY <3>1, <4>1, <5>2
        <5>3. QED
          BY <5>1, <5>2
      <4>3. QED
        BY <4>2
    <3>4. HandoffTypeOK'
      <4>1. parent' \in [Parent -> {"working", "input", "delegating", "succeeded", "cancelled"}]
        BY <1>2, <3>1
      <4>2. host' \in [Host -> HostPlace]
        BY <1>2, <1>4, <3>1
      <4>3. QED
        BY <3>1, <3>2, <4>1, <4>2, HandoffTypes DEF HandoffTypeOK, HostPlace, HostRow, ChildStage
    <3>5. ASSUME NEW g \in Handoff
          PROVE  /\ RowTrue(handoff'[g], childTask'[g], admitted'[g], turn'[g])
                 /\ GoesOn(handoff[g], handoff'[g], childTask[g], childTask'[g])
                 /\ g \in deadline => g \in deadline'
                 /\ handoff'[g].activated # handoff[g].activated => \E x \in Host : ApprovedFor(x, g)
                 /\ admitted'[g] # admitted[g] => handoff[g].state = "active"
      BY <3>1 DEF HandoffInv, GoesOn
    <3>6. \A x \in Host : host'[x] = host[x] \/ host'[x] = Free
      BY <1>2, <3>1
    <3>7. QED
      BY <3>3, <3>4, <3>5, <3>6, HandoffsMove
  <2>4. QED
    BY <2>2, <2>3
<1>9. CASE TellHandoff(q)
  <2> DEFINE said == IF seen.attached = "yes" THEN childTask[h] ELSE "none"
             to == [host[q] EXCEPT !.step = "told", !.report = said]
  <2>1. host' = [host EXCEPT ![q] = to] /\ UNCHANGED <<handoff, admitted, parent, receipt, childTask, turn, deadline, forgets>>
    BY <1>9 DEF TellHandoff
  <2>2. seen.attached = "yes" => childTask[h] # "absent"
    BY <1>1, <1>3 DEF SeenTrue, RowTrue
  <2>3. /\ said \in {"none", "live"} \cup Ended
        /\ said = "live" => seen.attached = "yes" /\ childTask[h] = "live"
        /\ said = "succeeded" => childTask[h] = "succeeded"
        /\ seen.attached = "yes" => said = childTask[h]
    BY <1>3, <2>2 DEF ChildStage, Ended
  <2> HIDE DEF said
  <2>4. to \in HostRow /\ to.step = "told" /\ to.on = h /\ to.seen = seen /\ to.report = said
    BY <1>1, <2>3 DEF HostRow, HostStep
  <2> HIDE DEF to
  <2>5. HostKnows(to, handoff[h], childTask[h])
    <3>1. seen.attached = "yes" => seen.activated = "yes"
      BY <1>1 DEF HandoffRow
    <3> HIDE DEF h, seen
    <3>2. seen.state = "finished" => said \in Ended
      BY <1>1, <2>3 DEF SeenTrue
    <3>3. seen.reconciled = "yes" => said # "live"
      BY <1>1, <2>3, <3>1 DEF SeenTrue, Ended
    <3>4. QED
      BY <1>1, <2>3, <2>4, <3>2, <3>3 DEF HostKnows
  <2>6. to \in HostPlace
    BY <2>4 DEF HostPlace
  <2>7. QED
    BY <1>1, <1>2, <2>1, <2>4, <2>5, <2>6, HostWalks
<1>10. CASE EndReading(q)
  BY <1>2, <1>5, <1>10 DEF EndReading
<1>11. CASE Forget(q)
  BY <1>2, <1>5, <1>11 DEF Forget
<1>12. QED
  BY <1>6, <1>7, <1>8, <1>9, <1>10, <1>11

\* The last open hand-offs of a parent that goes on are finished with it (handoffs/service.js:30-42).
LEMMA CheckResumeKeeps ==
  ASSUME HandoffInv, NEW q \in Host, NEW h \in Handoff, CheckResume(q, h)
  PROVE  HandoffInv'
<1> USE HandoffsAssumption
<1> DEFINE open == {g \in Handoff : ParentOf[g] = ParentOf[h] /\ IsOpen(g)}
           to == [step |-> "resume", on |-> h, seen |-> handoff[h], report |-> "ended"]
<1>1. /\ handoff \in [Handoff -> HandoffRow] /\ childTask \in [Handoff -> ChildStage] /\ host \in [Host -> HostPlace]
  BY HandoffTypes
<1>2. /\ \A g \in open : handoff[g].attached = "yes" /\ childTask[g] \in Ended
      /\ handoff' = [g \in Handoff |-> IF g \in open THEN ClosedAs(g, "finished") ELSE handoff[g]]
      /\ host' = [host EXCEPT ![q] = to]
      /\ UNCHANGED <<admitted, parent, receipt, childTask, turn, deadline, forgets>>
  BY DEF CheckResume, HostGoes
<1>3. ASSUME NEW g \in Handoff
      PROVE  /\ handoff'[g] \in HandoffRow /\ handoff'[g].activated = handoff[g].activated
             /\ RowTrue(handoff'[g], childTask[g], admitted[g], turn[g])
             /\ GoesOn(handoff[g], handoff'[g], childTask[g], childTask[g])
  <2>1. handoff[g] \in HandoffRow /\ RowTrue(handoff[g], childTask[g], admitted[g], turn[g])
    BY <1>1 DEF HandoffInv
  <2>2. CASE g \in open
    <3> DEFINE row == ClosedAs(g, "finished")
    <3>1. /\ row \in HandoffRow /\ row.activated = handoff[g].activated /\ row.attached = handoff[g].attached
          /\ row.reconciled = handoff[g].reconciled /\ row.state = "finished" /\ handoff[g].state \in Open
      BY <2>2, ClosedRow DEF IsOpen
    <3>2. handoff'[g] = row /\ handoff[g].attached = "yes" /\ childTask[g] \in Ended
      BY <1>2, <2>2
    <3> HIDE DEF row, open
    <3>3. QED
      BY <2>1, <3>1, <3>2 DEF RowTrue, GoesOn, ClosedStates, Open
  <2>3. CASE g \notin open
    BY <1>2, <2>1, <2>3 DEF GoesOn
  <2>4. QED
    BY <2>2, <2>3
<1>4. to \in HostPlace /\ to.on = h /\ to.step = "resume"
  BY <1>1, HostPlaces DEF HostStep
<1>5. HostKnows(to, handoff'[h], childTask[h])
  <2>1. SeenTrue(handoff[h], handoff'[h], childTask[h])
    BY <1>1, <1>3, ReadsTrue DEF HandoffInv
  <2>2. QED
    BY <2>1 DEF HostKnows
<1> HIDE DEF open, to
<1>6. HandoffTypeOK'
  <2>1. handoff' \in [Handoff -> HandoffRow]
    BY <1>2, <1>3
  <2>2. host' \in [Host -> HostPlace]
    BY <1>1, <1>2, <1>4
  <2>3. QED
    BY <1>2, <2>1, <2>2, HandoffTypes DEF HandoffTypeOK, HostPlace, HostRow, ChildStage
<1>7. ASSUME NEW x \in Host
      PROVE  \/ host'[x] = host[x]
             \/ host'[x] = Free
             \/ /\ HostKnows(host'[x], handoff'[host'[x].on], childTask'[host'[x].on])
                /\ host'[x].step = "approved" => host'[x].on \notin deadline
                /\ host'[x].step = "report" => ReportTrue(host'[x].on, host'[x].report)
  <2>1. CASE x = q
    <3>1. host'[x] = to /\ childTask' = childTask
      BY <1>1, <1>2, <2>1
    <3>2. QED
      BY <1>4, <1>5, <3>1
  <2>2. CASE x # q
    BY <1>1, <1>2, <2>2
  <2>3. QED
    BY <2>1, <2>2
<1>8. \A g \in Delegated : ReportTrue(g, receipt'[g])
  BY <1>2 DEF HandoffInv
<1>9. QED
  BY <1>2, <1>3, <1>6, <1>7, <1>8, HandoffsMove

\* What a host begins with a hand-off.
LEMMA BeginningsKeep ==
  ASSUME HandoffInv, NEW q \in Host, NEW h \in Handoff,
         \/ BeginHandoff(q, h) \/ Poll(q, h) \/ CancelHandoff(q, h) \/ CancelParent(q, h)
         \/ ReadHandoff(q, h) \/ Report(q, h)
  PROVE  HandoffInv'
<1> USE HandoffsAssumption
<1>1. /\ handoff \in [Handoff -> HandoffRow] /\ childTask \in [Handoff -> ChildStage] /\ forgets \in Nat
      /\ parent \in [Parent -> {"working", "input", "delegating", "succeeded", "cancelled"}]
      /\ admitted \in [Handoff -> 0..MaxModelCalls]
  BY HandoffTypes
<1>2. CASE BeginHandoff(q, h)
  BY <1>1, <1>2, HostReads DEF BeginHandoff
<1>3. CASE Poll(q, h)
  <2>1. handoff[h].state # "absent"
    BY <1>3 DEF Poll, PendingHandoff, IsOpen, Open, ClosedStates
  <2>2. QED
    BY <1>1, <1>3, <2>1, HostReads DEF Poll
<1>4. CASE CancelHandoff(q, h)
  BY <1>1, <1>4, HostReads DEF CancelHandoff
<1>5. CASE CancelParent(q, h)
  <2>1. parent' \in [Parent -> {"working", "input", "delegating", "succeeded", "cancelled"}]
    BY <1>1, <1>5 DEF CancelParent
  <2>2. QED
    BY <1>5, <2>1, HostReads DEF CancelParent
<1>6. CASE ReadHandoff(q, h)
  BY <1>1, <1>6, HostReads DEF ReadHandoff
<1>7. CASE Report(q, h)
  <2> DEFINE to == [step |-> "report", on |-> h, seen |-> handoff[h],
                    report |-> IF Childless(h) THEN "childless" ELSE "ended"]
  <2>1. /\ host' = [host EXCEPT ![q] = to] /\ h \in Delegated
        /\ Childless(h) \/ (handoff[h].attached = "yes" /\ childTask[h] \in Ended)
        /\ UNCHANGED <<handoff, admitted, parent, receipt, childTask, turn, deadline, forgets>>
    BY <1>7 DEF Report
  <2>2. handoff[h] \in HandoffRow /\ RowTrue(handoff[h], childTask[h], admitted[h], turn[h])
    BY <1>1 DEF HandoffInv
  <2>3. to \in HostPlace /\ to.on = h /\ to.step = "report" /\ to.seen = handoff[h]
        /\ to.report = IF Childless(h) THEN "childless" ELSE "ended"
    BY <2>2 DEF HostPlace, HostRow, HostStep
  <2> HIDE DEF to
  <2>4. HostKnows(to, handoff[h], childTask[h])
    <3>1. SeenTrue(handoff[h], handoff[h], childTask[h])
      BY <2>2, ReadsNow
    <3>2. QED
      BY <2>1, <2>3, <3>1 DEF HostKnows
  <2>5. ReportTrue(h, to.report)
    <3>1. CASE ~Childless(h)
      BY <2>1, <2>3, <3>1 DEF ReportTrue
    <3>2. CASE Childless(h)
      <4>1. CASE handoff[h].state = "absent"
        <5>1. h \in deadline /\ handoff[h].activated = "no" /\ handoff[h].attached = "no"
          BY <2>2, <3>2, <4>1 DEF Childless, NoReceipt, RowTrue, HandoffRow, Flag
        <5>2. admitted[h] = 0
          BY <2>2, <5>1 DEF RowTrue
        <5>3. ASSUME NEW x \in Host, ApprovedFor(x, h) PROVE FALSE
          BY <4>1, <5>3, HostAtWork DEF ApprovedFor, At, HostKnows
        <5>4. QED
          BY <2>3, <3>2, <5>1, <5>2, <5>3 DEF ReportTrue, NeverCalls
      <4>2. CASE handoff[h].state # "absent"
        <5>1. handoff[h].state \in ClosedStates /\ handoff[h].attached = "no"
          BY <3>2, <4>2 DEF Childless, NoReceipt
        <5>2. admitted[h] = 0
          BY <2>2, <5>1 DEF RowTrue
        <5>3. QED
          BY <2>3, <3>2, <5>1, <5>2 DEF ReportTrue, NeverCalls
      <4>3. QED
        BY <4>1, <4>2
    <3>3. QED
      BY <3>1, <3>2
  <2>6. QED
    BY <1>1, <2>1, <2>3, <2>4, <2>5, HostWalks
<1>8. QED
  BY <1>2, <1>3, <1>4, <1>5, <1>6, <1>7

\* The child's executor and owner (handoffs/service.js:44-58, store.js:40-60).
LEMMA ChildKeeps ==
  ASSUME HandoffInv, NEW h \in Handoff,
         CheckChild(h) \/ AdmitModel(h) \/ EndTurn(h) \/ CancelledByOwner(h)
  PROVE  HandoffInv'
<1> USE HandoffsAssumption
<1>1. /\ handoff \in [Handoff -> HandoffRow] /\ childTask \in [Handoff -> ChildStage]
      /\ admitted \in [Handoff -> 0..MaxModelCalls] /\ turn \in [Handoff -> {"idle", "checked", "calling"}]
  BY HandoffTypes
<1>2. handoff[h] \in HandoffRow /\ childTask[h] \in ChildStage /\ RowTrue(handoff[h], childTask[h], admitted[h], turn[h])
      /\ admitted[h] \in 0..MaxModelCalls
  BY <1>1 DEF HandoffInv
<1>3. GoesOn(handoff[h], handoff[h], childTask[h], childTask[h])
  BY DEF GoesOn
<1>4. CASE CheckChild(h)
  <2>1. handoff[h].activated = "yes" /\ childTask[h] = "live" /\ IsOpen(h)
    BY <1>2, <1>4 DEF CheckChild, RowTrue, HandoffRow, Flag
  <2>2. /\ Attached(h) \in HandoffRow /\ Attached(h).attached = "yes"
        /\ Attached(h).state = handoff[h].state /\ Attached(h).activated = "yes"
        /\ Attached(h).reconciled = handoff[h].reconciled
    BY <2>1, AttachedRow
  <2>3. /\ handoff' = [handoff EXCEPT ![h] = Attached(h)] /\ turn' = [turn EXCEPT ![h] = "checked"]
        /\ UNCHANGED <<admitted, parent, receipt, childTask, deadline, host, forgets>>
    BY <1>4 DEF CheckChild, Writes
  <2>4. RowTrue(Attached(h), childTask[h], admitted[h], "checked") /\ GoesOn(handoff[h], Attached(h), childTask[h], childTask[h])
    BY <1>2, <2>1, <2>2 DEF RowTrue, GoesOn
  <2>5. /\ handoff' \in [Handoff -> HandoffRow] /\ turn' \in [Handoff -> {"idle", "checked", "calling"}]
        /\ handoff'[h] = Attached(h) /\ turn'[h] = "checked"
        /\ \A g \in Handoff \ {h} : handoff'[g] = handoff[g] /\ turn'[g] = turn[g]
    BY <1>1, <2>2, <2>3
  <2>6. QED
    BY <1>1, <2>1, <2>2, <2>3, <2>4, <2>5, ChildMoves
<1>5. CASE AdmitModel(h)
  <2>1. turn[h] = "checked" /\ UNCHANGED <<handoff, parent, receipt, childTask, deadline, host, forgets>>
    BY <1>5 DEF AdmitModel
  <2>2. CASE MayCall(h)
    <3> DEFINE n == admitted[h] + 1
    <3>1. n \in 0..MaxModelCalls /\ n > 0 /\ handoff[h].state = "active" /\ handoff[h].attached = "yes"
      BY <1>2, <2>2 DEF MayCall
    <3>2. admitted' = [admitted EXCEPT ![h] = n] /\ turn' = [turn EXCEPT ![h] = "calling"]
      BY <1>5, <2>2 DEF AdmitModel
    <3> HIDE DEF n
    <3>3. RowTrue(handoff[h], childTask[h], n, "calling")
      BY <1>2, <3>1 DEF RowTrue
    <3>4. /\ admitted' \in [Handoff -> 0..MaxModelCalls] /\ turn' \in [Handoff -> {"idle", "checked", "calling"}]
          /\ admitted'[h] = n /\ turn'[h] = "calling"
          /\ \A g \in Handoff \ {h} : admitted'[g] = admitted[g] /\ turn'[g] = turn[g]
      BY <1>1, <3>1, <3>2
    <3>5. QED
      BY <1>1, <1>3, <2>1, <3>1, <3>3, <3>4, ChildMoves
  <2>3. CASE ~MayCall(h)
    <3>1. UNCHANGED admitted /\ turn' = [turn EXCEPT ![h] = "idle"]
      BY <1>5, <2>3 DEF AdmitModel
    <3>2. RowTrue(handoff[h], childTask[h], admitted[h], "idle")
      BY <1>2 DEF RowTrue
    <3>3. /\ turn' \in [Handoff -> {"idle", "checked", "calling"}] /\ turn'[h] = "idle"
          /\ \A g \in Handoff \ {h} : turn'[g] = turn[g]
      BY <1>1, <3>1
    <3>4. QED
      BY <1>1, <1>3, <2>1, <3>1, <3>2, <3>3, ChildMoves
  <2>4. QED
    BY <2>2, <2>3
<1>6. ASSUME NEW kid \in ChildStage, NEW stage \in {"idle", "checked", "calling"},
             childTask' = [childTask EXCEPT ![h] = kid], turn' = [turn EXCEPT ![h] = stage],
             UNCHANGED <<handoff, admitted, parent, receipt, deadline, host, forgets>>,
             kid = childTask[h] \/ (childTask[h] = "live" /\ kid \in Ended),
             kid = "succeeded" => admitted[h] > 0, stage = "calling" => turn[h] = "calling"
      PROVE  HandoffInv'
  <2>1. RowTrue(handoff[h], kid, admitted[h], stage) /\ GoesOn(handoff[h], handoff[h], childTask[h], kid)
    BY <1>2, <1>6 DEF RowTrue, GoesOn, Ended
  <2>2. /\ childTask' \in [Handoff -> ChildStage] /\ turn' \in [Handoff -> {"idle", "checked", "calling"}]
        /\ childTask'[h] = kid /\ turn'[h] = stage
        /\ \A g \in Handoff \ {h} : childTask'[g] = childTask[g] /\ turn'[g] = turn[g]
    BY <1>1, <1>6
  <2>3. QED
    BY <1>1, <1>6, <2>1, <2>2, ChildMoves
<1>7. childTask = [childTask EXCEPT ![h] = childTask[h]] /\ turn = [turn EXCEPT ![h] = turn[h]]
  BY <1>1
<1>8. turn[h] \in {"idle", "checked", "calling"}
  BY <1>1
<1>9. CASE EndTurn(h)
  <2>1. /\ turn[h] = "calling" /\ turn' = [turn EXCEPT ![h] = "idle"]
        /\ UNCHANGED <<handoff, admitted, parent, receipt, deadline, host, forgets>>
    BY <1>9 DEF EndTurn
  <2>2. admitted[h] > 0
    BY <1>2, <2>1 DEF RowTrue
  <2>3. PICK kid : /\ childTask' = [childTask EXCEPT ![h] = kid]
                   /\ kid = childTask[h] \/ (childTask[h] = "live" /\ kid = "succeeded")
    <3>1. childTask' = childTask \/ childTask' = [childTask EXCEPT ![h] = IF childTask[h] = "live" THEN "succeeded" ELSE childTask[h]]
      BY <1>9 DEF EndTurn
    <3>2. QED
      BY <1>7, <3>1
  <2>4. kid \in ChildStage
    BY <1>2, <2>3 DEF ChildStage, Ended
  <2>5. QED
    BY <1>2, <1>6, <2>1, <2>2, <2>3, <2>4 DEF Ended
<1>10. CASE CancelledByOwner(h)
  <2>1. /\ childTask[h] = "live" /\ childTask' = [childTask EXCEPT ![h] = "cancelled"]
        /\ UNCHANGED <<handoff, admitted, parent, receipt, turn, deadline, host, forgets>>
    BY <1>10 DEF CancelledByOwner
  <2>2. "cancelled" \in ChildStage /\ "cancelled" \in Ended
    BY DEF ChildStage, Ended
  <2>3. QED
    BY <1>6, <1>7, <1>8, <2>1, <2>2
<1>11. QED
  BY <1>4, <1>5, <1>9, <1>10

\* Parents pause and deadlines pass; of what was reported nothing changes.
LEMMA WorldKeeps ==
  ASSUME HandoffInv, (\E p \in Parent : Pause(p)) \/ \E h \in Handoff : DeadlinePasses(h)
  PROVE  HandoffInv'
<1> USE HandoffsAssumption
<1>1. /\ parent \in [Parent -> {"working", "input", "delegating", "succeeded", "cancelled"}]
      /\ receipt \in [Delegated -> {"none", "pending", "ended", "childless"}]
      /\ deadline \in SUBSET Handoff /\ forgets \in Nat /\ \A h \in Delegated : ReportTrue(h, receipt[h])
  BY HandoffTypes DEF HandoffInv
<1>2. ASSUME NEW p \in Parent, Pause(p) PROVE HandoffInv'
  <2>1. /\ UNCHANGED <<handoff, childTask, admitted, turn, host, deadline, forgets>>
        /\ parent' \in [Parent -> {"working", "input", "delegating", "succeeded", "cancelled"}]
        /\ UNCHANGED receipt \/ \E g \in Delegated : receipt' = [receipt EXCEPT ![g] = "pending"]
    BY <1>1, <1>2 DEF Pause
  <2>2. receipt' \in [Delegated -> {"none", "pending", "ended", "childless"}]
    BY <1>1, <2>1
  <2>3. \A h \in Delegated : receipt'[h] = receipt[h] \/ receipt'[h] = "pending"
    BY <1>1, <2>1
  <2>4. \A h \in Delegated : ReportTrue(h, receipt'[h])
    BY <1>1, <2>3 DEF ReportTrue
  <2>5. QED
    BY <1>1, <2>1, <2>2, <2>4, ParentMoves
<1>3. ASSUME NEW h \in Handoff, DeadlinePasses(h) PROVE HandoffInv'
  BY <1>1, <1>3, ParentMoves DEF DeadlinePasses
<1>4. QED
  BY <1>2, <1>3

LEMMA HandoffsStep == HandoffInv /\ [HandoffNext]_handoffVars => HandoffInv'
<1> SUFFICES ASSUME HandoffInv, [HandoffNext]_handoffVars PROVE HandoffInv'
  OBVIOUS
<1>1. CASE UNCHANGED handoffVars
  BY <1>1 DEF handoffVars, HandoffInv, HandoffTypeOK, At, ReportTrue, NeverCalls, ApprovedFor
<1>2. ASSUME NEW q \in Host, Carry(q) \/ Forget(q) PROVE HandoffInv'
  BY <1>2, CreateKeeps, ReconcileKeeps, ParentKeeps DEF Carry
<1>3. ASSUME NEW q \in Host, NEW h \in Handoff,
             \/ BeginHandoff(q, h) \/ Poll(q, h) \/ CancelHandoff(q, h) \/ CheckResume(q, h)
             \/ CancelParent(q, h) \/ Report(q, h) \/ ReadHandoff(q, h)
      PROVE  HandoffInv'
  BY <1>3, CheckResumeKeeps, BeginningsKeep
<1>4. ASSUME NEW h \in Handoff, CheckChild(h) \/ AdmitModel(h) \/ EndTurn(h) \/ CancelledByOwner(h) PROVE HandoffInv'
  BY <1>4, ChildKeeps
<1>5. QED
  BY <1>1, <1>2, <1>3, <1>4, WorldKeeps DEF HandoffNext

LEMMA HandoffsShow == HandoffInv => HandoffsHold
<1> SUFFICES ASSUME HandoffInv PROVE HandoffsHold
  OBVIOUS
<1> USE HandoffsAssumption
<1>1. /\ handoff \in [Handoff -> HandoffRow] /\ childTask \in [Handoff -> ChildStage]
      /\ admitted \in [Handoff -> 0..MaxModelCalls]
      /\ \A h \in Handoff : RowTrue(handoff[h], childTask[h], admitted[h], turn[h])
  BY HandoffTypes DEF HandoffInv
<1>2. ReceiptIsFinal
  <2> SUFFICES ASSUME NEW h \in Delegated
               PROVE  /\ receipt[h] = "ended" => childTask[h] \in Ended
                      /\ receipt[h] = "childless" => admitted[h] = 0 /\ childTask[h] # "succeeded"
    BY DEF ReceiptIsFinal
  <2>1. ReportTrue(h, receipt[h]) /\ h \in Handoff
    BY DEF HandoffInv
  <2>2. RowTrue(handoff[h], childTask[h], admitted[h], turn[h])
    BY <1>1, <2>1
  <2>3. QED
    BY <2>1, <2>2 DEF ReportTrue, NeverCalls, RowTrue
<1>3. ReconciledIsQuiet
  <2> SUFFICES ASSUME NEW h \in Handoff, handoff[h].state = "finished" \/ handoff[h].reconciled = "yes"
               PROVE  /\ childTask[h] # "live"
                      /\ childTask[h] = "absent" => \A q \in Host : ~(At(q, "bound") /\ host[q].on = h)
    BY DEF ReconciledIsQuiet
  <2>1. RowTrue(handoff[h], childTask[h], admitted[h], turn[h])
    BY <1>1
  <2>2. childTask[h] # "live"
    BY <2>1 DEF RowTrue, Ended
  <2>3. ASSUME childTask[h] = "absent", NEW q \in Host, At(q, "bound"), host[q].on = h PROVE FALSE
    <3>1. handoff[h].activated = "yes"
      BY <2>3, HostAtWork DEF At, HostKnows
    <3>2. QED
      BY <2>1, <2>3, <3>1 DEF RowTrue, Ended
  <2>4. QED
    BY <2>2, <2>3
<1>4. ToldFitsTogether
  <2> SUFFICES ASSUME NEW q \in Host, At(q, "told")
               PROVE  /\ host[q].seen.state = "finished" => host[q].report \in Ended
                      /\ host[q].seen.reconciled = "yes" => host[q].report # "live"
                      /\ host[q].report = "succeeded" => childTask[host[q].on] = "succeeded"
    BY DEF ToldFitsTogether
  <2>1. HostKnows(host[q], handoff[host[q].on], childTask[host[q].on]) /\ host[q].step = "told"
    BY HostAtWork DEF At
  <2>2. QED
    BY <2>1 DEF HostKnows
<1>5. QED
  BY <1>2, <1>3, <1>4 DEF HandoffsHold

\* What hosts make of a hand-off and tell of it stays true, for any parents, hosts,
\* deadlines, crashes and numbers of model calls (handoffs/service.js:60-145,
\* agent/delegation.js:29-36).
THEOREM HandoffsAreKept == ServicesSpec => []HandoffsHold
<1>1. ServicesInit => HandoffInv
  BY HandoffsStart DEF ServicesInit
<1>2. [ServicesNext]_servicesVars => [HandoffNext]_handoffVars
  BY DEF ServicesNext, servicesVars, Only
<1>3. HandoffInv /\ [ServicesNext]_servicesVars => HandoffInv'
  BY <1>2, HandoffsStep
<1>4. HandoffInv => HandoffsHold
  BY HandoffsShow
<1>5. QED
  BY <1>1, <1>3, <1>4, PTL DEF ServicesSpec
-----------------------------------------------------------------------------
(* Projections: what was delivered stays delivered *)

ProjectionRow ==
  [state : {"absent", "sending", "delivered", "not_sent", "unknown"},
   attempt : 0..MaxProjectionAttempts, lease : {"live", "expired"}]
ProjectorRow ==
  [step : {"claimed", "unclaimed", "send", "query", "finish"}, item : Projected,
   attempt : 1..MaxProjectionAttempts, status : {"delivered", "not_sent", "unknown"}]

\* A worker that is about to report a delivery knows of it; a row that was ever claimed counts it.
ProjectionInv ==
  /\ ProjectionTypeOK /\ DeliveredStays
  /\ \A m \in Projected : projections[m].state # "absent" => projections[m].attempt # 0
  /\ \A p \in Projector :
       projector[p].step = "finish" /\ projector[p].status = "delivered" => projector[p].item \in projected

LEMMA NothingProjected == ProjectionInit => ProjectionInv
  BY ProjectionAssumption DEF ProjectionInit, ProjectionInv, ProjectionTypeOK, DeliveredStays, NoProjection

LEMMA ProjectorKinds ==
  /\ ProjectionTypeOK <=>
       /\ settled \subseteq Projected /\ projected \subseteq Projected
       /\ projections \in [Projected -> ProjectionRow] /\ projector \in [Projector -> {NoProjection} \cup ProjectorRow]
       /\ projectionMishaps \in Nat
  /\ NoProjection.step = "idle" /\ \A job \in ProjectorRow : job.step # "idle"
  BY DEF ProjectionTypeOK, ProjectionRow, ProjectorRow, NoProjection

\* What a worker goes on to is in its row.
LEMMA WorkerGoes ==
  ASSUME ProjectionInv, NEW p \in Projector, NEW job \in {NoProjection} \cup ProjectorRow,
         projector' = [projector EXCEPT ![p] = job], projectionMishaps' \in Nat,
         projected' \in SUBSET Projected, projected \subseteq projected',
         job.step = "finish" /\ job.status = "delivered" => job.item \in projected',
         UNCHANGED <<projections, settled>>
  PROVE  ProjectionInv'
<1>1. projector' \in [Projector -> {NoProjection} \cup ProjectorRow]
  BY ProjectorKinds DEF ProjectionInv
<1>2. ProjectionTypeOK'
  BY <1>1, ProjectorKinds DEF ProjectionInv, ProjectionTypeOK, ProjectorRow
<1>3. \A q \in Projector :
        projector'[q].step = "finish" /\ projector'[q].status = "delivered" => projector'[q].item \in projected'
  BY ProjectorKinds DEF ProjectionInv
<1>4. QED
  BY <1>2, <1>3 DEF ProjectionInv, DeliveredStays

LEMMA WorkerRow ==
  ASSUME NEW step \in {"claimed", "unclaimed", "send", "query", "finish"}, NEW m \in Projected,
         NEW n \in 1..MaxProjectionAttempts, NEW status \in {"delivered", "not_sent", "unknown"}
  PROVE  [step |-> step, item |-> m, attempt |-> n, status |-> status] \in ProjectorRow
  BY DEF ProjectorRow

LEMMA ProjectionSteps == ProjectionInv /\ [ProjectionNext]_projectionVars => ProjectionInv'
<1> SUFFICES ASSUME ProjectionInv, [ProjectionNext]_projectionVars PROVE ProjectionInv'
  OBVIOUS
<1>0. /\ projections \in [Projected -> ProjectionRow] /\ projector \in [Projector -> {NoProjection} \cup ProjectorRow]
      /\ projectionMishaps \in Nat /\ projected \subseteq Projected /\ settled \subseteq Projected
  BY ProjectorKinds DEF ProjectionInv
<1>1. \A p \in Projector : projector[p].step # "idle" =>
        /\ projector[p].item \in Projected /\ projector[p].attempt \in 1..MaxProjectionAttempts
        /\ projector[p].status \in {"delivered", "not_sent", "unknown"}
  BY <1>0, ProjectorKinds DEF ProjectorRow
<1>2. ASSUME UNCHANGED projectionVars PROVE ProjectionInv'
  BY <1>2 DEF projectionVars, ProjectionInv, ProjectionTypeOK, DeliveredStays
<1>3. ASSUME NEW m \in Projected, LeaseRunsOut(m) PROVE ProjectionInv'
  <2>1. /\ projections' = [projections EXCEPT ![m] = [@ EXCEPT !.lease = "expired"]]
        /\ projectionMishaps' \in Nat /\ UNCHANGED <<settled, projected, projector>>
    BY <1>3, <1>0 DEF LeaseRunsOut, ProjectionMishap
  <2>2. projections' \in [Projected -> ProjectionRow]
    BY <2>1, <1>0 DEF ProjectionRow
  <2>3. \A x \in Projected : projections'[x].state = projections[x].state /\ projections'[x].attempt = projections[x].attempt
    BY <2>1, <1>0 DEF ProjectionRow
  <2>4. ProjectionTypeOK'
    BY <2>1, <2>2, <1>0 DEF ProjectionTypeOK, ProjectionRow, ProjectorRow
  <2>5. QED
    BY <2>1, <2>3, <2>4, <1>0 DEF ProjectionInv, DeliveredStays
<1>4. ASSUME NEW m \in Projected, NEW p \in Projector, ClaimProjection(p, m) PROVE ProjectionInv'
  <2>0. projections[m] \in ProjectionRow /\ projections[m].attempt \in 0..MaxProjectionAttempts
    BY <1>0 DEF ProjectionRow
  <2>1. PICK row \in ProjectionRow, n \in 1..MaxProjectionAttempts, step \in {"claimed", "unclaimed"} :
          /\ projections' = [projections EXCEPT ![m] = row] /\ row.state # "absent" /\ row.attempt # 0
          /\ projector' = [projector EXCEPT ![p] = [step |-> step, item |-> m, attempt |-> n, status |-> "unknown"]]
    <3>1. CASE /\ projections[m].state \in {"absent", "not_sent"} /\ projections[m].attempt < MaxProjectionAttempts
               /\ projections' = [projections EXCEPT ![m] =
                    [state |-> "sending", attempt |-> projections[m].attempt + 1, lease |-> "live"]]
               /\ Projecting(p, "claimed", m, projections[m].attempt + 1, "unknown")
      <4>1. PICK n \in 1..MaxProjectionAttempts : n = projections[m].attempt + 1
        BY <3>1, <2>0, ProjectionAssumption
      <4>2. PICK row \in ProjectionRow : row = [state |-> "sending", attempt |-> n, lease |-> "live"]
        <5>1. [state |-> "sending", attempt |-> n, lease |-> "live"] \in ProjectionRow
          BY ProjectionAssumption DEF ProjectionRow
        <5>2. QED
          BY <5>1
      <4>3. projections' = [projections EXCEPT ![m] = row] /\ row.state # "absent" /\ row.attempt # 0
        BY <3>1, <4>1, <4>2
      <4>4. projector' = [projector EXCEPT ![p] = [step |-> "claimed", item |-> m, attempt |-> n, status |-> "unknown"]]
        BY <3>1, <4>1 DEF Projecting
      <4>5. QED
        BY <4>3, <4>4
    <3>2. CASE /\ projections[m].state = "unknown" \/ (projections[m].state = "sending" /\ projections[m].lease = "expired")
               /\ projections' = [projections EXCEPT ![m] = [@ EXCEPT !.state = "unknown"]]
               /\ Projecting(p, "unclaimed", m, projections[m].attempt, "unknown")
      <4>1. projections[m].attempt \in 1..MaxProjectionAttempts
        BY <3>2, <2>0, ProjectionAssumption DEF ProjectionInv
      <4>2. PICK row \in ProjectionRow : row = [projections[m] EXCEPT !.state = "unknown"]
        BY <2>0 DEF ProjectionRow
      <4>3. row.state = "unknown" /\ row.attempt = projections[m].attempt
        BY <4>2, <2>0 DEF ProjectionRow
      <4>4. projections' = [projections EXCEPT ![m] = row] /\ row.state # "absent" /\ row.attempt # 0
        BY <3>2, <4>1, <4>2, <4>3
      <4>5. PICK n \in 1..MaxProjectionAttempts : n = projections[m].attempt
        BY <4>1
      <4>6. projector' = [projector EXCEPT ![p] = [step |-> "unclaimed", item |-> m, attempt |-> n, status |-> "unknown"]]
        BY <3>2, <4>5 DEF Projecting
      <4>7. QED
        BY <4>4, <4>6
    <3>3. QED
      BY <1>4, <3>1, <3>2 DEF ClaimProjection
  <2>2. projections[m].state # "delivered" /\ UNCHANGED <<settled, projected, projectionMishaps>>
    BY <1>4 DEF ClaimProjection
  <2>3. [step |-> step, item |-> m, attempt |-> n, status |-> "unknown"] \in ProjectorRow
    BY <2>1, WorkerRow
  <2>4. projections' \in [Projected -> ProjectionRow] /\ projector' \in [Projector -> {NoProjection} \cup ProjectorRow]
    BY <2>1, <2>3, <1>0
  <2>5. ProjectionTypeOK'
    BY <2>2, <2>4, <1>0 DEF ProjectionTypeOK, ProjectionRow, ProjectorRow
  <2>6. m \notin settled
    BY <2>2 DEF ProjectionInv, DeliveredStays
  <2>7. \A x \in Projected : IF x = m THEN projections'[x] = row ELSE projections'[x] = projections[x]
    BY <2>1, <1>0
  <2>8. \A q \in Projector : IF q = p THEN projector'[q].step = step ELSE projector'[q] = projector[q]
    BY <2>1, <1>0
  <2>9. QED
    BY <2>1, <2>2, <2>5, <2>6, <2>7, <2>8, <1>0 DEF ProjectionInv, DeliveredStays
<1>5. ASSUME NEW p \in Projector, RecheckProjection(p) PROVE ProjectionInv'
  <2>1. projector[p].step # "idle" /\ UNCHANGED <<projections, settled, projected, projectionMishaps>>
    BY <1>5 DEF RecheckProjection
  <2>2. CASE projector' = [projector EXCEPT ![p] = NoProjection]
    BY <2>1, <2>2, <1>0, WorkerGoes, ProjectorKinds
  <2>3. CASE projector' # [projector EXCEPT ![p] = NoProjection]
    <3>1. PICK step \in {"send", "query", "finish"}, status \in {"unknown", "not_sent"} :
            Projecting(p, step, projector[p].item, projector[p].attempt, status)
      BY <1>5, <2>3 DEF RecheckProjection
    <3>2. PICK job \in ProjectorRow : job = [step |-> step, item |-> projector[p].item, attempt |-> projector[p].attempt, status |-> status]
      BY <2>1, <1>1, WorkerRow
    <3>3. QED
      BY <2>1, <3>1, <3>2, <1>0, WorkerGoes DEF Projecting
  <2>4. QED
    BY <2>2, <2>3
<1>6. ASSUME NEW p \in Projector, SendProjection(p) PROVE ProjectionInv'
  <2>1. projector[p].step # "idle" /\ UNCHANGED <<projections, settled, projectionMishaps>>
    BY <1>6 DEF SendProjection
  <2>2. PICK status \in {"delivered", "not_sent", "unknown"} :
          /\ Projecting(p, "finish", projector[p].item, projector[p].attempt, status)
          /\ projected' = projected \cup {projector[p].item} \/ (UNCHANGED projected /\ status # "delivered")
    BY <1>6 DEF SendProjection
  <2>3. PICK job \in ProjectorRow : job = [step |-> "finish", item |-> projector[p].item, attempt |-> projector[p].attempt, status |-> status]
    BY <2>1, <1>1, WorkerRow
  <2>4. projected' \in SUBSET Projected /\ projected \subseteq projected'
    BY <2>1, <2>2, <1>0, <1>1
  <2>5. job.step = "finish" /\ job.status = "delivered" => job.item \in projected'
    BY <2>2, <2>3
  <2>6. QED
    BY <2>1, <2>2, <2>3, <2>4, <2>5, <1>0, WorkerGoes DEF Projecting
<1>7. ASSUME NEW p \in Projector, QueryProjection(p) PROVE ProjectionInv'
  <2>1. projector[p].step # "idle" /\ UNCHANGED <<projections, settled, projected, projectionMishaps>>
    BY <1>7 DEF QueryProjection
  <2>2. PICK status \in {"delivered", "not_sent", "unknown"} :
          /\ Projecting(p, "finish", projector[p].item, projector[p].attempt, status)
          /\ status = "delivered" => projector[p].item \in projected
    BY <1>7 DEF QueryProjection
  <2>3. PICK job \in ProjectorRow : job = [step |-> "finish", item |-> projector[p].item, attempt |-> projector[p].attempt, status |-> status]
    BY <2>1, <1>1, WorkerRow
  <2>4. QED
    BY <2>1, <2>2, <2>3, <1>0, WorkerGoes DEF Projecting
<1>8. ASSUME NEW p \in Projector, FinishProjection(p) PROVE ProjectionInv'
  <2> DEFINE m == projector[p].item
             status == projector[p].status
  <2>1. /\ projector[p].step = "finish" /\ m \in Projected /\ status \in {"delivered", "not_sent", "unknown"}
        /\ projector' = [projector EXCEPT ![p] = NoProjection] /\ UNCHANGED <<projected, projectionMishaps>>
    BY <1>8, <1>1 DEF FinishProjection
  <2>2. CASE ~Unsettled(m, projector[p].attempt)
    <3>1. UNCHANGED <<projections, settled>>
      BY <1>8, <2>2 DEF FinishProjection
    <3>2. QED
      BY <2>1, <3>1, <1>0, WorkerGoes, ProjectorKinds
  <2>3. CASE Unsettled(m, projector[p].attempt)
    <3>1. /\ projections' = [projections EXCEPT ![m] = [@ EXCEPT !.state = status, !.lease = "expired"]]
          /\ settled' = IF status = "delivered" THEN settled \cup {m} ELSE settled
      BY <1>8, <2>3 DEF FinishProjection
    <3>2. projections[m] \in ProjectionRow /\ projections[m].state \in {"sending", "unknown"}
      BY <2>1, <2>3, <1>0 DEF Unsettled
    <3>3. status = "delivered" => m \in projected
      BY <2>1 DEF ProjectionInv
    <3>4. m \notin settled
      BY <3>2 DEF ProjectionInv, DeliveredStays
    <3> HIDE DEF m, status
    <3>5. PICK row \in ProjectionRow : row = [projections[m] EXCEPT !.state = status, !.lease = "expired"]
      BY <2>1, <3>2 DEF ProjectionRow
    <3>6. row.state = status /\ row.attempt = projections[m].attempt
      BY <3>5, <3>2 DEF ProjectionRow
    <3>7. projections' = [projections EXCEPT ![m] = row]
      BY <3>1, <3>5, <2>1, <1>0
    <3>8. projections' \in [Projected -> ProjectionRow] /\ projector' \in [Projector -> {NoProjection} \cup ProjectorRow]
      BY <3>7, <2>1, <1>0
    <3>9. settled' \subseteq Projected
      BY <3>1, <2>1, <1>0
    <3>10. ProjectionTypeOK'
      BY <3>8, <3>9, <2>1, <1>0 DEF ProjectionTypeOK, ProjectionRow, ProjectorRow
    <3>11. \A x \in Projected : IF x = m THEN projections'[x] = row ELSE projections'[x] = projections[x]
      BY <3>7, <1>0
    <3>12. \A q \in Projector : IF q = p THEN projector'[q] = NoProjection ELSE projector'[q] = projector[q]
      BY <2>1, <1>0
    <3>13. DeliveredStays'
      BY <3>1, <3>3, <3>4, <3>6, <3>9, <3>11, <2>1 DEF ProjectionInv, DeliveredStays
    <3>14. \A x \in Projected : projections'[x].state # "absent" => projections'[x].attempt # 0
      BY <3>2, <3>6, <3>11, <2>1 DEF ProjectionInv
    <3>15. \A q \in Projector :
             projector'[q].step = "finish" /\ projector'[q].status = "delivered" => projector'[q].item \in projected'
      BY <3>12, <2>1, ProjectorKinds DEF ProjectionInv
    <3>16. QED
      BY <3>10, <3>13, <3>14, <3>15 DEF ProjectionInv
  <2>4. QED
    BY <2>2, <2>3
<1>9. ASSUME NEW p \in Projector, ProjectorDies(p) PROVE ProjectionInv'
  <2>1. projector' = [projector EXCEPT ![p] = NoProjection] /\ UNCHANGED <<projections, settled, projected>> /\ projectionMishaps' \in Nat
    BY <1>9, <1>0 DEF ProjectorDies, ProjectionMishap
  <2>2. QED
    BY <2>1, <1>0, WorkerGoes, ProjectorKinds
<1>10. QED
  BY <1>2, <1>3, <1>4, <1>5, <1>6, <1>7, <1>8, <1>9 DEF ProjectionNext
-----------------------------------------------------------------------------
(* Inbox: a list that hides nothing *)

LEMMA LeastOf ==
  ASSUME NEW S \in SUBSET Nat, S # {}
  PROVE  \E n \in S : \A m \in S : n <= m
<1>1. PICK n \in S : \A m \in S : ~(<<m, n>> \in OpToRel(<, Nat))
  BY NatLessThanWellFounded, WFMin
<1>2. ASSUME NEW m \in S PROVE n <= m
  <2>1. m \in Nat /\ n \in Nat /\ ~(m < n)
    BY <1>1, <1>2 DEF OpToRel
  <2>2. QED
    BY <2>1
<1>3. QED
  BY <1>2

LEMMA GreatestOf ==
  ASSUME NEW S \in SUBSET Nat, S # {}, NEW top \in Nat, \A n \in S : n <= top
  PROVE  \E n \in S : \A m \in S : m <= n
<1> DEFINE T == {top - n : n \in S}
<1>1. T \in SUBSET Nat /\ T # {}
  <2>1. \A n \in S : n \in Nat /\ n <= top /\ top - n \in Nat
    OBVIOUS
  <2>2. QED
    BY <2>1
<1>2. PICK d \in T : \A e \in T : d <= e
  <2> HIDE DEF T
  <2> QED  BY <1>1, LeastOf
<1>3. PICK n \in S : d = top - n
  BY <1>2
<1>4. ASSUME NEW m \in S PROVE m <= n
  <2>1. top - m \in T
    OBVIOUS
  <2>2. d <= top - m /\ m \in Nat /\ n \in Nat
    BY <1>2, <2>1
  <2>3. QED
    BY <1>3, <2>2
<1>5. QED
  BY <1>4

\* One producer holds the lock; what it commits is newer than all that was committed.
Newest ==
  /\ \A p \in Producer : producer[p] # NoReceive =>
       /\ producer[p].sequence <= drawn
       /\ \A m \in Item : sequence[m] < producer[p].sequence
       /\ \A q \in Producer \ {p} : producer[q] = NoReceive
  /\ \A m \in Item : sequence[m] <= drawn
  /\ \A m, n \in Item : sequence[m] # 0 /\ sequence[m] = sequence[n] => m = n

InboxInv == InboxTypeOK /\ Newest /\ ListHidesNothing /\ \A n \in listing.seen : sequence[n] # 0

LEMMA NothingReceived == InboxInit => InboxInv
  BY DEF InboxInit, InboxInv, InboxTypeOK, Newest, ListHidesNothing, NotListed, NoReceive

LEMMA ReceiveRows ==
  ASSUME NEW row \in [item : Item, sequence : Nat]
  PROVE  row # NoReceive \/ (row.item = "none" /\ DOMAIN row = {"item"})
  BY DEF NoReceive

\* A page is the newest of what can be listed; it is empty only if nothing can.
LEMMA PageIsNewest ==
  ASSUME InboxInv, NEW page,
         page = {m \in Listable : Cardinality({n \in Listable : sequence[n] > sequence[m]}) < InboxLimit}
  PROVE  /\ \A m \in page : \A n \in Listable : sequence[n] > sequence[m] => n \in page
         /\ Listable # {} => page # {}
         /\ page \subseteq Listable
<1> DEFINE above(m) == {n \in Listable : sequence[n] > sequence[m]}
<1>0. sequence \in [Item -> Nat] /\ drawn \in Nat /\ Listable \subseteq Item /\ IsFiniteSet(Listable)
  BY InboxAssumption, FS_Subset DEF InboxInv, InboxTypeOK, Listable
<1>1. ASSUME NEW m \in page, NEW n \in Listable, sequence[n] > sequence[m] PROVE n \in page
  <2>1. above(n) \subseteq above(m) /\ above(m) \subseteq Listable /\ Cardinality(above(m)) < InboxLimit
    BY <1>0, <1>1
  <2>2. /\ Cardinality(above(n)) <= Cardinality(above(m))
        /\ Cardinality(above(n)) \in Nat /\ Cardinality(above(m)) \in Nat
    <3> HIDE DEF above
    <3>1. IsFiniteSet(above(m)) /\ IsFiniteSet(above(n))
      BY <1>0, <2>1, FS_Subset
    <3>2. QED
      BY <2>1, <3>1, FS_Subset, FS_CardinalityType
  <2>3. Cardinality(above(n)) < InboxLimit
    BY <2>1, <2>2, InboxAssumption
  <2>4. QED
    BY <2>3
<1>2. ASSUME Listable # {} PROVE page # {}
  <2> DEFINE numbers == {sequence[n] : n \in Listable}
  <2>1. numbers \in SUBSET Nat /\ numbers # {} /\ \A n \in numbers : n <= drawn
    BY <1>0, <1>2 DEF InboxInv, Newest
  <2>2. PICK top \in numbers : \A n \in numbers : n <= top
    <3> HIDE DEF numbers
    <3> QED  BY <1>0, <2>1, GreatestOf
  <2>3. PICK m \in Listable : sequence[m] = top
    BY <2>2
  <2>4. above(m) = {}
    <3>1. ASSUME NEW n \in above(m) PROVE FALSE
      <4>1. sequence[n] \in numbers /\ sequence[n] > sequence[m]
        BY <3>1
      <4>2. sequence[n] <= top /\ sequence[m] = top /\ sequence[n] \in Nat /\ top \in Nat
        BY <2>1, <2>2, <2>3, <4>1
      <4>3. QED
        BY <4>1, <4>2
    <3>2. QED
      BY <3>1
  <2>5. Cardinality(above(m)) < InboxLimit
    BY <2>4, FS_EmptySet, InboxAssumption
  <2>6. QED
    BY <2>5
<1>3. QED
  BY <1>1, <1>2

LEMMA WalkStep == ASSUME InboxInv, ListPage PROVE InboxInv'
<1> DEFINE page == {m \in Listable : Cardinality({n \in Listable : sequence[n] > sequence[m]}) < InboxLimit}
           oldest == CHOOSE m \in page : \A n \in page : sequence[m] <= sequence[n]
<1>0. /\ sequence \in [Item -> Nat] /\ Listable \subseteq Item
      /\ listing \in [seen : SUBSET Item, before : Nat, more : {"unknown", "yes", "no"}]
  BY DEF InboxInv, InboxTypeOK, Listable
<1>1. UNCHANGED <<sequence, drawn, archived, producer, inboxMishaps>>
  BY DEF ListPage
<1>2. \A m \in page : \A n \in Listable : sequence[n] > sequence[m] => n \in page
  BY PageIsNewest
<1>3. Listable # {} => page # {}
  BY PageIsNewest
<1>4. IF page = {} THEN listing' = [listing EXCEPT !.more = "no"]
      ELSE listing' = [seen |-> listing.seen \cup page, before |-> sequence[oldest],
                       more |-> IF page = Listable THEN "no" ELSE "yes"]
  BY DEF ListPage
<1>5. page # {} => oldest \in page /\ \A n \in page : sequence[oldest] <= sequence[n]
  <2> SUFFICES ASSUME page # {} PROVE \E m \in page : \A n \in page : sequence[m] <= sequence[n]
    OBVIOUS
  <2> DEFINE numbers == {sequence[n] : n \in page}
  <2>0. page \subseteq Item
    BY <1>0
  <2> HIDE DEF page
  <2>1. numbers \in SUBSET Nat /\ numbers # {}
    BY <1>0, <2>0
  <2>2. PICK low \in numbers : \A n \in numbers : low <= n
    <3> HIDE DEF numbers
    <3> QED  BY <2>1, LeastOf
  <2>3. QED
    BY <2>2
<1>6. page \subseteq Listable
  OBVIOUS
<1> HIDE DEF page, oldest
<1>7. ASSUME NEW m \in Listable PROVE m \in Item /\ sequence[m] # 0 /\ m \notin archived /\ (listing.before # 0 => sequence[m] < listing.before)
  BY DEF Listable
<1>8. ASSUME NEW m \in Item, sequence[m] # 0, m \notin archived, listing.before # 0 => sequence[m] < listing.before PROVE m \in Listable
  BY <1>8 DEF Listable
<1>9. CASE page = {}
  <2>1. listing'.seen = listing.seen /\ listing'.before = listing.before /\ listing'.more = "no"
    BY <1>0, <1>4, <1>9
  <2>2. Listable = {}
    BY <1>3, <1>9
  <2>3. ASSUME NEW m \in Item, sequence[m] # 0, m \notin archived, \E n \in listing.seen : sequence[m] < sequence[n]
        PROVE  m \in listing.seen
    <3>1. listing.before # 0 /\ sequence[m] >= listing.before
      BY <1>0, <1>8, <2>2, <2>3
    <3>2. QED
      BY <2>3, <3>1 DEF InboxInv, ListHidesNothing
  <2>4. InboxTypeOK'
    BY <1>0, <1>1, <1>4, <1>9 DEF InboxInv, InboxTypeOK
  <2>5. QED
    BY <1>1, <2>1, <2>3, <2>4 DEF InboxInv, Newest, ListHidesNothing
<1>10. CASE page # {}
  <2>1. /\ listing'.seen = listing.seen \cup page /\ listing'.before = sequence[oldest]
        /\ listing'.more = (IF page = Listable THEN "no" ELSE "yes")
    BY <1>4, <1>10
  <2>2. ASSUME NEW m \in Item, sequence[m] # 0, m \notin archived, sequence[m] >= sequence[oldest] \/ page = Listable,
               NEW n \in listing.seen \cup page, sequence[m] < sequence[n]
        PROVE  m \in listing.seen \cup page
    <3>1. CASE m \in Listable
      <4>1. page # Listable => sequence[m] = sequence[oldest] \/ sequence[m] > sequence[oldest]
        BY <2>2, <1>0, <1>5, <1>6, <1>10
      <4>2. sequence[m] = sequence[oldest] => m = oldest
        BY <2>2, <1>0, <1>5, <1>6, <1>10 DEF InboxInv, Newest
      <4>3. QED
        BY <3>1, <4>1, <4>2, <1>2, <1>5, <1>10
    <3>2. CASE m \notin Listable
      <4>1. listing.before # 0 /\ sequence[m] >= listing.before
        BY <2>2, <3>2, <1>0, <1>8
      <4>2. n \in listing.seen
        <5>1. SUFFICES ASSUME n \in page PROVE FALSE
          BY <2>2
        <5>2. n \in Item /\ sequence[n] < listing.before
          BY <5>1, <1>6, <1>7, <4>1
        <5>3. QED
          BY <5>2, <4>1, <2>2, <1>0
      <4>3. QED
        BY <2>2, <4>1, <4>2 DEF InboxInv, ListHidesNothing
    <3>3. QED
      BY <3>1, <3>2
  <2>3. InboxTypeOK'
    <3>1. sequence[oldest] \in Nat /\ listing.seen \cup page \in SUBSET Item
      BY <1>0, <1>5, <1>6, <1>10
    <3>2. listing' \in [seen : SUBSET Item, before : Nat, more : {"unknown", "yes", "no"}]
      BY <1>4, <1>10, <3>1
    <3>3. QED
      BY <1>1, <3>2 DEF InboxInv, InboxTypeOK
  <2>4. ListHidesNothing'
    BY <1>1, <2>1, <2>2 DEF ListHidesNothing
  <2>5. \A n \in listing'.seen : sequence[n] # 0
    BY <2>1, <1>6, <1>7 DEF InboxInv
  <2>6. Newest'
    BY <1>1 DEF InboxInv, Newest
  <2>7. QED
    BY <1>1, <2>3, <2>4, <2>5, <2>6 DEF InboxInv
<1>11. QED
  BY <1>9, <1>10

LEMMA CommitStepIn == ASSUME InboxInv, NEW p \in Producer, CommitItem(p) PROVE InboxInv'
<1>0. /\ sequence \in [Item -> Nat] /\ drawn \in Nat /\ producer \in [Producer -> {NoReceive} \cup [item : Item, sequence : Nat]]
      /\ listing \in [seen : SUBSET Item, before : Nat, more : {"unknown", "yes", "no"}]
  BY DEF InboxInv, InboxTypeOK
<1>1. PICK row \in [item : Item, sequence : Nat] : row = producer[p]
  BY <1>0 DEF CommitItem
<1>2. PICK m \in Item, n \in Nat : row.item = m /\ row.sequence = n
  OBVIOUS
<1>3. /\ sequence' = [sequence EXCEPT ![m] = IF @ = 0 THEN n ELSE @]
      /\ producer' = [producer EXCEPT ![p] = NoReceive] /\ UNCHANGED <<drawn, archived, listing, inboxMishaps>>
  BY <1>1, <1>2 DEF CommitItem
<1>4. n <= drawn /\ (\A x \in Item : sequence[x] < n) /\ \A q \in Producer : producer'[q] = NoReceive
  BY <1>0, <1>1, <1>2, <1>3 DEF InboxInv, Newest, CommitItem
<1>5. \A x \in Item : sequence'[x] = IF x = m /\ sequence[x] = 0 THEN n ELSE sequence[x]
  BY <1>0, <1>3
<1>6. InboxTypeOK'
  <2>1. sequence' \in [Item -> Nat]
    BY <1>0, <1>3
  <2>2. QED
    BY <1>0, <1>3, <2>1 DEF InboxInv, InboxTypeOK
<1>7. \A x \in listing.seen : x \in Item /\ sequence[x] # 0 /\ sequence'[x] = sequence[x]
  BY <1>0, <1>5 DEF InboxInv
<1>8. ListHidesNothing'
  <2>1. ASSUME NEW x \in Item, sequence'[x] # 0, x \notin archived, sequence'[x] >= listing.before \/ listing.more = "no",
               NEW y \in listing.seen, sequence'[x] < sequence'[y]
        PROVE  x \in listing.seen
    <3>1. sequence'[x] = sequence[x]
      <4>1. sequence[y] < n /\ sequence[y] \in Nat
        BY <1>0, <1>4, <1>7
      <4>2. QED
        BY <2>1, <4>1, <1>5, <1>7
    <3>2. QED
      BY <2>1, <3>1, <1>7 DEF InboxInv, ListHidesNothing
  <2>2. QED
    BY <1>3, <2>1 DEF ListHidesNothing
<1>9. Newest'
  <2>1. \A x \in Item : sequence'[x] <= drawn
    BY <1>0, <1>4, <1>5 DEF InboxInv, Newest
  <2>2. ASSUME NEW x \in Item, NEW y \in Item, sequence'[x] # 0, sequence'[x] = sequence'[y] PROVE x = y
    BY <1>0, <1>4, <1>5, <2>2 DEF InboxInv, Newest
  <2>3. QED
    BY <1>3, <1>4, <2>1, <2>2 DEF Newest
<1>10. QED
  BY <1>3, <1>6, <1>7, <1>8, <1>9 DEF InboxInv

LEMMA InsertStepIn == ASSUME InboxInv, NEW p \in Producer, NEW m \in Item, InsertItem(p, m) PROVE InboxInv'
<1>0. /\ sequence \in [Item -> Nat] /\ drawn \in Nat /\ producer \in [Producer -> {NoReceive} \cup [item : Item, sequence : Nat]]
  BY DEF InboxInv, InboxTypeOK
<1>1. /\ \A q \in Producer : producer[q] = NoReceive
      /\ drawn' = drawn + 1 /\ producer' = [producer EXCEPT ![p] = [item |-> m, sequence |-> drawn + 1]]
      /\ UNCHANGED <<sequence, archived, listing, inboxMishaps>>
  BY DEF InsertItem, ScopeFree
<1>2. PICK row \in [item : Item, sequence : Nat] : row = [item |-> m, sequence |-> drawn + 1]
  <2>1. [item |-> m, sequence |-> drawn + 1] \in [item : Item, sequence : Nat]
    BY <1>0
  <2>2. QED
    BY <2>1
<1>3. producer' = [producer EXCEPT ![p] = row] /\ row.sequence = drawn + 1
  BY <1>1, <1>2
<1>4. InboxTypeOK'
  BY <1>0, <1>1, <1>3 DEF InboxInv, InboxTypeOK
<1>5. \A q \in Producer : IF q = p THEN producer'[q] = row ELSE producer'[q] = NoReceive
  BY <1>0, <1>1, <1>3
<1>6. \A x \in Item : sequence[x] \in Nat /\ sequence[x] <= drawn /\ sequence[x] <= drawn' /\ sequence[x] < drawn + 1
  BY <1>0, <1>1 DEF InboxInv, Newest
<1>7. Newest'
  <2>1. \A x, y \in Item : sequence[x] # 0 /\ sequence[x] = sequence[y] => x = y
    BY DEF InboxInv, Newest
  <2>2. drawn + 1 <= drawn'
    BY <1>0, <1>1
  <2>3. QED
    BY <1>1, <1>3, <1>5, <1>6, <2>1, <2>2 DEF Newest
<1>8. QED
  BY <1>1, <1>4, <1>7 DEF InboxInv, ListHidesNothing

LEMMA InboxSteps == InboxInv /\ [InboxNext]_inboxVars => InboxInv'
<1> SUFFICES ASSUME InboxInv, [InboxNext]_inboxVars PROVE InboxInv'
  OBVIOUS
<1>1. ASSUME NEW p \in Producer, RollbackItem(p) PROVE InboxInv'
  <2>1. /\ producer' = [producer EXCEPT ![p] = NoReceive] /\ inboxMishaps' \in Nat
        /\ UNCHANGED <<sequence, drawn, archived, listing>>
    BY <1>1 DEF RollbackItem, InboxMishap, InboxInv, InboxTypeOK
  <2>2. \A q \in Producer : producer'[q] = NoReceive \/ producer'[q] = producer[q]
    BY <2>1 DEF InboxInv, InboxTypeOK
  <2>3. InboxTypeOK'
    BY <2>1 DEF InboxInv, InboxTypeOK
  <2>4. Newest'
    BY <2>1, <2>2 DEF InboxInv, Newest
  <2>5. QED
    BY <2>1, <2>3, <2>4 DEF InboxInv, ListHidesNothing
<1>2. ASSUME ListAgain PROVE InboxInv'
  BY <1>2 DEF ListAgain, NotListed, InboxInv, InboxTypeOK, Newest, ListHidesNothing
<1>3. ASSUME NEW m \in Item, Archive(m) PROVE InboxInv'
  BY <1>3 DEF Archive, InboxInv, InboxTypeOK, Newest, ListHidesNothing
<1>4. ASSUME UNCHANGED inboxVars PROVE InboxInv'
  BY <1>4 DEF inboxVars, InboxInv, InboxTypeOK, Newest, ListHidesNothing
<1>5. QED
  BY <1>1, <1>2, <1>3, <1>4, CommitStepIn, InsertStepIn, WalkStep DEF InboxNext
-----------------------------------------------------------------------------
(* Releases: a protection that is reported did happen *)

CycleRow ==
  [state : {"absent", "started", "prepared", "completed"}, revision : Revision, release : Release,
   shouldStop : BOOLEAN, willProtect : BOOLEAN, protected : BOOLEAN]
MonitorRow == [step : {"collect", "prepare", "protect", "receipt", "complete"}, cycle : Cycle, protected : BOOLEAN]

Assessed(c) == cycles[c].state \in {"prepared", "completed"}

\* Whoever collects is the one that began the cycle; whoever is about to complete one
\* that protects has its receipt.
MonitorTrue(m) == LET c == monitor[m].cycle IN
  /\ monitor[m].step = "collect" =>
       cycles[c].state = "started" /\ \A n \in Monitor \ {m} : monitor[n].step = "collect" => monitor[n].cycle # c
  /\ monitor[m].step \in {"protect", "receipt", "complete"} => Assessed(c)
  /\ monitor[m].step = "complete" => (cycles[c].willProtect \/ monitor[m].protected => Confirmed(c))

\* A receipt is that of the assessment of its cycle, which does not change any more.
ReceiptsStand ==
  \A b \in rollbacks :
    /\ Assessed(b.cycle) /\ b.revision = cycles[b.cycle].revision /\ b.stopped = cycles[b.cycle].release
    /\ b.stopped \in disabled /\ b.stopped \notin Selected

CompletedTrue ==
  \A c \in Cycle : cycles[c].state = "completed" => (cycles[c].willProtect \/ cycles[c].protected => Confirmed(c))

ResolutionTrue ==
  /\ resolution.step # "idle" => resolution.stopped \subseteq disabled
  /\ resolution.step = "resolved" => resolution.stable \notin resolution.stopped

ReleaseInv ==
  /\ ReleaseTypeOK /\ ReceiptsStand /\ CompletedTrue /\ ResolutionTrue
  /\ \A m \in Monitor : monitor[m] # Idle => MonitorTrue(m)

LEMMA ReleaseTypes ==
  /\ ReleaseTypeOK =>
       /\ cycles \in [Cycle -> CycleRow] /\ monitor \in [Monitor -> {Idle} \cup MonitorRow]
       /\ channel.revision \in Revision /\ channel.stable \in Release /\ channel.canary \in Release \cup {NoRelease}
       /\ disabled \subseteq Release /\ rollbacks \subseteq [cycle : Cycle, revision : Revision, stopped : Release]
       /\ monitorMishaps \in Nat
  /\ Idle.step = "idle" /\ (\A row \in MonitorRow : row # Idle /\ row.step # "idle")
  BY DEF ReleaseTypeOK, CycleRow, MonitorRow, Idle

LEMMA NothingReleased == ReleaseInit => ReleaseInv
<1> SUFFICES ASSUME ReleaseInit PROVE ReleaseInv
  OBVIOUS
<1> USE ReleasesAssumption
<1>1. ReleaseTypeOK
  BY DEF ReleaseInit, ReleaseTypeOK, Revision
<1>2. ReceiptsStand /\ CompletedTrue /\ ResolutionTrue /\ \A m \in Monitor : monitor[m] = Idle
  BY DEF ReleaseInit, ReceiptsStand, CompletedTrue, ResolutionTrue, Idle
<1>3. QED
  BY <1>1, <1>2 DEF ReleaseInv

\* An assessed cycle keeps its receipt, or the lack of one.
LEMMA SameReceipt ==
  ASSUME NEW c, cycles'[c].revision = cycles[c].revision, cycles'[c].release = cycles[c].release, rollbacks \subseteq rollbacks'
  PROVE  Confirmed(c) => Confirmed(c)'
  BY DEF Confirmed

\* The channel is set, or a release stopped.
LEMMA ChannelStep ==
  ASSUME ReleaseInv, channel' \in [revision : Revision, stable : Release, canary : Release \cup {NoRelease}],
         disabled \subseteq disabled', disabled' \subseteq Release,
         \A r \in disabled : r \notin Selected => r \notin Selected',
         UNCHANGED <<rollbacks, cycles, monitor, resolution, monitorMishaps>>
  PROVE  ReleaseInv'
<1>1. ReleaseTypeOK'
  BY DEF ReleaseInv, ReleaseTypeOK
<1>2. ReceiptsStand' /\ ResolutionTrue'
  BY DEF ReleaseInv, ReceiptsStand, ResolutionTrue, Assessed
<1>3. CompletedTrue' /\ \A m \in Monitor : monitor'[m] # Idle => MonitorTrue(m)'
  BY DEF ReleaseInv, CompletedTrue, MonitorTrue, Confirmed, Assessed
<1>4. QED
  BY <1>1, <1>2, <1>3 DEF ReleaseInv

LEMMA SetStep == ASSUME ReleaseInv, NEW stable \in Release, NEW canary \in Release \cup {NoRelease}, SetChannel(stable, canary) PROVE ReleaseInv'
<1>1. channel.revision + 1 \in Revision
  BY ReleaseTypes, ReleasesAssumption DEF ReleaseInv, SetChannel, Revision
<1>2. channel' \in [revision : Revision, stable : Release, canary : Release \cup {NoRelease}]
  BY <1>1 DEF SetChannel
<1>3. disabled \subseteq Release /\ NoRelease \notin disabled
  BY ReleaseTypes, ReleasesAssumption DEF ReleaseInv
<1>4. Selected' = {stable, canary}
  BY DEF SetChannel, Selected
<1>5. \A r \in disabled : r \notin Selected'
  BY <1>3, <1>4 DEF SetChannel, Selectable
<1>6. QED
  BY <1>2, <1>3, <1>5, ChannelStep DEF SetChannel

LEMMA StopStep == ASSUME ReleaseInv, NEW r \in Release, Stop(r) PROVE ReleaseInv'
<1>1. disabled' = disabled \cup {r} /\ Selected' = Selected /\ channel' = channel
  BY DEF Stop, Selected
<1>2. QED
  BY <1>1, ChannelStep DEF Stop, ReleaseInv, ReleaseTypeOK

\* A rollback writes its receipt with the assessment on record.
LEMMA RollBackStep ==
  ASSUME ReleaseInv, NEW c \in Cycle, Assessed(c), RollsBack(cycles[c].release, cycles[c].revision), RollBack(c),
         UNCHANGED <<cycles, resolution, monitorMishaps>>
  PROVE  /\ Confirmed(c)' /\ ReceiptsStand' /\ CompletedTrue' /\ ResolutionTrue'
         /\ (monitor' \in [Monitor -> {Idle} \cup MonitorRow] => ReleaseTypeOK')
         /\ \A x : Confirmed(x) => Confirmed(x)'
<1>0. /\ cycles[c] \in CycleRow /\ cycles[c].release \in Release /\ cycles[c].revision \in Revision
      /\ disabled \subseteq Release /\ rollbacks \subseteq [cycle : Cycle, revision : Revision, stopped : Release]
  BY ReleaseTypes DEF ReleaseInv, CycleRow
<1>1. /\ channel' = [revision |-> channel.revision + 1, stable |-> Fallback, canary |-> NoRelease]
      /\ disabled' = disabled \cup {cycles[c].release}
      /\ rollbacks' = rollbacks \cup {[cycle |-> c, revision |-> cycles[c].revision, stopped |-> cycles[c].release]}
      /\ cycles' = cycles /\ resolution' = resolution /\ monitorMishaps' = monitorMishaps
  BY DEF RollBack
<1>2. channel.revision \in Revision /\ channel.revision < MaxRevision /\ cycles[c].release # Fallback /\ Fallback \notin disabled
  BY ReleaseTypes DEF RollsBack, Selectable, ReleaseInv
<1>3. Selected' = {Fallback, NoRelease} /\ Fallback \in Release /\ NoRelease \notin Release
  BY <1>1, ReleasesAssumption DEF Selected
<1>4. [cycle |-> c, revision |-> cycles[c].revision, stopped |-> cycles[c].release] \in [cycle : Cycle, revision : Revision, stopped : Release]
  BY <1>0
<1>5. \A x : Confirmed(x) => Confirmed(x)'
  BY <1>1 DEF Confirmed
<1>6. Confirmed(c)'
  BY <1>1 DEF Confirmed
<1>7. ReceiptsStand'
  <2>1. ASSUME NEW b \in rollbacks'
        PROVE  /\ Assessed(b.cycle)' /\ b.revision = cycles'[b.cycle].revision /\ b.stopped = cycles'[b.cycle].release
               /\ b.stopped \in disabled'
    <3>1. CASE b \in rollbacks
      BY <1>1, <3>1 DEF ReleaseInv, ReceiptsStand, Assessed
    <3>2. CASE b = [cycle |-> c, revision |-> cycles[c].revision, stopped |-> cycles[c].release]
      <4>1. b.cycle = c /\ b.revision = cycles[c].revision /\ b.stopped = cycles[c].release
        BY <3>2
      <4>2. QED
        BY <1>1, <4>1 DEF Assessed
    <3>3. QED
      BY <1>1, <3>1, <3>2
  <2>2. \A r \in disabled' : r \in Release /\ r # Fallback
    BY <1>0, <1>1, <1>2
  <2>3. QED
    BY <1>3, <2>1, <2>2 DEF ReceiptsStand
<1>8. CompletedTrue' /\ ResolutionTrue'
  BY <1>1, <1>5 DEF ReleaseInv, CompletedTrue, ResolutionTrue
<1>9. ASSUME monitor' \in [Monitor -> {Idle} \cup MonitorRow] PROVE ReleaseTypeOK'
  <2>1. channel.revision + 1 \in Revision
    BY <1>2, ReleasesAssumption DEF Revision
  <2>2. channel' \in [revision : Revision, stable : Release, canary : Release \cup {NoRelease}]
    BY <1>1, <1>3, <2>1
  <2>3. disabled' \subseteq Release /\ rollbacks' \subseteq [cycle : Cycle, revision : Revision, stopped : Release]
    BY <1>0, <1>1, <1>4
  <2>4. QED
    BY <1>1, <1>9, <2>2, <2>3 DEF ReleaseInv, ReleaseTypeOK, MonitorRow
<1>10. QED
  BY <1>5, <1>6, <1>7, <1>8, <1>9

LEMMA ByHandStep == ASSUME ReleaseInv, NEW c \in Cycle, ProtectByHand(c) PROVE ReleaseInv'
<1>1. Assessed(c) /\ RollsBack(cycles[c].release, cycles[c].revision) /\ RollBack(c) /\ UNCHANGED <<cycles, monitor, resolution, monitorMishaps>>
  BY DEF ProtectByHand, Assessed
<1>2. /\ ReceiptsStand' /\ CompletedTrue' /\ ResolutionTrue' /\ ReleaseTypeOK'
      /\ \A x : Confirmed(x) => Confirmed(x)'
  BY <1>1, RollBackStep, ReleaseTypes DEF ReleaseInv
<1>3. \A m \in Monitor : monitor'[m] # Idle => MonitorTrue(m)'
  BY <1>1, <1>2 DEF ReleaseInv, MonitorTrue, Assessed
<1>4. QED
  BY <1>2, <1>3 DEF ReleaseInv

LEMMA ProtectStep == ASSUME ReleaseInv, NEW m \in Monitor, Protect(m) PROVE ReleaseInv'
<1>1. monitor \in [Monitor -> {Idle} \cup MonitorRow] /\ monitor[m].step = "protect" /\ monitor[m] # Idle
  BY ReleaseTypes DEF Protect, ReleaseInv
<1>2. PICK c \in Cycle : c = monitor[m].cycle /\ Assessed(c)
  BY <1>1 DEF ReleaseInv, MonitorTrue, MonitorRow
<1>3. /\ RollsBack(cycles[c].release, cycles[c].revision) /\ RollBack(c) /\ UNCHANGED <<cycles, resolution, monitorMishaps>>
      /\ monitor' = [monitor EXCEPT ![m] = [step |-> "complete", cycle |-> c, protected |-> TRUE]]
  BY <1>2 DEF Protect, Goes
<1>4. [step |-> "complete", cycle |-> c, protected |-> TRUE] \in MonitorRow
  BY <1>2 DEF MonitorRow
<1>5. monitor' \in [Monitor -> {Idle} \cup MonitorRow]
  BY <1>1, <1>3, <1>4
<1>6. /\ Confirmed(c)' /\ ReceiptsStand' /\ CompletedTrue' /\ ResolutionTrue' /\ ReleaseTypeOK'
      /\ \A x : Confirmed(x) => Confirmed(x)'
  BY <1>2, <1>3, <1>5, RollBackStep
<1>7. \A n \in Monitor : IF n = m THEN /\ monitor'[n].step = "complete" /\ monitor'[n].cycle = c
                         ELSE monitor'[n] = monitor[n]
  BY <1>1, <1>3
<1>8. ASSUME NEW n \in Monitor, monitor'[n] # Idle PROVE MonitorTrue(n)'
  <2>1. CASE n = m
    BY <1>2, <1>3, <1>6, <1>7, <2>1 DEF MonitorTrue, Assessed
  <2>2. CASE n # m
    BY <1>1, <1>3, <1>6, <1>7, <1>8, <2>2 DEF ReleaseInv, MonitorTrue, Assessed
  <2>3. QED
    BY <2>1, <2>2
<1>9. QED
  BY <1>6, <1>8 DEF ReleaseInv

\* A process goes on with an assessed cycle, or leaves.
LEMMA MonitorGoes ==
  ASSUME ReleaseInv, NEW m \in Monitor, NEW row \in {Idle} \cup MonitorRow, monitor' = [monitor EXCEPT ![m] = row],
         UNCHANGED <<channel, disabled, rollbacks, cycles, resolution>>, monitorMishaps' \in Nat,
         row # Idle => /\ row.step \in {"receipt", "complete"} /\ Assessed(row.cycle)
                       /\ row.step = "complete" => (cycles[row.cycle].willProtect \/ row.protected => Confirmed(row.cycle))
  PROVE  ReleaseInv'
<1>1. monitor \in [Monitor -> {Idle} \cup MonitorRow]
  BY ReleaseTypes DEF ReleaseInv
<1>2. \A n \in Monitor : IF n = m THEN monitor'[n] = row ELSE monitor'[n] = monitor[n]
  BY <1>1
<1>3. ReleaseTypeOK'
  BY <1>1 DEF ReleaseInv, ReleaseTypeOK, MonitorRow
<1>4. ReceiptsStand' /\ CompletedTrue' /\ ResolutionTrue' /\ \A c : (Confirmed(c)' <=> Confirmed(c)) /\ (Assessed(c)' <=> Assessed(c))
  BY DEF ReleaseInv, ReceiptsStand, CompletedTrue, ResolutionTrue, Confirmed, Assessed, Selected
<1>5. ASSUME NEW n \in Monitor, monitor'[n] # Idle PROVE MonitorTrue(n)'
  <2>1. CASE n = m
    <3>1. PICK c : c = row.cycle
      OBVIOUS
    <3>2. monitor'[n] = row /\ row # Idle
      BY <1>2, <1>5, <2>1
    <3>3. Assessed(c)' /\ (row.step = "complete" => (cycles'[c].willProtect \/ row.protected => Confirmed(c)'))
      BY <1>4, <3>1, <3>2
    <3>4. QED
      BY <3>1, <3>2, <3>3 DEF MonitorTrue
  <2>2. CASE n # m
    <3>1. monitor'[n] = monitor[n] /\ MonitorTrue(n)
      BY <1>2, <1>5, <2>2 DEF ReleaseInv
    <3>2. \A k \in Monitor : monitor'[k].step = "collect" => monitor'[k] = monitor[k]
      BY <1>2, ReleaseTypes
    <3>3. PICK c : c = monitor[n].cycle
      OBVIOUS
    <3>4. QED
      BY <1>4, <3>1, <3>2, <3>3 DEF MonitorTrue
  <2>3. QED
    BY <2>1, <2>2
<1>6. QED
  BY <1>3, <1>4, <1>5 DEF ReleaseInv

\* A cycle that was not assessed begins, or gets its assessment.
Freshens(m, c, row, at) ==
  /\ cycles' = [cycles EXCEPT ![c] = row] /\ monitor' = [monitor EXCEPT ![m] = at] /\ at.cycle = c
  /\ UNCHANGED <<channel, disabled, rollbacks, resolution, monitorMishaps>>
  /\ ~Assessed(c) /\ \A n \in Monitor \ {m} : monitor[n].step = "collect" => monitor[n].cycle # c
  /\ at.step \in {"collect", "protect", "complete"} /\ row.state = (IF at.step = "collect" THEN "started" ELSE "prepared")
  /\ at.step = "complete" => row.willProtect = FALSE /\ at.protected = FALSE

LEMMA FreshCycle ==
  ASSUME ReleaseInv, NEW m \in Monitor, NEW c \in Cycle, NEW row \in CycleRow, NEW at \in MonitorRow, Freshens(m, c, row, at)
  PROVE  ReleaseInv'
<1> USE DEF Freshens
<1>1. monitor \in [Monitor -> {Idle} \cup MonitorRow] /\ cycles \in [Cycle -> CycleRow]
  BY ReleaseTypes DEF ReleaseInv
<1>2. \A n \in Monitor : IF n = m THEN monitor'[n] = at ELSE monitor'[n] = monitor[n]
  BY <1>1
<1>3. \A x \in Cycle : IF x = c THEN cycles'[x] = row ELSE cycles'[x] = cycles[x]
  BY <1>1
<1>4. ReleaseTypeOK'
  <2>1. cycles' \in [Cycle -> CycleRow] /\ monitor' \in [Monitor -> {Idle} \cup MonitorRow]
    BY <1>1
  <2>2. QED
    BY <2>1 DEF ReleaseInv, ReleaseTypeOK, CycleRow, MonitorRow
<1>5. \A b \in rollbacks : b.cycle \in Cycle \ {c}
  BY ReleaseTypes DEF ReleaseInv, ReceiptsStand
<1>6. ReceiptsStand' /\ ResolutionTrue'
  BY <1>3, <1>5 DEF ReleaseInv, ReceiptsStand, ResolutionTrue, Assessed, Selected
<1>7. \A x \in Cycle \ {c} : (Confirmed(x)' <=> Confirmed(x)) /\ (Assessed(x)' <=> Assessed(x)) /\ cycles'[x] = cycles[x]
  BY <1>3 DEF Confirmed, Assessed
<1>8. cycles'[c].state = row.state /\ row.state # "completed" /\ cycles'[c] = row
  BY <1>3
<1>9. CompletedTrue'
  BY <1>7, <1>8 DEF ReleaseInv, CompletedTrue
<1>10. ASSUME NEW n \in Monitor, monitor'[n] # Idle PROVE MonitorTrue(n)'
  <2>1. CASE n = m
    <3>1. monitor'[n] = at /\ at.cycle = c
      BY <1>2, <2>1
    <3>2. \A k \in Monitor \ {n} : monitor'[k].step = "collect" => monitor'[k].cycle # c
      BY <1>2, <2>1
    <3>3. row.state = "prepared" => Assessed(c)'
      BY <1>8 DEF Assessed
    <3>4. QED
      BY <1>8, <3>1, <3>2, <3>3 DEF MonitorTrue
  <2>2. CASE n # m
    <3>1. monitor'[n] = monitor[n] /\ MonitorTrue(n) /\ monitor[n] \in MonitorRow
      BY <1>1, <1>2, <1>10, <2>2 DEF ReleaseInv
    <3>2. PICK x \in Cycle : x = monitor[n].cycle
      BY <3>1 DEF MonitorRow
    <3>3. CASE x = c
      <4>1. monitor[n].step \notin {"protect", "receipt", "complete", "collect"}
        BY <2>2, <3>1, <3>2, <3>3 DEF MonitorTrue
      <4>2. QED
        BY <3>1, <4>1 DEF MonitorTrue
    <3>4. CASE x # c
      <4>1. \A k \in Monitor : monitor'[k].step = "collect" => monitor'[k].cycle = c \/ monitor'[k] = monitor[k]
        BY <1>2
      <4>2. QED
        BY <1>7, <3>1, <3>2, <3>4, <4>1 DEF MonitorTrue
    <3>5. QED
      BY <3>3, <3>4
  <2>3. QED
    BY <2>1, <2>2
<1>11. QED
  BY <1>4, <1>6, <1>9, <1>10 DEF ReleaseInv

LEMMA BeginStepIn == ASSUME ReleaseInv, NEW m \in Monitor, NEW c \in Cycle, BeginCycle(m, c) PROVE ReleaseInv'
<1>1. monitor \in [Monitor -> {Idle} \cup MonitorRow] /\ cycles \in [Cycle -> CycleRow]
  BY ReleaseTypes DEF ReleaseInv
<1>2. PICK at \in MonitorRow : at = [step |-> "collect", cycle |-> c, protected |-> FALSE]
  <2>1. [step |-> "collect", cycle |-> c, protected |-> FALSE] \in MonitorRow
    BY DEF MonitorRow
  <2>2. QED
    BY <2>1
<1>3. PICK row \in CycleRow : row = [cycles[c] EXCEPT !.state = "started"]
  BY <1>1 DEF CycleRow
<1>4. row.state = "started"
  BY <1>1, <1>3 DEF CycleRow
<1>5. cycles' = [cycles EXCEPT ![c] = row] /\ monitor' = [monitor EXCEPT ![m] = at] /\ cycles[c].state = "absent"
  BY <1>1, <1>2, <1>3 DEF BeginCycle, Goes
<1>6. ASSUME NEW n \in Monitor, monitor[n].step = "collect" PROVE monitor[n].cycle # c
  <2>1. monitor[n] # Idle
    BY <1>6, ReleaseTypes
  <2>2. QED
    BY <1>5, <1>6, <2>1 DEF ReleaseInv, MonitorTrue
<1>7. at.cycle = c /\ at.step = "collect" /\ at.step \in {"collect", "protect", "complete"} /\ ~Assessed(c)
  BY <1>2, <1>5 DEF Assessed
<1>8. UNCHANGED <<channel, disabled, rollbacks, resolution, monitorMishaps>>
  BY DEF BeginCycle
<1>9. \A n \in Monitor \ {m} : monitor[n].step = "collect" => monitor[n].cycle # c
  BY <1>6
<1>10. QED
  BY <1>4, <1>5, <1>7, <1>8, <1>9, FreshCycle DEF Freshens

LEMMA CollectStep == ASSUME ReleaseInv, NEW m \in Monitor, CollectAndPrepare(m) PROVE ReleaseInv'
<1>1. monitor \in [Monitor -> {Idle} \cup MonitorRow] /\ cycles \in [Cycle -> CycleRow] /\ monitor[m].step = "collect" /\ monitor[m] # Idle
  BY ReleaseTypes DEF ReleaseInv, CollectAndPrepare
<1>2. PICK c \in Cycle : c = monitor[m].cycle
  BY <1>1 DEF MonitorRow
<1>3. cycles[c].state = "started" /\ \A n \in Monitor \ {m} : monitor[n].step = "collect" => monitor[n].cycle # c
  BY <1>1, <1>2 DEF ReleaseInv, MonitorTrue
<1>4. PICK r \in Selected \ ({NoRelease} \cup disabled), shouldStop \in BOOLEAN, autoProtect \in BOOLEAN :
        /\ cycles' = [cycles EXCEPT ![c] = [@ EXCEPT !.state = "prepared", !.revision = channel.revision,
                         !.release = r, !.shouldStop = shouldStop, !.willProtect = autoProtect /\ shouldStop]]
        /\ Goes(m, IF autoProtect /\ shouldStop THEN "protect" ELSE "complete", c, FALSE)
  BY <1>2 DEF CollectAndPrepare
<1>5. PICK will \in BOOLEAN : will = (autoProtect /\ shouldStop)
  OBVIOUS
<1>6. PICK step \in {"protect", "complete"} : step = (IF will THEN "protect" ELSE "complete")
  OBVIOUS
<1>7. r \in Release /\ channel.revision \in Revision
  BY ReleaseTypes DEF ReleaseInv, Selected
<1>8. PICK row \in CycleRow : row = [cycles[c] EXCEPT !.state = "prepared", !.revision = channel.revision,
                         !.release = r, !.shouldStop = shouldStop, !.willProtect = will]
  BY <1>1, <1>7 DEF CycleRow
<1>9. row.state = "prepared" /\ row.willProtect = will
  BY <1>1, <1>8 DEF CycleRow
<1>10. PICK at \in MonitorRow : at = [step |-> step, cycle |-> c, protected |-> FALSE]
  <2>1. [step |-> step, cycle |-> c, protected |-> FALSE] \in MonitorRow
    BY DEF MonitorRow
  <2>2. QED
    BY <2>1
<1>11. cycles' = [cycles EXCEPT ![c] = row]
  BY <1>1, <1>4, <1>5, <1>8
<1>12. monitor' = [monitor EXCEPT ![m] = at]
  BY <1>4, <1>5, <1>6, <1>10 DEF Goes
<1>13. at.cycle = c /\ at.step = step /\ at.protected = FALSE /\ ~Assessed(c)
  BY <1>3, <1>10 DEF Assessed
<1>14. at.step = "complete" => row.willProtect = FALSE /\ at.protected = FALSE
  BY <1>6, <1>9, <1>13
<1>15. UNCHANGED <<channel, disabled, rollbacks, resolution, monitorMishaps>>
  BY DEF CollectAndPrepare
<1>16. at.step \in {"collect", "protect", "complete"} /\ row.state = (IF at.step = "collect" THEN "started" ELSE "prepared")
  BY <1>9, <1>13
<1>17. \A n \in Monitor \ {m} : monitor[n].step = "collect" => monitor[n].cycle # c
  BY <1>3
<1>18. at.cycle = c /\ ~Assessed(c)
  BY <1>13
<1>19. Freshens(m, c, row, at)
  BY <1>11, <1>12, <1>14, <1>15, <1>16, <1>17, <1>18 DEF Freshens
<1>20. QED
  BY <1>19, FreshCycle

LEMMA CompleteStep == ASSUME ReleaseInv, NEW m \in Monitor, CompletesCycle(m) PROVE ReleaseInv'
<1>0. monitor \in [Monitor -> {Idle} \cup MonitorRow] /\ cycles \in [Cycle -> CycleRow] /\ monitor[m].step = "complete" /\ monitor[m] # Idle
  BY ReleaseTypes DEF ReleaseInv, CompletesCycle
<1>1. PICK c \in Cycle, protected \in BOOLEAN : c = monitor[m].cycle /\ protected = monitor[m].protected
  BY <1>0 DEF MonitorRow
<1>2. Assessed(c) /\ (cycles[c].willProtect \/ protected => Confirmed(c))
  BY <1>0, <1>1 DEF ReleaseInv, MonitorTrue
<1>3. /\ monitor' = [monitor EXCEPT ![m] = Idle] /\ UNCHANGED <<channel, disabled, rollbacks, resolution, monitorMishaps>>
      /\ cycles' = IF cycles[c].state = "prepared"
                   THEN [cycles EXCEPT ![c] = [@ EXCEPT !.state = "completed", !.protected = protected]]
                   ELSE cycles
  BY <1>1 DEF CompletesCycle, Leaves
<1>4. PICK row \in CycleRow : row = IF cycles[c].state = "prepared"
          THEN [cycles[c] EXCEPT !.state = "completed", !.protected = protected] ELSE cycles[c]
  BY <1>0 DEF CycleRow
<1>5. /\ row.state = "completed" /\ row.revision = cycles[c].revision /\ row.release = cycles[c].release
      /\ row.willProtect = cycles[c].willProtect
      /\ cycles[c].state = "prepared" => row.protected = protected
      /\ cycles[c].state = "completed" => row.protected = cycles[c].protected
  BY <1>0, <1>2, <1>4 DEF CycleRow, Assessed
<1>6. cycles' = [cycles EXCEPT ![c] = row]
  BY <1>0, <1>3, <1>4
<1>7. \A x \in Cycle : IF x = c THEN cycles'[x] = row ELSE cycles'[x] = cycles[x]
  BY <1>0, <1>6
<1>8. \A n \in Monitor : IF n = m THEN monitor'[n] = Idle ELSE monitor'[n] = monitor[n]
  BY <1>0, <1>3
<1>9. ReleaseTypeOK'
  <2>1. cycles' \in [Cycle -> CycleRow] /\ monitor' \in [Monitor -> {Idle} \cup MonitorRow]
    BY <1>0, <1>3, <1>6
  <2>2. QED
    BY <1>3, <2>1 DEF ReleaseInv, ReleaseTypeOK, CycleRow, MonitorRow
<1>10. \A x \in Cycle : /\ cycles'[x].revision = cycles[x].revision /\ cycles'[x].release = cycles[x].release
                        /\ cycles'[x].willProtect = cycles[x].willProtect
  BY <1>5, <1>7
<1>11. \A x \in Cycle : (Confirmed(x)' <=> Confirmed(x)) /\ (Assessed(x) => Assessed(x)')
  BY <1>3, <1>5, <1>7, <1>10 DEF Confirmed, Assessed
<1>12. \A x \in Cycle : x # c => cycles'[x] = cycles[x]
  BY <1>7
<1>13. ReceiptsStand' /\ ResolutionTrue'
  <2>1. \A b \in rollbacks : b.cycle \in Cycle
    BY ReleaseTypes DEF ReleaseInv
  <2>2. QED
    BY <1>3, <1>10, <1>11, <2>1 DEF ReleaseInv, ReceiptsStand, ResolutionTrue, Selected
<1>14. CompletedTrue'
  <2>1. ASSUME NEW x \in Cycle, cycles'[x].state = "completed", cycles'[x].willProtect \/ cycles'[x].protected PROVE Confirmed(x)'
    <3>1. CASE x # c
      BY <1>11, <1>12, <2>1, <3>1 DEF ReleaseInv, CompletedTrue
    <3>2. CASE x = c /\ cycles[c].state = "completed"
      BY <1>5, <1>7, <1>11, <2>1, <3>2 DEF ReleaseInv, CompletedTrue
    <3>3. CASE x = c /\ cycles[c].state = "prepared"
      BY <1>2, <1>5, <1>7, <1>11, <2>1, <3>3
    <3>4. QED
      BY <1>2, <3>1, <3>2, <3>3 DEF Assessed
  <2>2. QED
    BY <2>1 DEF CompletedTrue
<1>15. ASSUME NEW n \in Monitor, monitor'[n] # Idle PROVE MonitorTrue(n)'
  <2>1. monitor'[n] = monitor[n] /\ MonitorTrue(n) /\ monitor[n] \in MonitorRow
    BY <1>0, <1>8, <1>15 DEF ReleaseInv
  <2>2. PICK x \in Cycle : x = monitor[n].cycle
    BY <2>1 DEF MonitorRow
  <2>3. \A k \in Monitor : monitor'[k].step = "collect" => monitor'[k] = monitor[k]
    BY <1>8, ReleaseTypes
  <2>4. monitor[n].step = "collect" => x # c
    BY <1>2, <2>1, <2>2 DEF MonitorTrue, Assessed
  <2>5. QED
    BY <1>10, <1>11, <1>12, <2>1, <2>2, <2>3, <2>4 DEF MonitorTrue
<1>16. QED
  BY <1>9, <1>13, <1>14, <1>15 DEF ReleaseInv

LEMMA ResolveStep == ASSUME ReleaseInv, ReadChannel \/ SelectRelease \/ GetRelease PROVE ReleaseInv'
<1>0. /\ resolution \in {Idle} \cup [step : {"select", "get", "resolved"}, stable : Release, canary : Release \cup {NoRelease}, stopped : SUBSET Release]
      /\ disabled \subseteq Release /\ channel.stable \in Release /\ channel.canary \in Release \cup {NoRelease}
  BY ReleaseTypes DEF ReleaseInv, ReleaseTypeOK
<1>1. UNCHANGED <<channel, disabled, rollbacks, cycles, monitor, monitorMishaps>>
  BY DEF ReadChannel, SelectRelease, GetRelease
<1>2. /\ resolution' \in {Idle} \cup [step : {"select", "get", "resolved"}, stable : Release, canary : Release \cup {NoRelease}, stopped : SUBSET Release]
      /\ ResolutionTrue'
  <2>1. CASE ReadChannel
    <3>1. resolution' = [step |-> "select", stable |-> channel.stable, canary |-> channel.canary, stopped |-> disabled]
      BY <2>1 DEF ReadChannel, Resolution
    <3>2. QED
      BY <1>0, <1>1, <3>1 DEF ResolutionTrue
  <2>2. CASE SelectRelease
    <3>1. PICK id \in Release : resolution' = [step |-> "get", stable |-> id, canary |-> NoRelease, stopped |-> resolution.stopped]
      BY <1>0, <2>2 DEF SelectRelease, Resolution, Idle
    <3>2. resolution.stopped \in SUBSET Release /\ resolution.stopped \subseteq disabled
      BY <1>0, <2>2 DEF SelectRelease, Idle, ReleaseInv, ResolutionTrue
    <3>3. QED
      BY <1>0, <1>1, <3>1, <3>2 DEF ResolutionTrue
  <2>3. CASE GetRelease
    <3>1. CASE resolution.stable \in disabled
      BY <1>1, <2>3, <3>1 DEF GetRelease, ResolutionTrue, Idle
    <3>2. CASE resolution.stable \notin disabled
      <4>1. resolution' = [step |-> "resolved", stable |-> resolution.stable, canary |-> NoRelease, stopped |-> resolution.stopped]
        BY <2>3, <3>2 DEF GetRelease, Resolution
      <4>2. resolution.stopped \in SUBSET Release /\ resolution.stopped \subseteq disabled /\ resolution.stable \in Release
        BY <1>0, <2>3 DEF GetRelease, Idle, ReleaseInv, ResolutionTrue
      <4>3. QED
        BY <1>0, <1>1, <3>2, <4>1, <4>2 DEF ResolutionTrue
    <3>3. QED
      BY <3>1, <3>2
  <2>4. QED
    BY <2>1, <2>2, <2>3
<1>3. ReleaseTypeOK'
  BY <1>1, <1>2 DEF ReleaseInv, ReleaseTypeOK
<1>4. ReceiptsStand' /\ CompletedTrue' /\ \A m \in Monitor : monitor'[m] # Idle => MonitorTrue(m)'
  BY <1>1 DEF ReleaseInv, ReceiptsStand, CompletedTrue, MonitorTrue, Confirmed, Assessed, Selected
<1>5. QED
  BY <1>2, <1>3, <1>4 DEF ReleaseInv

LEMMA ReleaseSteps == ReleaseInv /\ [ReleaseNext]_releaseVars => ReleaseInv'
<1> SUFFICES ASSUME ReleaseInv, [ReleaseNext]_releaseVars PROVE ReleaseInv'
  OBVIOUS
<1>0. monitor \in [Monitor -> {Idle} \cup MonitorRow] /\ cycles \in [Cycle -> CycleRow] /\ monitorMishaps \in Nat
  BY ReleaseTypes DEF ReleaseInv
<1>1. ASSUME UNCHANGED releaseVars PROVE ReleaseInv'
  <2>1. UNCHANGED <<channel, disabled, rollbacks, cycles, monitor, resolution, monitorMishaps>>
    BY <1>1 DEF releaseVars
  <2>2. Selected' = Selected
    BY <2>1 DEF Selected
  <2>3. QED
    BY <2>1, <2>2, ChannelStep, ReleaseTypes DEF ReleaseInv, ReleaseTypeOK
<1>2. ASSUME NEW m \in Monitor, RunRaises(m) \/ MonitorDies(m) PROVE ReleaseInv'
  <2>1. /\ monitor' = [monitor EXCEPT ![m] = Idle] /\ UNCHANGED <<channel, disabled, rollbacks, cycles, resolution>>
        /\ monitorMishaps' \in Nat
    BY <1>0, <1>2 DEF RunRaises, MonitorDies, Leaves
  <2>2. QED
    BY <2>1, MonitorGoes
<1>3. ASSUME NEW m \in Monitor, NEW c \in Cycle, RecoverCycle(m, c) PROVE ReleaseInv'
  <2>1. PICK step \in {"receipt", "complete"} : step = IF cycles[c].willProtect THEN "receipt" ELSE "complete"
    OBVIOUS
  <2>2. PICK row \in MonitorRow : row = [step |-> step, cycle |-> c, protected |-> FALSE]
    <3>1. [step |-> step, cycle |-> c, protected |-> FALSE] \in MonitorRow
      BY DEF MonitorRow
    <3>2. QED
      BY <3>1
  <2>3. /\ monitor' = [monitor EXCEPT ![m] = row] /\ UNCHANGED <<channel, disabled, rollbacks, cycles, resolution>>
        /\ monitorMishaps' \in Nat /\ Assessed(c)
    BY <1>0, <1>3, <2>1, <2>2 DEF RecoverCycle, Goes, Assessed
  <2>4. row.step = step /\ row.cycle = c /\ ~row.protected
    BY <2>2
  <2>5. row.step = "complete" => (cycles[row.cycle].willProtect \/ row.protected => Confirmed(row.cycle))
    BY <2>1, <2>4
  <2>6. QED
    BY <2>3, <2>4, <2>5, MonitorGoes
<1>4. ASSUME NEW m \in Monitor, ReadReceipt(m) PROVE ReleaseInv'
  <2>1. monitor[m].step = "receipt" /\ monitor[m] # Idle /\ MonitorTrue(m)
    BY <1>4, ReleaseTypes DEF ReadReceipt, ReleaseInv
  <2>2. PICK c \in Cycle : c = monitor[m].cycle
    BY <1>0, <2>1 DEF MonitorRow
  <2>3. /\ Assessed(c) /\ UNCHANGED <<channel, disabled, rollbacks, cycles, resolution>> /\ monitorMishaps' \in Nat
        /\ IF Confirmed(c) THEN Goes(m, "complete", c, TRUE) ELSE Leaves(m)
    BY <1>0, <1>4, <2>1, <2>2 DEF ReadReceipt, MonitorTrue
  <2>4. CASE ~Confirmed(c)
    BY <2>3, <2>4, MonitorGoes DEF Leaves
  <2>5. CASE Confirmed(c)
    <3>1. PICK row \in MonitorRow : row = [step |-> "complete", cycle |-> c, protected |-> TRUE]
      <4>1. [step |-> "complete", cycle |-> c, protected |-> TRUE] \in MonitorRow
        BY DEF MonitorRow
      <4>2. QED
        BY <4>1
    <3>2. monitor' = [monitor EXCEPT ![m] = row] /\ row.cycle = c /\ row.step = "complete"
      BY <2>3, <2>5, <3>1 DEF Goes
    <3>3. QED
      BY <2>3, <2>5, <3>2, MonitorGoes
  <2>6. QED
    BY <2>4, <2>5
<1>5. ASSUME NEW r \in Release, Stop(r) \/ \E canary \in Release \cup {NoRelease} : SetChannel(r, canary) PROVE ReleaseInv'
  BY <1>5, StopStep, SetStep
<1>6. QED
  BY <1>1, <1>2, <1>3, <1>4, <1>5, ByHandStep, ProtectStep, BeginStepIn, CollectStep, CompleteStep, ResolveStep DEF ReleaseNext

LEMMA ProtectionsHold == ReleaseInv => ProtectionHolds
<1> SUFFICES ASSUME ReleaseInv PROVE ProtectionHolds
  OBVIOUS
<1>1. rollbacks \subseteq [cycle : Cycle, revision : Revision, stopped : Release]
  BY ReleaseTypes DEF ReleaseInv
<1>2. ASSUME NEW c \in Cycle, cycles[c].state = "completed", cycles[c].willProtect \/ cycles[c].protected
      PROVE  \E b \in rollbacks : b.cycle = c /\ b.stopped = cycles[c].release
  <2>1. [cycle |-> c, revision |-> cycles[c].revision, stopped |-> cycles[c].release] \in rollbacks
    BY <1>2 DEF ReleaseInv, CompletedTrue, Confirmed
  <2>2. QED
    BY <2>1
<1>3. ASSUME NEW c \in Cycle PROVE Cardinality({b \in rollbacks : b.cycle = c}) <= 1
  <2> DEFINE own == {b \in rollbacks : b.cycle = c}
             one == [cycle |-> c, revision |-> cycles[c].revision, stopped |-> cycles[c].release]
  <2>1. \A b \in own : b = one
    BY <1>1 DEF ReleaseInv, ReceiptsStand
  <2> HIDE DEF one
  <2>2. own = {} \/ own = {one}
    BY <2>1
  <2> HIDE DEF own
  <2>3. Cardinality(own) \in {0, 1}
    BY <2>2, FS_EmptySet, FS_Singleton
  <2>4. Cardinality(own) <= 1
    BY <2>3
  <2>5. QED
    BY <2>4 DEF own
<1>4. QED
  BY <1>2, <1>3 DEF ReleaseInv, ReceiptsStand, ResolutionTrue, ProtectionHolds
-----------------------------------------------------------------------------
(* Support: resolutions and follow-ups *)

IssueState == {"absent", "received", "triaged", "fixing", "verifying", "resolved", "closed", "reopened"}
IssueRow == [state : IssueState, revision : 0..MaxIssueRevision, source : SourceKind]
FollowerRow == [step : {"idle", "deliver", "acknowledge", "defer"}, page : Seq(SupportEvent)]
ResolutionRow == [event : SupportEvent, verified : 1..MaxIssueRevision]
ReceiptRow == [event : SupportEvent, evidence : ReadEvidence]
OnLine == {line[n] : n \in DOMAIN line}

\* What was resolved was reported or observed, and has moved on at most.
IssuesTrue ==
  /\ \A i \in Issue :
       /\ issues[i].state = "absent" <=> issues[i].revision = 0
       /\ issues[i].state = "absent" => issues[i].source = "reported"
  /\ \A r \in resolutions : issues[r.event.issue].state # "absent" /\ r.event.revision <= issues[r.event.issue].revision

\* A worker acknowledges what was told, or has nobody to tell.
FollowersTrue ==
  \A f \in Follower :
    /\ follower[f].step # "idle" => follower[f].page # <<>>
    /\ follower[f].step = "acknowledge" => Head(follower[f].page) \in told \/ ~HasReporter(Head(follower[f].page))

ManagersTrue ==
  \A m \in Manager : manager[m] # NoFollowUp =>
    /\ manager[m].event \in Resolved
    /\ manager[m].step = "store" => manager[m].event \in opened /\ manager[m].read \in ReadEvidence

SupportInv == SupportTypeOK /\ IssuesTrue /\ ResolutionsRest /\ FollowersTrue /\ FollowUpsTrue /\ ManagersTrue

LEMMA IssuesMove ==
  /\ DOMAIN IssueTransitions = IssueState
  /\ IssueTransitions["absent"] = {}
  /\ \A s \in IssueState : IssueTransitions[s] \subseteq IssueState \ {"absent"}
  BY DEF IssueTransitions, IssueState

LEMMA SupportTypes ==
  SupportTypeOK <=>
    /\ issues \in [Issue -> IssueRow] /\ resolutions \subseteq ResolutionRow /\ line \in Seq(SupportEvent)
    /\ resting \subseteq SupportEvent /\ told \subseteq SupportEvent
    /\ engineer \in [Engineer -> {NoEvidence} \cup SupportEvent] /\ follower \in [Follower -> FollowerRow]
    /\ followMishaps \in Nat /\ delivered \subseteq told /\ opened \subseteq delivered
    /\ readReceipts \subseteq ReceiptRow /\ manager \in [Manager -> {NoFollowUp} \cup FollowUp]
  BY IssuesMove DEF SupportTypeOK, IssueRow, ResolutionRow, FollowerRow, ReceiptRow

LEMMA SupportTypesNext ==
  SupportTypeOK' <=>
    /\ issues' \in [Issue -> IssueRow] /\ resolutions' \subseteq ResolutionRow /\ line' \in Seq(SupportEvent)
    /\ resting' \subseteq SupportEvent /\ told' \subseteq SupportEvent
    /\ engineer' \in [Engineer -> {NoEvidence} \cup SupportEvent] /\ follower' \in [Follower -> FollowerRow]
    /\ followMishaps' \in Nat /\ delivered' \subseteq told' /\ opened' \subseteq delivered'
    /\ readReceipts' \subseteq ReceiptRow /\ manager' \in [Manager -> {NoFollowUp} \cup FollowUp]
  BY IssuesMove DEF SupportTypeOK, IssueRow, ResolutionRow, FollowerRow, ReceiptRow

LEMMA OneEvent ==
  ASSUME NEW e \in SupportEvent
  PROVE  e.issue \in Issue /\ e.revision \in 1..MaxIssueRevision /\ e.revision \in Nat
  BY SupportAssumption DEF SupportEvent

LEMMA NobodyAsked == SupportInit => SupportInv
<1> SUFFICES ASSUME SupportInit PROVE SupportInv
  OBVIOUS
<1> USE SupportAssumption
<1>1. SupportTypeOK
  <2>1. issues \in [Issue -> IssueRow]
    BY DEF SupportInit, IssueRow, IssueState, SourceKind
  <2>2. <<>> \in Seq(SupportEvent)
    OBVIOUS
  <2>3. [step |-> "idle", page |-> <<>>] \in FollowerRow
    BY <2>2 DEF FollowerRow
  <2>4. follower \in [Follower -> FollowerRow]
    BY <2>3 DEF SupportInit
  <2>5. QED
    BY <2>1, <2>2, <2>4, SupportTypes DEF SupportInit
<1>2. IssuesTrue /\ ResolutionsRest /\ FollowersTrue
  BY DEF SupportInit, IssuesTrue, ResolutionsRest, FollowersTrue
<1>3. FollowUpsTrue /\ ManagersTrue
  BY DEF SupportInit, FollowUpsTrue, ManagersTrue, NoFollowUp
<1>4. QED
  BY <1>1, <1>2, <1>3 DEF SupportInv

LEMMA JoinedLines ==
  ASSUME NEW front \in Seq(SupportEvent), NEW rest \in Seq(SupportEvent), NEW s, s = front \o rest
  PROVE  /\ s \in Seq(SupportEvent) /\ Len(s) = Len(front) + Len(rest) /\ DOMAIN s = 1..Len(s)
         /\ \A k \in 1..Len(front) : s[k] = front[k] /\ k \in 1..Len(s)
         /\ \A k \in 1..Len(rest) : s[Len(front) + k] = rest[k] /\ Len(front) + k \in 1..Len(s)
  OBVIOUS

LEMMA CutLine ==
  ASSUME NEW s \in Seq(SupportEvent), NEW at \in 1..Len(s)
  PROVE  LET front == SubSeq(s, 1, at - 1)
             rest == SubSeq(s, at + 1, Len(s))
         IN  /\ front \in Seq(SupportEvent) /\ Len(front) = at - 1
             /\ rest \in Seq(SupportEvent) /\ Len(rest) = Len(s) - at
             /\ \A k \in 1..(at - 1) : front[k] = s[k]
             /\ \A k \in 1..(Len(s) - at) : rest[k] = s[at + k]
  OBVIOUS

\* A line without one event still has the others.
LEMMA WithoutOne ==
  ASSUME line \in Seq(SupportEvent), NEW e
  PROVE  /\ Without(e) \in Seq(SupportEvent)
         /\ \A x \in OnLine : x # e => \E k \in DOMAIN Without(e) : Without(e)[k] = x
<1>1. CASE \A k \in DOMAIN line : line[k] # e
  BY <1>1 DEF Without, OnLine
<1>2. CASE \E k \in DOMAIN line : line[k] = e
  <2>1. PICK at \in DOMAIN line : at = CHOOSE k \in DOMAIN line : line[k] = e
    BY <1>2
  <2>2. line[at] = e /\ at \in 1..Len(line) /\ Len(line) \in Nat /\ DOMAIN line = 1..Len(line)
    BY <1>2, <2>1
  <2>3. Without(e) = SubSeq(line, 1, at - 1) \o SubSeq(line, at + 1, Len(line))
    BY <1>2, <2>1 DEF Without
  <2>4. PICK front \in Seq(SupportEvent), rest \in Seq(SupportEvent) :
          /\ Without(e) = front \o rest
          /\ Len(front) = at - 1 /\ Len(rest) = Len(line) - at
          /\ \A k \in 1..(at - 1) : front[k] = line[k]
          /\ \A k \in 1..(Len(line) - at) : rest[k] = line[at + k]
    <3> DEFINE front0 == SubSeq(line, 1, at - 1)
               rest0 == SubSeq(line, at + 1, Len(line))
    <3>1. /\ front0 \in Seq(SupportEvent) /\ Len(front0) = at - 1
          /\ rest0 \in Seq(SupportEvent) /\ Len(rest0) = Len(line) - at
          /\ \A k \in 1..(at - 1) : front0[k] = line[k]
          /\ \A k \in 1..(Len(line) - at) : rest0[k] = line[at + k]
      BY <2>2, CutLine
    <3>2. Without(e) = front0 \o rest0
      BY <2>3
    <3> HIDE DEF front0, rest0
    <3>3. QED
      BY <3>1, <3>2
  <2>5. PICK s : s = Without(e)
    OBVIOUS
  <2>6. /\ s \in Seq(SupportEvent) /\ DOMAIN s = 1..Len(s)
        /\ \A k \in 1..(at - 1) : s[k] = front[k] /\ k \in 1..Len(s)
        /\ \A k \in 1..(Len(line) - at) : s[(at - 1) + k] = rest[k] /\ (at - 1) + k \in 1..Len(s)
    BY <2>4, <2>5, JoinedLines
  <2>7. ASSUME NEW x \in OnLine, x # e PROVE \E k \in DOMAIN s : s[k] = x
    <3>1. PICK k \in 1..Len(line) : line[k] = x
      BY <2>2 DEF OnLine
    <3>2. CASE k < at
      <4>1. k \in 1..(at - 1)
        BY <2>2, <3>2
      <4>2. QED
        BY <2>4, <2>6, <3>1, <4>1
    <3>3. CASE k > at
      <4>1. PICK j \in 1..(Len(line) - at) : k = at + j
        <5>1. k - at \in 1..(Len(line) - at) /\ k = at + (k - at)
          BY <2>2, <3>3
        <5>2. QED
          BY <5>1
      <4>2. rest[j] = x
        BY <2>4, <3>1, <4>1
      <4>3. QED
        BY <2>6, <4>1, <4>2
    <3>4. QED
      BY <2>2, <2>7, <3>1, <3>2, <3>3
  <2>8. QED
    BY <2>5, <2>6, <2>7
<1>3. QED
  BY <1>1, <1>2

LEMMA AppendedLine ==
  ASSUME NEW s \in Seq(SupportEvent), NEW e \in SupportEvent, NEW longer, longer = Append(s, e)
  PROVE  /\ longer \in Seq(SupportEvent)
         /\ \A j \in DOMAIN s : \E k \in DOMAIN longer : longer[k] = s[j]
         /\ \E k \in DOMAIN longer : longer[k] = e
<1>1. longer \in Seq(SupportEvent) /\ Len(longer) = Len(s) + 1 /\ Len(s) \in Nat
  OBVIOUS
<1>2. longer[Len(s) + 1] = e /\ Len(s) + 1 \in DOMAIN longer
  BY <1>1
<1>3. \A j \in DOMAIN s : j \in DOMAIN longer /\ longer[j] = s[j]
  BY <1>1
<1>4. QED
  BY <1>1, <1>2, <1>3

\* An event that failed goes behind the others.
LEMMA RotatedLine ==
  ASSUME line \in Seq(SupportEvent), NEW e \in SupportEvent
  PROVE  /\ Rotated(e) \in Seq(SupportEvent)
         /\ \A x \in OnLine : \E n \in DOMAIN Rotated(e) : Rotated(e)[n] = x
<1>1. CASE e \notin OnLine
  BY <1>1 DEF Rotated, OnLine
<1>2. CASE e \in OnLine
  <2>1. Rotated(e) = Append(Without(e), e) /\ Without(e) \in Seq(SupportEvent)
    BY <1>2, WithoutOne DEF Rotated, OnLine
  <2>2. ASSUME NEW x \in OnLine PROVE \E n \in DOMAIN Append(Without(e), e) : Append(Without(e), e)[n] = x
    <3>1. CASE x = e
      BY <2>1, <3>1, AppendedLine
    <3>2. CASE x # e
      <4>1. PICK n \in DOMAIN Without(e) : Without(e)[n] = x
        BY <3>2, WithoutOne
      <4>2. QED
        BY <2>1, <4>1, AppendedLine
    <3>3. QED
      BY <3>1, <3>2
  <2>3. QED
    BY <2>1, <2>2, AppendedLine
<1>3. QED
  BY <1>1, <1>2

\* What a step may do to the issues: they move on, and nobody becomes a reporter.
IssuesKept ==
  /\ \A e \in SupportEvent : HasReporter(e)' => HasReporter(e)
  /\ \A i \in Issue : issues[i].revision <= issues'[i].revision

LEMMA IssuesRest ==
  ASSUME SupportTypeOK, issues' = issues
  PROVE  IssuesKept
<1>1. \A i \in Issue : issues[i].revision \in Nat
  BY SupportTypes, SupportAssumption DEF IssueRow
<1>2. QED
  BY <1>1 DEF IssuesKept, HasReporter

IssueMoves(i, row) ==
  /\ issues' = [issues EXCEPT ![i] = row]
  /\ row.state # "absent" /\ row.revision > issues[i].revision
  /\ issues[i].state # "absent" => row.source = issues[i].source

LEMMA IssueMoved ==
  ASSUME SupportInv, NEW i \in Issue, NEW row \in IssueRow, IssueMoves(i, row)
  PROVE  /\ IssuesKept /\ issues' \in [Issue -> IssueRow]
         /\ \A j \in Issue :
              /\ issues'[j].state = "absent" <=> issues'[j].revision = 0
              /\ issues'[j].state = "absent" => issues'[j].source = "reported"
         /\ \A r \in resolutions : issues'[r.event.issue].state # "absent" /\ r.event.revision <= issues'[r.event.issue].revision
<1> USE DEF IssueMoves
<1>1. issues \in [Issue -> IssueRow] /\ resolutions \subseteq ResolutionRow
  BY SupportTypes DEF SupportInv
<1>2. \A j \in Issue : issues'[j] = IF j = i THEN row ELSE issues[j]
  BY <1>1
<1>3. \A j \in Issue : issues[j].revision \in Nat /\ issues'[j].revision \in Nat
  BY <1>1, <1>2, SupportAssumption DEF IssueRow
<1>4. \A j \in Issue : issues[j].revision <= issues'[j].revision
  BY <1>2, <1>3
<1>5. \A j \in Issue : issues'[j].source = "reported" => issues[j].source = "reported"
  BY <1>2 DEF SupportInv, IssuesTrue
<1>6. IssuesKept
  BY <1>4, <1>5, OneEvent DEF IssuesKept, HasReporter
<1>7. ASSUME NEW r \in resolutions
      PROVE  issues'[r.event.issue].state # "absent" /\ r.event.revision <= issues'[r.event.issue].revision
  <2>1. r.event.issue \in Issue /\ r.event.revision \in Nat
    BY <1>1, OneEvent DEF ResolutionRow
  <2>2. issues[r.event.issue].state # "absent" /\ r.event.revision <= issues[r.event.issue].revision
    BY DEF SupportInv, IssuesTrue
  <2>3. QED
    BY <1>2, <1>3, <1>4, <2>1, <2>2
<1>8. QED
  BY <1>1, <1>2, <1>3, <1>6, <1>7 DEF SupportInv, IssuesTrue

LEMMA OnePage ==
  ASSUME NEW page \in Seq(SupportEvent), page # <<>>
  PROVE  Head(page) \in SupportEvent /\ Tail(page) \in Seq(SupportEvent) /\ (Len(page) > 1 => Tail(page) # <<>>)
<1>1. Head(page) \in SupportEvent
  OBVIOUS
<1>2. Tail(page) \in Seq(SupportEvent) /\ Len(Tail(page)) = Len(page) - 1 /\ Len(page) \in Nat
  OBVIOUS
<1>3. Len(page) > 1 => Tail(page) # <<>>
  <2>1. \A s \in Seq(SupportEvent) : Len(s) > 0 => s # <<>>
    OBVIOUS
  <2>2. PICK s : s = Tail(page)
    OBVIOUS
  <2>3. s \in Seq(SupportEvent) /\ (Len(page) > 1 => Len(s) > 0)
    <3>1. s \in Seq(SupportEvent) /\ Len(s) = Len(page) - 1 /\ Len(page) \in Nat
      BY <1>2, <2>2
    <3>2. QED
      BY <3>1
  <2>4. Len(page) > 1 => s # <<>>
    BY <2>1, <2>3
  <2>5. QED
    BY <2>2, <2>4
<1>4. QED
  BY <1>1, <1>2, <1>3

\* Workers at rest stay right whatever the issues do.
LEMMA OneFollower ==
  ASSUME SupportInv, NEW f \in Follower
  PROVE  /\ follower[f] \in FollowerRow /\ follower[f].page \in Seq(SupportEvent)
         /\ follower[f].step # "idle" =>
              /\ Head(follower[f].page) \in SupportEvent /\ follower[f].page # <<>>
              /\ Tail(follower[f].page) \in Seq(SupportEvent)
              /\ Len(follower[f].page) > 1 => Tail(follower[f].page) # <<>>
<1>1. follower[f] \in FollowerRow
  BY SupportTypes DEF SupportInv
<1>2. follower[f].page \in Seq(SupportEvent)
  BY <1>1 DEF FollowerRow
<1>3. follower[f].step # "idle" => follower[f].page # <<>>
  BY DEF SupportInv, FollowersTrue
<1>4. QED
  BY <1>1, <1>2, <1>3, OnePage

LEMMA FollowersStay ==
  ASSUME SupportInv, follower' = follower, told \subseteq told', IssuesKept
  PROVE  FollowersTrue'
<1>1. SUFFICES ASSUME NEW f \in Follower
      PROVE  /\ follower[f].step # "idle" => follower[f].page # <<>>
             /\ follower[f].step = "acknowledge" =>
                  Head(follower[f].page) \in told' \/ ~HasReporter(Head(follower[f].page))'
  BY DEF FollowersTrue, HasReporter
<1>2. follower[f].step = "acknowledge" => Head(follower[f].page) \in SupportEvent
  BY OneFollower
<1>3. QED
  BY <1>2 DEF SupportInv, FollowersTrue, IssuesKept

LEMMA ManagersStay ==
  ASSUME SupportInv, manager' = manager, readReceipts' = readReceipts, opened \subseteq opened',
         resolutions \subseteq resolutions', IssuesKept, issues' \in [Issue -> IssueRow]
  PROVE  FollowUpsTrue' /\ ManagersTrue'
<1>1. manager \in [Manager -> {NoFollowUp} \cup FollowUp] /\ issues \in [Issue -> IssueRow]
  BY SupportTypes DEF SupportInv
<1>2. \A i \in Issue : issues[i].revision \in Nat /\ issues'[i].revision \in Nat
  BY <1>1, SupportAssumption DEF IssueRow
<1>3. Resolved \subseteq Resolved'
  BY DEF Resolved
<1>4. ASSUME NEW m \in Manager, manager[m].step = "told", manager[m].historical
      PROVE  issues'[manager[m].event.issue].revision > manager[m].event.revision
  <2>1. manager[m] \in FollowUp
    BY <1>1, <1>4 DEF NoFollowUp
  <2>2. manager[m].event \in SupportEvent
    BY <2>1 DEF FollowUp
  <2>3. manager[m].event.issue \in Issue /\ manager[m].event.revision \in Nat
    BY <2>2, OneEvent
  <2>4. issues[manager[m].event.issue].revision > manager[m].event.revision
    BY <1>4 DEF SupportInv, FollowUpsTrue
  <2>5. QED
    BY <1>2, <2>3, <2>4 DEF IssuesKept
<1>5. FollowUpsTrue'
  BY <1>4 DEF SupportInv, FollowUpsTrue
<1>6. ManagersTrue'
  BY <1>3 DEF SupportInv, ManagersTrue
<1>7. QED
  BY <1>5, <1>6

\* Those that were resolved are still told or on the line.
LEMMA ResolutionsStay ==
  ASSUME SupportInv, IssuesKept, resolutions' = resolutions, told \subseteq told',
         \A x \in OnLine : \/ x \in OnLine'
                           \/ x \in told' \/ ~HasReporter(x)
  PROVE  ResolutionsRest'
<1>1. SUFFICES ASSUME NEW r \in resolutions
      PROVE  /\ r.verified = r.event.revision - 1
             /\ HasReporter(r.event)' => r.event \in told' \/ r.event \in OnLine'
  BY DEF ResolutionsRest, OnLine, HasReporter
<1>2. r.event \in SupportEvent
  BY SupportTypes DEF SupportInv, ResolutionRow
<1>3. /\ r.verified = r.event.revision - 1
      /\ HasReporter(r.event) => r.event \in told \/ r.event \in OnLine
  BY DEF SupportInv, ResolutionsRest, OnLine
<1>4. QED
  BY <1>2, <1>3 DEF IssuesKept

LEMMA IssuesStay ==
  ASSUME SupportInv, issues' = issues, resolutions' = resolutions
  PROVE  IssuesTrue'
  BY DEF SupportInv, IssuesTrue

\* An issue is reported, observed or changed.
LEMMA IssueChanges ==
  ASSUME SupportInv, NEW i \in Issue, ReportIssueByUser(i) \/ ObserveIssue(i) \/ ChangeIssue(i), UNCHANGED followUpVars
  PROVE  SupportInv'
<1> USE SupportAssumption
<1>1. issues \in [Issue -> IssueRow]
  BY SupportTypes DEF SupportInv
<1>2. issues[i] \in IssueRow
  BY <1>1
<1>3. PICK row \in IssueRow : IssueMoves(i, row)
  <2>1. ASSUME NEW kind \in SourceKind, CreateIssue(i, kind)
        PROVE  \E row \in IssueRow : IssueMoves(i, row)
    <3>1. [state |-> "received", revision |-> 1, source |-> kind] \in IssueRow
      BY DEF IssueRow, IssueState
    <3>2. issues[i].revision = 0 /\ issues[i].state = "absent"
      BY <2>1 DEF SupportInv, IssuesTrue, CreateIssue
    <3>3. PICK row \in IssueRow : row = [state |-> "received", revision |-> 1, source |-> kind]
      BY <3>1
    <3>4. row.state = "received" /\ row.revision = 1 /\ issues' = [issues EXCEPT ![i] = row]
      BY <2>1, <3>3 DEF CreateIssue
    <3>5. IssueMoves(i, row)
      BY <3>2, <3>4 DEF IssueMoves
    <3>6. QED
      BY <3>5
  <2>2. ASSUME ChangeIssue(i)
        PROVE  \E row \in IssueRow : IssueMoves(i, row)
    <3>1. PICK state \in IssueTransitions[issues[i].state] \ {"resolved"} : issues' = Changed(i, state)
      BY <2>2 DEF ChangeIssue
    <3>2. issues[i].state \in IssueState
      BY <1>2 DEF IssueRow
    <3>3. state \in IssueState /\ state # "absent"
      BY <3>1, <3>2, IssuesMove
    <3>4. issues[i].revision + 1 \in 0..MaxIssueRevision /\ issues[i].source \in SourceKind
      BY <1>2, <2>2 DEF IssueRow, ChangeIssue
    <3>5. PICK row \in IssueRow : row = [state |-> state, revision |-> issues[i].revision + 1, source |-> issues[i].source]
      BY <3>3, <3>4 DEF IssueRow
    <3>6. /\ row.state = state /\ row.revision = issues[i].revision + 1 /\ row.source = issues[i].source
      BY <3>5
    <3>7. issues' = [issues EXCEPT ![i] = row]
      BY <1>1, <1>2, <3>1, <3>5 DEF Changed, IssueRow
    <3>8. issues[i].revision \in Nat
      BY <1>2 DEF IssueRow
    <3>9. IssueMoves(i, row)
      BY <3>3, <3>6, <3>7, <3>8 DEF IssueMoves
    <3>10. QED
      BY <3>9
  <2>3. QED
    BY <2>1, <2>2 DEF ReportIssueByUser, ObserveIssue, SourceKind
<1>4. UNCHANGED <<resolutions, line, resting, told, engineer, follower, followMishaps, followUpVars>>
  BY DEF ReportIssueByUser, ObserveIssue, CreateIssue, ChangeIssue
<1>5. /\ IssuesKept /\ issues' \in [Issue -> IssueRow]
      /\ IssuesTrue'
  BY <1>3, <1>4, IssueMoved DEF IssuesTrue
<1>6. SupportTypeOK'
  BY <1>4, <1>5, SupportTypes, SupportTypesNext DEF SupportInv, followUpVars
<1>7. OnLine' = OnLine
  BY <1>4 DEF OnLine
<1>8. FollowersTrue' /\ ResolutionsRest'
  BY <1>4, <1>5, <1>7, FollowersStay, ResolutionsStay
<1>9. FollowUpsTrue' /\ ManagersTrue'
  BY <1>4, <1>5, ManagersStay DEF followUpVars
<1>10. QED
  BY <1>5, <1>6, <1>8, <1>9 DEF SupportInv

\* A step that leaves the issues, the resolutions and what managers know alone.
LEMMA QuietStep ==
  ASSUME SupportInv, SupportTypeOK', UNCHANGED <<issues, resolutions, followUpVars>>, told \subseteq told',
         \A x \in OnLine : x \in OnLine' \/ x \in told' \/ ~HasReporter(x)
  PROVE  IssuesTrue' /\ ResolutionsRest' /\ FollowUpsTrue' /\ ManagersTrue'
<1>1. SupportTypeOK
  BY DEF SupportInv
<1>2. IssuesKept
  BY <1>1, IssuesRest
<1>3. issues' \in [Issue -> IssueRow]
  BY SupportTypesNext
<1>4. IssuesTrue'
  BY IssuesStay
<1>5. ResolutionsRest'
  BY <1>2, ResolutionsStay
<1>6. FollowUpsTrue' /\ ManagersTrue'
  BY <1>2, <1>3, ManagersStay DEF followUpVars
<1>7. QED
  BY <1>4, <1>5, <1>6

LEMMA EngineerVerifies ==
  ASSUME SupportInv, NEW i \in Issue, NEW e \in Engineer, VerifyResolution(e, i), UNCHANGED followUpVars
  PROVE  SupportInv'
<1> USE SupportAssumption DEF VerifyResolution
<1>1. SupportTypeOK /\ issues[i] \in IssueRow
  BY SupportTypes DEF SupportInv
<1>2. issues[i].revision \in 1..MaxIssueRevision
  <2>1. issues[i].revision \in 0..MaxIssueRevision
    BY <1>1 DEF IssueRow
  <2>2. issues[i].revision # 0
    BY DEF SupportInv, IssuesTrue
  <2>3. QED
    BY <2>1, <2>2
<1>3. [issue |-> i, revision |-> issues[i].revision] \in SupportEvent
  BY <1>2 DEF SupportEvent
<1>4. engineer' \in [Engineer -> {NoEvidence} \cup SupportEvent]
  BY <1>1, <1>3, SupportTypes
<1>5. SupportTypeOK'
  BY <1>1, <1>4, SupportTypes, SupportTypesNext DEF followUpVars
<1>6. OnLine' = OnLine /\ told' = told /\ IssuesKept
  BY <1>1, IssuesRest DEF OnLine
<1>7. FollowersTrue'
  BY <1>6, FollowersStay
<1>8. QED
  BY <1>5, <1>6, <1>7, QuietStep DEF SupportInv

\* An issue is resolved for the revision that was verified, or not at all.
LEMMA EngineerResolves ==
  ASSUME SupportInv, NEW e \in Engineer, ResolveIssue(e), UNCHANGED followUpVars
  PROVE  SupportInv'
<1> USE SupportAssumption
<1>1. /\ SupportTypeOK /\ issues \in [Issue -> IssueRow] /\ resolutions \subseteq ResolutionRow
      /\ engineer \in [Engineer -> {NoEvidence} \cup SupportEvent] /\ line \in Seq(SupportEvent)
  BY SupportTypes DEF SupportInv
<1>2. engineer[e] \in SupportEvent
  BY <1>1 DEF ResolveIssue
<1>3. PICK i : i = engineer[e].issue
  OBVIOUS
<1>4. PICK n0 : n0 = engineer[e].revision
  OBVIOUS
<1>5. i \in Issue /\ n0 \in 1..MaxIssueRevision /\ issues[i] \in IssueRow
  BY <1>1, <1>2, <1>3, <1>4, OneEvent
<1>6. engineer' \in [Engineer -> {NoEvidence} \cup SupportEvent]
  BY <1>1 DEF ResolveIssue
<1>7. UNCHANGED <<resting, told, follower, followMishaps, followUpVars>>
  BY DEF ResolveIssue
<1>8. CASE ~Resolvable(i, n0)
  <2>1. UNCHANGED <<issues, resolutions, line>>
    BY <1>3, <1>4, <1>8 DEF ResolveIssue
  <2>2. SupportTypeOK'
    BY <1>1, <1>6, <1>7, <2>1, SupportTypes, SupportTypesNext DEF followUpVars
  <2>3. OnLine' = OnLine /\ IssuesKept
    BY <1>1, <2>1, IssuesRest DEF OnLine
  <2>4. FollowersTrue'
    BY <1>7, <2>3, FollowersStay
  <2>5. QED
    BY <1>7, <2>1, <2>2, <2>3, <2>4, QuietStep DEF SupportInv
<1>9. CASE Resolvable(i, n0)
  <2>1. PICK event : event = [issue |-> i, revision |-> n0 + 1]
    OBVIOUS
  <2>2. issues[i].revision = n0 /\ issues[i].state # "absent"
    <3>1. "resolved" \in IssueTransitions[issues[i].state] /\ issues[i].revision = n0
      BY <1>9 DEF Resolvable
    <3>2. QED
      BY <3>1, IssuesMove
  <2>3. /\ event.revision <= MaxIssueRevision /\ issues' = Changed(i, "resolved")
        /\ resolutions' = resolutions \cup {[event |-> event, verified |-> n0]} /\ line' = Append(line, event)
    BY <1>3, <1>4, <1>9, <2>1, <2>2 DEF ResolveIssue
  <2>4. event \in SupportEvent /\ event.issue = i /\ event.revision = n0 + 1
    BY <1>5, <2>1, <2>3 DEF SupportEvent
  <2>5. PICK r \in ResolutionRow : r = [event |-> event, verified |-> n0]
    BY <1>5, <2>4 DEF ResolutionRow
  <2>6. r.event = event /\ r.verified = n0 /\ resolutions' = resolutions \cup {r}
    BY <2>3, <2>5
  <2>7. PICK row \in IssueRow : row = [state |-> "resolved", revision |-> n0 + 1, source |-> issues[i].source]
    <3>1. issues[i].source \in SourceKind /\ n0 + 1 \in 0..MaxIssueRevision
      BY <1>5, <2>3, <2>4 DEF IssueRow
    <3>2. QED
      BY <3>1 DEF IssueRow, IssueState
  <2>8. row.state = "resolved" /\ row.revision = n0 + 1 /\ row.source = issues[i].source
    BY <2>7
  <2>9. issues' = [issues EXCEPT ![i] = row]
    <3>1. row = [state |-> "resolved", revision |-> issues[i].revision + 1, source |-> issues[i].source]
      BY <2>2, <2>7
    <3>2. issues' = Changed(i, "resolved")
      BY <2>3
    <3>3. QED
      BY <1>1, <1>5, <3>1, <3>2 DEF Changed, IssueRow
  <2>10. IssueMoves(i, row)
    BY <1>5, <2>2, <2>8, <2>9 DEF IssueMoves
  <2>11. /\ IssuesKept /\ issues' \in [Issue -> IssueRow]
         /\ \A j \in Issue :
              /\ issues'[j].state = "absent" <=> issues'[j].revision = 0
              /\ issues'[j].state = "absent" => issues'[j].source = "reported"
         /\ \A q \in resolutions : issues'[q.event.issue].state # "absent" /\ q.event.revision <= issues'[q.event.issue].revision
    BY <1>5, <2>10, IssueMoved
  <2>12. IssuesTrue'
    <3>1. issues'[i] = row
      BY <1>1, <1>5, <2>9
    <3>2. issues'[r.event.issue].state # "absent" /\ r.event.revision <= issues'[r.event.issue].revision
      BY <1>5, <2>4, <2>6, <2>8, <3>1
    <3>3. QED
      BY <2>6, <2>11, <3>2 DEF IssuesTrue
  <2>13. line' \in Seq(SupportEvent) /\ (\A x \in OnLine : x \in OnLine') /\ event \in OnLine'
    <3>1. PICK next : next = Append(line, event)
      OBVIOUS
    <3>2. /\ next \in Seq(SupportEvent) /\ \A j \in DOMAIN line : \E k \in DOMAIN next : next[k] = line[j]
          /\ \E k \in DOMAIN next : next[k] = event
      BY <1>1, <2>4, <3>1, AppendedLine
    <3>3. line' = next
      BY <2>3, <3>1
    <3>4. QED
      BY <3>2, <3>3 DEF OnLine
  <2>14. SupportTypeOK'
    BY <1>1, <1>6, <1>7, <2>6, <2>11, <2>13, SupportTypes, SupportTypesNext DEF followUpVars
  <2>15. ResolutionsRest'
    <3>1. SUFFICES ASSUME NEW q \in resolutions \cup {r}
          PROVE  /\ q.verified = q.event.revision - 1
                 /\ HasReporter(q.event)' => q.event \in told' \/ q.event \in OnLine'
      BY <2>6 DEF ResolutionsRest, OnLine, HasReporter
    <3>2. CASE q = r
      BY <1>5, <2>4, <2>6, <2>13, <3>2
    <3>3. CASE q \in resolutions
      <4>1. q.event \in SupportEvent
        BY <1>1, <3>3 DEF ResolutionRow
      <4>2. /\ q.verified = q.event.revision - 1
            /\ HasReporter(q.event) => q.event \in told \/ q.event \in OnLine
        BY <3>3 DEF SupportInv, ResolutionsRest, OnLine
      <4>3. HasReporter(q.event)' => HasReporter(q.event)
        BY <2>11, <4>1 DEF IssuesKept
      <4>4. QED
        BY <1>7, <2>13, <4>2, <4>3
    <3>4. QED
      BY <3>2, <3>3
  <2>16. FollowersTrue'
    BY <1>7, <2>11, FollowersStay
  <2>17. FollowUpsTrue' /\ ManagersTrue'
    BY <1>7, <2>6, <2>11, ManagersStay DEF followUpVars
  <2>18. QED
    BY <2>12, <2>14, <2>15, <2>16, <2>17 DEF SupportInv
<1>10. QED
  BY <1>8, <1>9

\* A page holds at least one event of the line.
LEMMA WorkerFetches ==
  ASSUME SupportInv, NEW f \in Follower, FetchEvents(f), UNCHANGED followUpVars
  PROVE  SupportInv'
<1> USE SupportAssumption
<1>1. SupportTypeOK /\ line \in Seq(SupportEvent) /\ follower \in [Follower -> FollowerRow]
  BY SupportTypes DEF SupportInv
<1>2. FirstDue \subseteq 1..Len(line) /\ FirstDue # {} /\ Len(line) \in Nat
  <2>1. FirstDue # {}
    BY DEF FetchEvents
  <2>2. FirstDue \subseteq DOMAIN line
    BY DEF FirstDue, Due
  <2>3. DOMAIN line = 1..Len(line) /\ Len(line) \in Nat
    BY <1>1
  <2>4. QED
    BY <2>1, <2>2, <2>3
<1>3. PICK c \in Nat : c = Cardinality(FirstDue) /\ c # 0
  <2>1. IsFiniteSet(1..Len(line))
    BY <1>2, FS_Interval
  <2>2. IsFiniteSet(FirstDue)
    BY <1>2, <2>1, FS_Subset
  <2>3. Cardinality(FirstDue) \in Nat
    BY <2>2, FS_CardinalityType
  <2>4. Cardinality(FirstDue) # 0
    BY <1>2, <2>2, FS_EmptySet
  <2>5. QED
    BY <2>3, <2>4
<1>4. PICK place \in [1..c -> FirstDue] :
        follower' = [follower EXCEPT ![f] = [step |-> "deliver", page |-> [k \in DOMAIN place |-> line[place[k]]]]]
  BY <1>3 DEF FetchEvents
<1>5. PICK page : page = [k \in 1..c |-> line[place[k]]]
  OBVIOUS
<1>6. page \in Seq(SupportEvent) /\ page # <<>>
  <2>1. \A k \in 1..c : line[place[k]] \in SupportEvent
    <3>1. \A k \in 1..c : place[k] \in 1..Len(line)
      BY <1>2, <1>4
    <3>2. \A k \in 1..Len(line) : line[k] \in SupportEvent
      BY <1>1
    <3>3. QED
      BY <3>1, <3>2
  <2>2. page \in [1..c -> SupportEvent]
    BY <1>5, <2>1
  <2>3. 1 \in DOMAIN page
    BY <1>3, <1>5
  <2>4. DOMAIN <<>> = {}
    OBVIOUS
  <2>5. QED
    BY <1>3, <2>2, <2>3, <2>4
<1>7. PICK row \in FollowerRow : row = [step |-> "deliver", page |-> page]
  BY <1>6 DEF FollowerRow
<1>8. follower' = [follower EXCEPT ![f] = row] /\ row.step = "deliver" /\ row.page = page
  BY <1>4, <1>5, <1>7
<1>9. UNCHANGED <<issues, resolutions, line, resting, told, engineer, followMishaps, followUpVars>>
  BY DEF FetchEvents
<1>10. SupportTypeOK'
  BY <1>1, <1>8, <1>9, SupportTypes, SupportTypesNext DEF followUpVars
<1>11. FollowersTrue'
  BY <1>1, <1>6, <1>8, <1>9 DEF SupportInv, FollowersTrue, HasReporter
<1>12. OnLine' = OnLine
  BY <1>9 DEF OnLine
<1>13. QED
  BY <1>9, <1>10, <1>11, <1>12, QuietStep DEF SupportInv

LEMMA OthersFollow ==
  ASSUME SupportInv, NEW f \in Follower, NEW row \in FollowerRow, follower' = [follower EXCEPT ![f] = row],
         issues' = issues, told \subseteq told', row.step # "idle" => row.page # <<>>,
         row.step = "acknowledge" => Head(row.page) \in told' \/ ~HasReporter(Head(row.page))
  PROVE  FollowersTrue' /\ follower' \in [Follower -> FollowerRow]
<1>1. follower \in [Follower -> FollowerRow]
  BY SupportTypes DEF SupportInv
<1>2. \A g \in Follower : follower'[g] = IF g = f THEN row ELSE follower[g]
  BY <1>1
<1>3. QED
  BY <1>1, <1>2 DEF SupportInv, FollowersTrue, HasReporter

\* A notification is kept, refused, or lost on the way.
LEMMA WorkerDelivers ==
  ASSUME SupportInv, NEW f \in Follower, DeliverEvent(f), UNCHANGED followUpVars
  PROVE  SupportInv'
<1> USE SupportAssumption
<1>1. SupportTypeOK /\ follower \in [Follower -> FollowerRow] /\ followMishaps \in Nat /\ told \subseteq SupportEvent
      /\ delivered \subseteq told
  BY SupportTypes DEF SupportInv
<1>2. PICK event : event = Head(follower[f].page)
  OBVIOUS
<1>3. event \in SupportEvent /\ follower[f].page \in Seq(SupportEvent) /\ follower[f].page # <<>>
  BY <1>2, OneFollower DEF DeliverEvent
<1>4. /\ UNCHANGED <<issues, resolutions, line, resting, engineer, followUpVars>>
      /\ told' \in {told, told \cup {event}} /\ followMishaps' \in {followMishaps, followMishaps + 1}
  BY <1>2 DEF DeliverEvent, FollowMishap
<1>5. PICK step \in {"acknowledge", "defer"} :
        /\ Follows(f, step)
        /\ step = "acknowledge" => event \in told' \/ ~HasReporter(event)
  BY <1>2 DEF DeliverEvent
<1>6. PICK row \in FollowerRow : row = [step |-> step, page |-> follower[f].page]
  BY <1>3 DEF FollowerRow
<1>7. row.step = step /\ row.page = follower[f].page
  BY <1>6
<1>8. follower' = [follower EXCEPT ![f] = row]
  <2>1. follower' = [follower EXCEPT ![f] = [follower[f] EXCEPT !.step = step]]
    BY <1>5 DEF Follows
  <2>2. follower[f] \in FollowerRow
    BY <1>1
  <2>3. [follower[f] EXCEPT !.step = step] = row
    BY <1>6, <2>2 DEF FollowerRow
  <2>4. QED
    BY <2>1, <2>3
<1>9. FollowersTrue' /\ follower' \in [Follower -> FollowerRow]
  BY <1>2, <1>3, <1>4, <1>5, <1>7, <1>8, OthersFollow
<1>10. told' \subseteq SupportEvent /\ followMishaps' \in Nat /\ told \subseteq told'
  BY <1>1, <1>3, <1>4
<1>11. SupportTypeOK'
  BY <1>1, <1>4, <1>9, <1>10, SupportTypes, SupportTypesNext DEF followUpVars
<1>12. OnLine' = OnLine
  BY <1>4 DEF OnLine
<1>13. QED
  BY <1>4, <1>9, <1>10, <1>11, <1>12, QuietStep DEF SupportInv

\* A worker goes on to the next event of its page.
LEMMA WorkerGoesOn ==
  ASSUME SupportInv, NEW f \in Follower, follower[f].step # "idle", NextEvent(f), issues' = issues, told' = told
  PROVE  FollowersTrue' /\ follower' \in [Follower -> FollowerRow]
<1>1. follower \in [Follower -> FollowerRow]
  BY SupportTypes DEF SupportInv
<1>2. PICK page : page = follower[f].page
  OBVIOUS
<1>3. Tail(page) \in Seq(SupportEvent) /\ (Len(page) > 1 => Tail(page) # <<>>)
  <2>1. page \in Seq(SupportEvent) /\ page # <<>>
    BY <1>2, OneFollower
  <2>2. QED
    BY <2>1, OnePage
<1>4. PICK step \in {"deliver", "idle"} : step = IF Len(page) > 1 THEN "deliver" ELSE "idle"
  BY Zenon
<1>5. PICK rest \in Seq(SupportEvent) : rest = Tail(page)
  BY <1>3
<1>6. PICK row \in FollowerRow : row = [step |-> step, page |-> rest]
  BY DEF FollowerRow
<1>7. row.step = step /\ row.page = rest
  BY <1>6
<1>8. follower' = [follower EXCEPT ![f] = row]
  BY <1>1, <1>2, <1>4, <1>5, <1>6 DEF NextEvent
<1>9. /\ row.step # "idle" => row.page # <<>>
      /\ row.step # "acknowledge"
  BY <1>3, <1>4, <1>5, <1>7
<1>10. QED
  BY <1>8, <1>9, OthersFollow

\* Only what was told, or has nobody to tell, leaves the line.
LEMMA WorkerAcknowledges ==
  ASSUME SupportInv, NEW f \in Follower, AcknowledgeEvent(f), UNCHANGED followUpVars
  PROVE  SupportInv'
<1> USE SupportAssumption
<1>1. SupportTypeOK /\ follower \in [Follower -> FollowerRow] /\ followMishaps \in Nat /\ line \in Seq(SupportEvent)
  BY SupportTypes DEF SupportInv
<1>2. PICK event : event = Head(follower[f].page)
  OBVIOUS
<1>3. event \in SupportEvent /\ (event \in told \/ ~HasReporter(event))
  BY <1>2, OneFollower DEF AcknowledgeEvent, SupportInv, FollowersTrue
<1>4. /\ UNCHANGED <<issues, resolutions, resting, told, engineer, followUpVars>>
      /\ line' \in {line, Without(event)} /\ followMishaps' \in {followMishaps, followMishaps + 1}
  BY <1>2 DEF AcknowledgeEvent, FollowMishap
<1>5. FollowersTrue' /\ follower' \in [Follower -> FollowerRow]
  BY <1>4, WorkerGoesOn DEF AcknowledgeEvent
<1>6. line' \in Seq(SupportEvent) /\ \A x \in OnLine : x # event => x \in OnLine'
  <2>1. CASE line' = line
    BY <1>1, <2>1 DEF OnLine
  <2>2. CASE line' = Without(event)
    BY <1>1, <2>2, WithoutOne DEF OnLine
  <2>3. QED
    BY <1>4, <2>1, <2>2
<1>7. SupportTypeOK'
  BY <1>1, <1>4, <1>5, <1>6, SupportTypes, SupportTypesNext DEF followUpVars
<1>8. QED
  BY <1>3, <1>4, <1>5, <1>6, <1>7, QuietStep DEF SupportInv

LEMMA WorkerDefers ==
  ASSUME SupportInv, NEW f \in Follower, DeferEvent(f), UNCHANGED followUpVars
  PROVE  SupportInv'
<1> USE SupportAssumption
<1>1. SupportTypeOK /\ follower \in [Follower -> FollowerRow] /\ followMishaps \in Nat /\ line \in Seq(SupportEvent)
      /\ resting \subseteq SupportEvent
  BY SupportTypes DEF SupportInv
<1>2. PICK event : event = Head(follower[f].page)
  OBVIOUS
<1>3. event \in SupportEvent
  BY <1>2, OneFollower DEF DeferEvent
<1>4. /\ UNCHANGED <<issues, resolutions, told, engineer, followUpVars>>
      /\ line' \in {line, Rotated(event)} /\ resting' \subseteq resting \cup {event}
      /\ followMishaps' \in {followMishaps, followMishaps + 1}
  BY <1>2 DEF DeferEvent, FollowMishap
<1>5. FollowersTrue' /\ follower' \in [Follower -> FollowerRow]
  BY <1>4, WorkerGoesOn DEF DeferEvent
<1>6. line' \in Seq(SupportEvent) /\ \A x \in OnLine : x \in OnLine'
  <2>1. CASE line' = line
    BY <1>1, <2>1 DEF OnLine
  <2>2. CASE line' = Rotated(event)
    BY <1>1, <1>3, <2>2, RotatedLine DEF OnLine
  <2>3. QED
    BY <1>4, <2>1, <2>2
<1>7. resting' \subseteq SupportEvent /\ followMishaps' \in Nat
  BY <1>1, <1>3, <1>4
<1>8. SupportTypeOK'
  BY <1>1, <1>4, <1>5, <1>6, <1>7, SupportTypes, SupportTypesNext DEF followUpVars
<1>9. QED
  BY <1>4, <1>5, <1>6, <1>8, QuietStep DEF SupportInv

\* A crash, and the time after which a delivery is tried again.
LEMMA WorkerStops ==
  ASSUME SupportInv, UNCHANGED followUpVars,
         (\E f \in Follower : FollowerDies(f)) \/ (\E later \in SUBSET resting : RetryTimesCome(later))
  PROVE  SupportInv'
<1> USE SupportAssumption
<1>1. SupportTypeOK /\ follower \in [Follower -> FollowerRow] /\ followMishaps \in Nat /\ resting \subseteq SupportEvent
  BY SupportTypes DEF SupportInv
<1>2. UNCHANGED <<issues, resolutions, line, told, engineer, followUpVars>> /\ OnLine' = OnLine
  BY DEF FollowerDies, RetryTimesCome, OnLine
<1>3. CASE \E f \in Follower : FollowerDies(f)
  <2>1. PICK f \in Follower : FollowerDies(f)
    BY <1>3
  <2>2. <<>> \in Seq(SupportEvent)
    OBVIOUS
  <2>3. PICK row \in FollowerRow : row = [step |-> "idle", page |-> <<>>]
    BY <2>2 DEF FollowerRow
  <2>4. row.step = "idle" /\ follower' = [follower EXCEPT ![f] = row]
    BY <2>1, <2>3 DEF FollowerDies
  <2>5. FollowersTrue' /\ follower' \in [Follower -> FollowerRow]
    BY <1>2, <2>4, OthersFollow
  <2>6. resting' = resting /\ followMishaps' \in Nat
    BY <1>1, <2>1 DEF FollowerDies, FollowMishap
  <2>7. SupportTypeOK'
    BY <1>1, <1>2, <2>5, <2>6, SupportTypes, SupportTypesNext DEF followUpVars
  <2>8. QED
    BY <1>2, <2>5, <2>7, QuietStep DEF SupportInv
<1>4. CASE \E later \in SUBSET resting : RetryTimesCome(later)
  <2>1. resting' \subseteq SupportEvent /\ UNCHANGED <<follower, followMishaps>>
    BY <1>1, <1>4 DEF RetryTimesCome
  <2>2. SupportTypeOK'
    BY <1>1, <1>2, <2>1, SupportTypes, SupportTypesNext DEF followUpVars
  <2>3. FollowersTrue'
    BY <1>1, <1>2, <2>1, FollowersStay, IssuesRest
  <2>4. QED
    BY <1>2, <2>2, <2>3, QuietStep DEF SupportInv
<1>5. QED
  BY <1>3, <1>4

Revised(row, held, step, read, late) ==
  \/ row = [held EXCEPT !.step = step] /\ read = held.read /\ late = held.historical
  \/ row = [held EXCEPT !.step = step, !.read = read] /\ late = held.historical
  \/ row = [held EXCEPT !.step = step, !.read = read, !.historical = late]

LEMMA HeldChanged ==
  ASSUME NEW held \in FollowUp, NEW step \in {"receipt", "evidence", "store", "again", "told"}, NEW read \in ReadEvidence \cup {"not_verified"},
         NEW late \in BOOLEAN, NEW row,
         Revised(row, held, step, read, late)
  PROVE  /\ row \in FollowUp /\ row.step = step /\ row.event = held.event /\ row.delivery = held.delivery
         /\ row.read = read /\ row.historical = late
<1>1. CASE row = [held EXCEPT !.step = step] /\ read = held.read /\ late = held.historical
  BY <1>1 DEF FollowUp
<1>2. CASE row = [held EXCEPT !.step = step, !.read = read] /\ late = held.historical
  BY <1>2 DEF FollowUp
<1>3. CASE row = [held EXCEPT !.step = step, !.read = read, !.historical = late]
  BY <1>3 DEF FollowUp
<1>4. QED
  BY <1>1, <1>2, <1>3 DEF Revised

LEMMA OneManager ==
  ASSUME SupportInv, NEW m \in Manager, manager[m].step # "idle"
  PROVE  /\ manager[m] \in FollowUp /\ manager[m].event \in SupportEvent
         /\ manager[m].event \in Resolved
         /\ manager[m].step = "store" => manager[m].event \in opened /\ manager[m].read \in ReadEvidence
<1>1. manager[m] \in {NoFollowUp} \cup FollowUp
  BY SupportTypes DEF SupportInv
<1>2. manager[m] # NoFollowUp
  BY DEF NoFollowUp
<1>3. QED
  BY <1>1, <1>2 DEF SupportInv, ManagersTrue, FollowUp

\* A manager tells the reporter by hand.
LEMMA ManagerNotifies ==
  ASSUME SupportInv, NEW m \in Manager, NEW event \in Resolved, NotifyReporter(m, event)
  PROVE  SupportInv'
<1>1. SupportTypeOK /\ told \subseteq SupportEvent /\ resolutions \subseteq ResolutionRow /\ delivered \subseteq told
  BY SupportTypes DEF SupportInv
<1>2. event \in SupportEvent
  BY <1>1 DEF Resolved, ResolutionRow
<1>3. /\ UNCHANGED <<issues, resolutions, line, resting, engineer, follower, followMishaps, followUpVars>>
      /\ told' = told \cup {event}
  BY DEF NotifyReporter
<1>4. told' \subseteq SupportEvent /\ told \subseteq told' /\ OnLine' = OnLine
  BY <1>1, <1>2, <1>3 DEF OnLine
<1>5. SupportTypeOK'
  BY <1>1, <1>3, <1>4, SupportTypes, SupportTypesNext DEF followUpVars
<1>6. FollowersTrue'
  BY <1>1, <1>3, <1>4, FollowersStay, IssuesRest
<1>7. QED
  BY <1>3, <1>4, <1>5, <1>6, QuietStep DEF SupportInv

\* What a manager may hold of an event.
HoldsTrue(row) ==
  /\ row.event \in Resolved
  /\ row.step = "store" => row.event \in opened /\ row.read \in ReadEvidence
  /\ row.step = "told" =>
       /\ row.read # "not_verified" =>
            row.delivery = "delivered" /\ [event |-> row.event, evidence |-> row.read] \in readReceipts
       /\ row.historical => issues[row.event.issue].revision > row.event.revision

FollowingUp == <<issues, resolutions, line, resting, told, engineer, follower, followMishaps>>

LEMMA ReportersRest ==
  ASSUME SupportInv, UNCHANGED FollowingUp
  PROVE  IssuesTrue' /\ ResolutionsRest' /\ FollowersTrue'
<1>1. SupportTypeOK /\ OnLine' = OnLine
  BY DEF SupportInv, FollowingUp, OnLine
<1>2. IssuesKept
  BY <1>1, IssuesRest DEF FollowingUp
<1>3. QED
  BY <1>1, <1>2, IssuesStay, ResolutionsStay, FollowersStay DEF FollowingUp

LEMMA ManagerActs ==
  ASSUME SupportInv, NEW m \in Manager, NEW row \in {NoFollowUp} \cup FollowUp,
         manager' = [manager EXCEPT ![m] = row], UNCHANGED <<delivered, opened, readReceipts, FollowingUp>>,
         row # NoFollowUp => HoldsTrue(row)
  PROVE  SupportInv'
<1>1. SupportTypeOK /\ manager \in [Manager -> {NoFollowUp} \cup FollowUp]
  BY SupportTypes DEF SupportInv
<1>2. \A p \in Manager : manager'[p] = IF p = m THEN row ELSE manager[p]
  BY <1>1
<1>3. manager' \in [Manager -> {NoFollowUp} \cup FollowUp]
  BY <1>1
<1>4. SupportTypeOK'
  BY <1>1, <1>3, SupportTypes, SupportTypesNext DEF FollowingUp
<1>5. Resolved' = Resolved
  BY DEF Resolved, FollowingUp
<1>6. ManagersTrue'
  BY <1>2, <1>5 DEF SupportInv, ManagersTrue, HoldsTrue
<1>7. FollowUpsTrue'
  <2>1. row.step = "told" => HoldsTrue(row)
    BY DEF NoFollowUp
  <2>2. QED
    BY <1>2, <2>1 DEF SupportInv, FollowUpsTrue, HoldsTrue, FollowingUp
<1>8. IssuesTrue' /\ ResolutionsRest' /\ FollowersTrue'
  BY ReportersRest
<1>9. QED
  BY <1>4, <1>6, <1>7, <1>8 DEF SupportInv

\* What a manager reads first says nothing yet.
LEMMA ContextRead ==
  ASSUME SupportInv, NEW m \in Manager, NEW event \in Resolved, NEW step \in {"receipt", "evidence"},
         FollowUpContext(m, event, step), UNCHANGED FollowingUp
  PROVE  SupportInv'
<1>1. event \in SupportEvent
  BY SupportTypes DEF SupportInv, Resolved, ResolutionRow
<1>2. DeliveryOf(event) \in {"not_admitted", "queued", "delivered"}
  BY DEF DeliveryOf
<1>3. [step |-> step, event |-> event, delivery |-> DeliveryOf(event), read |-> "not_verified", historical |-> FALSE]
        \in FollowUp
  BY <1>1, <1>2 DEF FollowUp
<1>4. PICK row \in FollowUp :
        row = [step |-> step, event |-> event, delivery |-> DeliveryOf(event), read |-> "not_verified", historical |-> FALSE]
  BY <1>3
<1>5. row.step = step /\ row.event = event
  BY <1>4
<1>6. manager' = [manager EXCEPT ![m] = row] /\ UNCHANGED <<delivered, opened, readReceipts>>
  BY <1>4 DEF FollowUpContext, Manages
<1>7. HoldsTrue(row)
  BY <1>5 DEF HoldsTrue
<1>8. QED
  BY <1>6, <1>7, ManagerActs

\* A manager says that the reporter has read only beside a delivered notification.
LEMMA ManagerTells ==
  ASSUME SupportInv, NEW m \in Manager, TellFollowUp(m), UNCHANGED FollowingUp
  PROVE  SupportInv'
<1>1. readReceipts \subseteq ReceiptRow /\ issues \in [Issue -> IssueRow] /\ resolutions \subseteq ResolutionRow
  BY SupportTypes DEF SupportInv
<1>2. PICK held \in FollowUp : held = manager[m]
  BY OneManager DEF TellFollowUp
<1>3. held.event \in SupportEvent /\ held.event \in Resolved /\ held.step = "receipt"
  BY <1>2, OneManager DEF TellFollowUp
<1>4. PICK event \in SupportEvent : event = held.event
  BY <1>3
<1>5. PICK late \in BOOLEAN : late = (issues[event.issue].revision # event.revision)
  OBVIOUS
<1>6. PICK read \in IF ReceiptOf(event) = {} THEN {"not_verified"} ELSE ReceiptOf(event) :
        Manages(m, [held EXCEPT !.step = "told", !.read = read, !.historical = late])
  BY <1>2, <1>4, <1>5 DEF TellFollowUp
<1>7. read # "not_verified" => held.delivery = "delivered" /\ read \in ReceiptOf(event)
  BY <1>2, <1>4, <1>6 DEF TellFollowUp, ReceiptFits
<1>8. ASSUME read \in ReceiptOf(event)
      PROVE  read \in ReadEvidence /\ [event |-> event, evidence |-> read] \in readReceipts
  <2>1. PICK r \in readReceipts : r.event = event /\ r.evidence = read
    BY <1>8 DEF ReceiptOf
  <2>2. r = [event |-> event, evidence |-> read] /\ r.evidence \in ReadEvidence
    BY <1>1, <2>1 DEF ReceiptRow
  <2>3. QED
    BY <2>1, <2>2
<1>9. read \in ReadEvidence \cup {"not_verified"}
  BY <1>6, <1>8
<1>10. PICK row : row = [held EXCEPT !.step = "told", !.read = read, !.historical = late]
  OBVIOUS
<1>11. /\ row \in FollowUp /\ row.step = "told" /\ row.event = event /\ row.delivery = held.delivery
       /\ row.read = read /\ row.historical = late
  <2>1. Revised(row, held, "told", read, late)
    BY <1>10 DEF Revised
  <2>2. QED
    BY <1>4, <1>9, <2>1, HeldChanged
<1>12. manager' = [manager EXCEPT ![m] = row] /\ UNCHANGED <<delivered, opened, readReceipts>>
  BY <1>6, <1>10 DEF Manages
<1>14. late => issues[event.issue].revision > event.revision
  <2>1. PICK r \in resolutions : r.event = event
    BY <1>3, <1>4 DEF Resolved
  <2>2. event.revision <= issues[event.issue].revision
    BY <2>1 DEF SupportInv, IssuesTrue
  <2>3. event.revision \in Nat /\ issues[event.issue].revision \in Nat
    BY <1>1, OneEvent, SupportAssumption DEF IssueRow
  <2>4. CASE issues[event.issue].revision = event.revision
    BY <1>5, <2>4
  <2>5. CASE issues[event.issue].revision # event.revision
    BY <2>2, <2>3, <2>5
  <2>6. QED
    BY <2>4, <2>5
<1>15. HoldsTrue(row)
  BY <1>3, <1>4, <1>7, <1>8, <1>11, <1>14 DEF HoldsTrue
<1>16. QED
  BY <1>11, <1>12, <1>15, ManagerActs

LEMMA ReadingVerified ==
  ASSUME SupportInv, NEW m \in Manager, NEW evidence \in ReadEvidence, VerifyRead(m, evidence), UNCHANGED FollowingUp
  PROVE  SupportInv'
<1>1. PICK held \in FollowUp : held = manager[m]
  BY OneManager DEF VerifyRead
<1>2. held.event \in Resolved /\ held.event \in opened
  BY <1>1, OneManager DEF VerifyRead
<1>3. PICK row : row = [held EXCEPT !.step = "store", !.read = evidence]
  OBVIOUS
<1>4. PICK late \in BOOLEAN : late = held.historical
  BY DEF FollowUp
<1>5. row \in FollowUp /\ row.step = "store" /\ row.event = held.event /\ row.read = evidence
  <2>1. Revised(row, held, "store", evidence, late)
    BY <1>3, <1>4 DEF Revised
  <2>2. QED
    BY <2>1, HeldChanged
<1>6. manager' = [manager EXCEPT ![m] = row] /\ UNCHANGED <<delivered, opened, readReceipts>>
  BY <1>1, <1>3 DEF VerifyRead, Manages
<1>7. HoldsTrue(row)
  BY <1>2, <1>5 DEF HoldsTrue
<1>8. QED
  BY <1>5, <1>6, <1>7, ManagerActs

\* An event has one receipt.
LEMMA ReceiptRecorded ==
  ASSUME SupportInv, NEW m \in Manager, RecordReceipt(m), UNCHANGED FollowingUp
  PROVE  SupportInv'
<1>1. /\ SupportTypeOK /\ readReceipts \subseteq ReceiptRow /\ manager \in [Manager -> {NoFollowUp} \cup FollowUp]
      /\ delivered \subseteq told /\ opened \subseteq delivered
  BY SupportTypes DEF SupportInv
<1>2. PICK held \in FollowUp : held = manager[m]
  BY OneManager DEF RecordReceipt
<1>3. held.event \in SupportEvent /\ held.event \in Resolved /\ held.event \in opened
  BY <1>2, OneManager DEF RecordReceipt
<1>4. PICK row : row = [held EXCEPT !.step = "again"]
  OBVIOUS
<1>5. held.read \in ReadEvidence \cup {"not_verified"} /\ held.historical \in BOOLEAN
  BY DEF FollowUp
<1>6. manager' = [manager EXCEPT ![m] = row] /\ UNCHANGED <<delivered, opened>>
  <2>1. manager' = [manager EXCEPT ![m] = [manager[m] EXCEPT !.step = "again"]]
    BY <1>1 DEF RecordReceipt
  <2>2. UNCHANGED <<delivered, opened>>
    BY DEF RecordReceipt
  <2>3. QED
    BY <1>2, <1>4, <2>1, <2>2
<1>7. row \in FollowUp /\ row.step = "again" /\ row.event = held.event
  <2>1. Revised(row, held, "again", held.read, held.historical)
    BY <1>4 DEF Revised
  <2>2. QED
    BY <1>5, <2>1, HeldChanged
<1>8. ReceiptOf(held.event) \subseteq {held.read}
      /\ readReceipts' = readReceipts \cup {[event |-> held.event, evidence |-> held.read]}
  BY <1>2 DEF RecordReceipt
<1>9. PICK r \in ReceiptRow : r = [event |-> held.event, evidence |-> held.read]
  <2>1. held.read \in ReadEvidence
    BY <1>2, OneManager DEF RecordReceipt
  <2>2. QED
    BY <1>3, <2>1 DEF ReceiptRow
<1>10. r.event = held.event /\ r.evidence = held.read /\ readReceipts' = readReceipts \cup {r}
  BY <1>8, <1>9
<1>11. manager' \in [Manager -> {NoFollowUp} \cup FollowUp]
  BY <1>1, <1>6, <1>7
<1>12. readReceipts' \subseteq ReceiptRow
  BY <1>1, <1>10
<1>13. SupportTypeOK'
  BY <1>1, <1>6, <1>11, <1>12, SupportTypes, SupportTypesNext DEF FollowingUp
<1>14. \A p \in Manager : manager'[p] = IF p = m THEN row ELSE manager[p]
  BY <1>1, <1>6
<1>15. Resolved' = Resolved
  BY DEF Resolved, FollowingUp
<1>16. ManagersTrue'
  BY <1>3, <1>6, <1>7, <1>14, <1>15 DEF SupportInv, ManagersTrue
<1>17. ASSUME NEW q \in readReceipts, q.event = held.event
       PROVE  q = r
  <2>1. q.evidence \in ReceiptOf(held.event)
    BY <1>17 DEF ReceiptOf
  <2>2. q.evidence = r.evidence /\ q \in ReceiptRow
    BY <1>1, <1>8, <1>10, <2>1
  <2>3. QED
    BY <1>9, <1>10, <1>17, <2>2 DEF ReceiptRow
<1>18. \A q, s \in readReceipts' : q.event \in opened /\ (q.event = s.event => q = s)
  BY <1>3, <1>10, <1>17 DEF SupportInv, FollowUpsTrue
<1>19. readReceipts \subseteq readReceipts' /\ issues' = issues
  BY <1>10 DEF FollowingUp
<1>20. FollowUpsTrue'
  BY <1>6, <1>7, <1>14, <1>18, <1>19 DEF SupportInv, FollowUpsTrue
<1>21. IssuesTrue' /\ ResolutionsRest' /\ FollowersTrue'
  BY ReportersRest
<1>22. QED
  BY <1>13, <1>16, <1>20, <1>21 DEF SupportInv

\* A notification arrives, and is read.
LEMMA ReporterMoves ==
  ASSUME SupportInv, NEW event \in Resolved, NotificationArrives(event) \/ ReporterReads(event), UNCHANGED FollowingUp
  PROVE  SupportInv'
<1>1. SupportTypeOK /\ delivered \subseteq told /\ opened \subseteq delivered
  BY SupportTypes DEF SupportInv
<1>2. /\ UNCHANGED <<readReceipts, manager>> /\ told' = told
      /\ delivered' \subseteq told' /\ opened' \subseteq delivered' /\ opened \subseteq opened'
  BY <1>1 DEF NotificationArrives, ReporterReads, FollowingUp
<1>3. SupportTypeOK'
  BY <1>1, <1>2, SupportTypes, SupportTypesNext DEF FollowingUp
<1>4. FollowUpsTrue' /\ ManagersTrue'
  BY <1>1, <1>2, <1>3, ManagersStay, IssuesRest, SupportTypesNext DEF FollowingUp
<1>5. IssuesTrue' /\ ResolutionsRest' /\ FollowersTrue'
  BY ReportersRest
<1>6. QED
  BY <1>3, <1>4, <1>5 DEF SupportInv

LEMMA SupportSteps == SupportInv /\ [SupportNext]_supportVars => SupportInv'
<1> SUFFICES ASSUME SupportInv, [SupportNext]_supportVars PROVE SupportInv'
  OBVIOUS
<1>1. CASE UNCHANGED supportVars
  <2>1. SupportTypeOK /\ UNCHANGED FollowingUp /\ UNCHANGED <<manager, readReceipts, opened, delivered>>
    BY <1>1 DEF SupportInv, supportVars, followUpVars, FollowingUp
  <2>2. SupportTypeOK'
    BY <2>1, SupportTypes, SupportTypesNext DEF FollowingUp
  <2>3. FollowUpsTrue' /\ ManagersTrue'
    BY <2>1, <2>2, ManagersStay, IssuesRest, SupportTypesNext DEF FollowingUp
  <2>4. IssuesTrue' /\ ResolutionsRest' /\ FollowersTrue'
    BY <2>1, ReportersRest
  <2>5. QED
    BY <2>2, <2>3, <2>4 DEF SupportInv
<1>2. CASE SupportStep /\ UNCHANGED followUpVars
  <2>1. CASE \E i \in Issue : ReportIssueByUser(i) \/ ObserveIssue(i) \/ ChangeIssue(i)
    BY <1>2, <2>1, IssueChanges
  <2>2. CASE \E i \in Issue, e \in Engineer : VerifyResolution(e, i)
    BY <1>2, <2>2, EngineerVerifies
  <2>3. CASE \E e \in Engineer : ResolveIssue(e)
    BY <1>2, <2>3, EngineerResolves
  <2>4. CASE \E f \in Follower : Follow(f)
    BY <1>2, <2>4, WorkerFetches, WorkerDelivers, WorkerAcknowledges, WorkerDefers DEF Follow
  <2>5. CASE (\E f \in Follower : FollowerDies(f)) \/ (\E later \in SUBSET resting : RetryTimesCome(later))
    BY <1>2, <2>5, WorkerStops
  <2>6. QED
    BY <1>2, <2>1, <2>2, <2>3, <2>4, <2>5 DEF SupportStep
<1>3. CASE \E m \in Manager, event \in Resolved : NotifyReporter(m, event)
  BY <1>3, ManagerNotifies
<1>4. CASE FollowUpNext
  <2>1. UNCHANGED FollowingUp
    BY <1>4 DEF FollowUpNext, FollowingUp
  <2>2. CASE \E event \in Resolved : NotificationArrives(event) \/ ReporterReads(event)
    BY <2>1, <2>2, ReporterMoves
  <2>3. ASSUME NEW event \in Resolved, NEW m \in Manager, BeginFollowUp(m, event) PROVE SupportInv'
    BY <2>1, <2>3, ContextRead DEF BeginFollowUp
  <2>4. ASSUME NEW m \in Manager, TellFollowUp(m) \/ RecordReceipt(m) \/ AskAgain(m) \/ FollowUpEnds(m) PROVE SupportInv'
    <3>1. CASE TellFollowUp(m)
      BY <2>1, <3>1, ManagerTells
    <3>2. CASE RecordReceipt(m)
      BY <2>1, <3>2, ReceiptRecorded
    <3>3. CASE AskAgain(m)
      <4>1. manager[m].event \in Resolved
        BY <3>3, OneManager DEF AskAgain
      <4>2. QED
        BY <2>1, <3>3, <4>1, ContextRead DEF AskAgain
    <3>4. CASE FollowUpEnds(m)
      BY <2>1, <3>4, ManagerActs DEF FollowUpEnds, Manages
    <3>5. QED
      BY <2>4, <3>1, <3>2, <3>3, <3>4
  <2>5. ASSUME NEW m \in Manager, NEW evidence \in ReadEvidence, VerifyRead(m, evidence) PROVE SupportInv'
    BY <2>1, <2>5, ReadingVerified
  <2>6. QED
    BY <1>4, <2>2, <2>3, <2>4, <2>5 DEF FollowUpNext
<1>5. QED
  BY <1>1, <1>2, <1>3, <1>4 DEF SupportNext

LEMMA ResolutionsAreHeld == SupportInv => ResolutionsHold
  BY DEF SupportInv, ResolutionsHold
-----------------------------------------------------------------------------
(* The services side by side *)

\* A step of the suite is a step of each service, or leaves it alone.
LEMMA EachAlone ==
  [ServicesNext]_servicesVars =>
    /\ focus' = focus
    /\ [DueNext]_dueVars /\ [FeedNext]_feedVars /\ [PayNext]_payVars /\ [OutboxNext]_outboxVars
    /\ [AdmissionNext]_admissionVars /\ [ReleaseNext]_releaseVars /\ [SandboxNext]_sandboxVars
    /\ [DeviceNext]_deviceVars /\ [GrantNext]_grantVars /\ [HandoffNext]_handoffVars
    /\ [InboxNext]_inboxVars /\ [ProjectionNext]_projectionVars /\ [SupportNext]_supportVars
<1> SUFFICES ASSUME [ServicesNext]_servicesVars
    PROVE  /\ focus' = focus
           /\ [DueNext]_dueVars /\ [FeedNext]_feedVars /\ [PayNext]_payVars /\ [OutboxNext]_outboxVars
           /\ [AdmissionNext]_admissionVars /\ [ReleaseNext]_releaseVars /\ [SandboxNext]_sandboxVars
           /\ [DeviceNext]_deviceVars /\ [GrantNext]_grantVars /\ [HandoffNext]_handoffVars
           /\ [InboxNext]_inboxVars /\ [ProjectionNext]_projectionVars /\ [SupportNext]_supportVars
  OBVIOUS
<1>0. focus' = focus
  BY DEF ServicesNext, servicesVars, Only
<1>1. [DueNext]_dueVars
  BY DEF ServicesNext, servicesVars, Only
<1>2. [FeedNext]_feedVars
  BY DEF ServicesNext, servicesVars, Only
<1>3. [PayNext]_payVars
  BY DEF ServicesNext, servicesVars, Only
<1>4. [OutboxNext]_outboxVars
  BY DEF ServicesNext, servicesVars, Only
<1>5. [AdmissionNext]_admissionVars
  BY DEF ServicesNext, servicesVars, Only
<1>6. [ReleaseNext]_releaseVars
  BY DEF ServicesNext, servicesVars, Only
<1>7. [SandboxNext]_sandboxVars
  BY DEF ServicesNext, servicesVars, Only
<1>8. [DeviceNext]_deviceVars
  BY DEF ServicesNext, servicesVars, Only
<1>9. [GrantNext]_grantVars
  BY DEF ServicesNext, servicesVars, Only
<1>10. [HandoffNext]_handoffVars
  BY DEF ServicesNext, servicesVars, Only
<1>11. [InboxNext]_inboxVars
  BY DEF ServicesNext, servicesVars, Only
<1>12. [ProjectionNext]_projectionVars
  BY DEF ServicesNext, servicesVars, Only
<1>13. [SupportNext]_supportVars
  BY DEF ServicesNext, servicesVars, Only
<1>14. QED
  BY <1>0, <1>1, <1>2, <1>3, <1>4, <1>5, <1>6, <1>7, <1>8, <1>9, <1>10, <1>11, <1>12, <1>13

\* What is told to people and monitors is so: a protection that is reported did
\* happen, a resolution rests on the revision that was verified, a page of the
\* Inbox hides nothing and what was delivered stays delivered, for any people,
\* processes, mishaps and limits of pages (observation/cycles.js:21-28,
\* support/service.js:52-63, inbox/store.js:24-28, 78-88).
THEOREM OutcomesAreTrue == ServicesSpec => []OutcomesHold
<1> DEFINE Inv == ReleaseInv /\ SupportInv /\ InboxInv /\ ProjectionInv
<1>1. ServicesInit => Inv
  BY NothingReleased, NobodyAsked, NothingReceived, NothingProjected DEF ServicesInit
<1>2. Inv /\ [ServicesNext]_servicesVars => Inv'
  BY EachAlone, ReleaseSteps, SupportSteps, InboxSteps, ProjectionSteps
<1>3. Inv => OutcomesHold
  BY ProtectionsHold, ResolutionsAreHeld DEF InboxInv, ProjectionInv, OutcomesHold
<1>4. QED
  BY <1>1, <1>2, <1>3, PTL DEF ServicesSpec

\* Every variable of every service keeps to the states its tables and processes
\* can be in (the schema.sql of each service).
THEOREM ServicesTypeCorrect == ServicesSpec => []ServicesTypeOK
<1> DEFINE Inv ==
      /\ focus \in Service
      /\ DueInv /\ FeedInv /\ PayInv /\ OutboxInv /\ AdmissionInv /\ ReleaseInv /\ SandboxInv
      /\ DeviceInv /\ GrantInv /\ HandoffInv /\ InboxInv /\ ProjectionInv /\ SupportInv
<1>1. ServicesInit => Inv
  BY DueStarts, Initially, InitiallyUnpaid, InitiallyEmpty, AdmissionStarts, NothingReleased, InitiallyOnCourse,
     InitiallyKnown, GrantsStart, HandoffsStart, NothingReceived, NothingProjected, NobodyAsked DEF ServicesInit
<1>2. Inv /\ [ServicesNext]_servicesVars => Inv'
  BY EachAlone, DueWorks, NextKeepsInv, PayStep, OutboxStep, AdmissionSteps, ReleaseSteps, SandboxStep, StepKnows,
     GrantSteps, HandoffsStep, InboxSteps, ProjectionSteps, SupportSteps
<1>3. Inv => ServicesTypeOK
  BY DEF ServicesTypeOK, DueInv, FeedInv, PayInv, OutboxInv, AdmissionInv, ReleaseInv, SandboxInv, DeviceInv,
         GrantInv, HandoffInv, InboxInv, ProjectionInv, SupportInv
<1>4. QED
  BY <1>1, <1>2, <1>3, PTL DEF ServicesSpec
=============================================================================
