---------------------------- MODULE Evaluations ----------------------------
(***************************************************************************)
(* Evaluation runs: a candidate is executed and graded case by case while   *)
(* its host may abort it, a port may throw and the sink of the evidence may  *)
(* fail.  A gate decides on one run; a comparison asks whether the candidate *)
(* falls behind a baseline, a run that came to its end before, anywhere.     *)
(***************************************************************************)
EXTENDS Naturals, FiniteSets, Functions

CONSTANTS
  Case,        \* the schedule: cases with their repeats
  Category(_), \* the category of each
  CheckName,   \* names of checks, all required
  MaxScore     \* a score of one, in parts

ASSUME EvaluationsAssumption == IsFiniteSet(Case) /\ MaxScore \in Nat

VARIABLES
  baseline,    \* the records of the baseline
  runRecords,  \* the records of the candidate
  runAt,       \* the case it is at, and how far
  runState,    \* "running", "returned" or "thrown"
  runAborted,  \* its signal: "no" or "yes"
  sunk         \* the cases whose evidence the sink took

evaluationVars == <<baseline, runRecords, runAt, runState, runAborted, sunk>>

NoRecord == [status |-> "none"]
BetweenCases == [step |-> "next"]

CaseRecord(status, score, passed, checks) ==
  [status |-> status, score |-> score, passed |-> passed, checks |-> checks]

\* What a grader returns: with the checks that passed.
Graded == [status : {"graded"}, score : 0..MaxScore, passed : {"yes", "no"}, checks : SUBSET CheckName]

\* A baseline passed a case, with some score and checks, or broke on it.
EvaluationsInit ==
  /\ baseline \in [Case -> {g \in Graded : g.passed = "yes"} \cup {CaseRecord("error", 0, "no", {})}]
  /\ runRecords = [c \in Case |-> NoRecord] /\ runAt = BetweenCases
  /\ runState = "running" /\ runAborted = "no" /\ sunk = {}

Unrecorded == {c \in Case : runRecords[c] = NoRecord}

RunGoes(at) == runAt' = at /\ UNCHANGED <<baseline, runRecords, runState, runAborted, sunk>>

AbortRun ==
  /\ runState = "running" /\ runAborted' = "yes"
  /\ UNCHANGED <<baseline, runRecords, runAt, runState, sunk>>

\* A case that an aborted run comes to is not executed.
NextCase ==
  /\ runState = "running" /\ runAt.step = "next"
  /\ \E c \in Unrecorded :
       RunGoes(IF runAborted = "yes" THEN [step |-> "push", case |-> c, record |-> CaseRecord("cancelled", 0, "no", {})]
               ELSE [step |-> "execute", case |-> c])

Pushes(record) == RunGoes([step |-> "push", case |-> runAt.case, record |-> record])

Thrown == CaseRecord(IF runAborted = "yes" THEN "cancelled" ELSE "error", 0, "no", {})

\* execute throws or returns an observation, which is graded unless the run was aborted.
ExecuteCase ==
  /\ runState = "running" /\ runAt.step = "execute"
  /\ Pushes(Thrown) \/ (runAborted = "no" /\ RunGoes([step |-> "grade", case |-> runAt.case]))

\* A grade given to an aborted run keeps its checks, and neither passes nor scores.
Counted(grade) ==
  IF runAborted = "yes" THEN [grade EXCEPT !.status = "cancelled", !.score = 0, !.passed = "no"] ELSE grade

GradeCase ==
  /\ runState = "running" /\ runAt.step = "grade"
  /\ \E record \in {Counted(grade) : grade \in Graded} \cup {Thrown} : Pushes(record)

\* The record is pushed, then given to the sink: a sink that fails stops the run.
PushRecord ==
  LET c == runAt.case IN
    /\ runState = "running" /\ runAt.step = "push"
    /\ runRecords' = [runRecords EXCEPT ![c] = runAt.record]
    /\ runAt' = BetweenCases
    /\ \/ /\ sunk' = sunk \cup {c}
          /\ runState' = IF Unrecorded = {c} THEN "returned" ELSE runState
       \/ runState' = "thrown" /\ UNCHANGED sunk
    /\ UNCHANGED <<baseline, runAborted>>

EvaluationsNext == AbortRun \/ NextCase \/ ExecuteCase \/ GradeCase \/ PushRecord
-----------------------------------------------------------------------------
(* evaluateGate and compareEvaluations *)

ValidRecord(record) == record.status = "graded" /\ record.passed = "yes"

ScoreOf(record) == IF record.status = "graded" THEN record.score ELSE 0

PassedCases(records) == {c \in Case : ValidRecord(records[c])}

GateMut(records, minPassed, minScore, minCategory) ==
  /\ \A c \in Case : records[c].status # "none" /\ CheckName \subseteq records[c].checks
  /\ Cardinality(PassedCases(records)) >= minPassed
  /\ SumFunctionOnSet([c \in Case |-> ScoreOf(records[c])], Case) >= minScore

\* Thresholds: cases that pass, over all and in each category, and the sum of scores.
Gate(records, minPassed, minScore, minCategory) ==
  /\ \A c \in Case : records[c].status \notin {"none", "cancelled"} /\ CheckName \subseteq records[c].checks
  /\ Cardinality(PassedCases(records)) >= minPassed
  /\ SumFunctionOnSet([c \in Case |-> ScoreOf(records[c])], Case) >= minScore
  /\ \A c \in Case :
       Cardinality({d \in PassedCases(records) : Category(d) = Category(c)}) >= minCategory

\* A case passed before and does not now, scores less, or lost a check.
Regresses(before, after) ==
  \/ ValidRecord(before) /\ ~ValidRecord(after)
  \/ after.score < before.score
  \/ ~(before.checks \subseteq after.checks)

NoRegressions == \A c \in Case : ~Regresses(baseline[c], runRecords[c])
-----------------------------------------------------------------------------
EvaluationsTypeOK ==
  /\ runState \in {"running", "returned", "thrown"} /\ runAborted \in {"no", "yes"}
  /\ \A c \in Case : runRecords[c] # NoRecord => runRecords[c].score \in 0..MaxScore
  /\ runState = "returned" => Unrecorded = {} /\ sunk = Case

\* Whatever is aborted, thrown or lost: a run that passes some gate executed and graded
\* each case, or met an error there, with its evidence in the sink; and a candidate
\* that returned without regressions, and was not cut short, passes every gate its
\* baseline passes (evaluation/runner.js:29-59, 61-97).
GatesAgree ==
  runState = "returned" =>
    \A minPassed \in 0..Cardinality(Case), minScore \in 0..(MaxScore * Cardinality(Case)), minCategory \in 0..1 :
      LET passes(records) == Gate(records, minPassed, minScore, minCategory)
          cut == \E c \in Case : runRecords[c].status = "cancelled" IN
        /\ passes(runRecords) => ~cut /\ sunk = Case
        /\ passes(baseline) /\ NoRegressions /\ ~cut => passes(runRecords)
=============================================================================
