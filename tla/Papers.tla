------------------------------- MODULE Papers -------------------------------
(***************************************************************************)
(* Documents of a Workspace that mean something: peer reviews, each bound   *)
(* to an id for ever, and the plan of a Task, replaced at the revision its  *)
(* author read.  A caller checks policy, Task and artifact before it asks   *)
(* the Workspace, and again after; the Workspace knows only revisions.      *)
(***************************************************************************)
EXTENDS Naturals

CONSTANTS
  ReviewId,
  Peer,            \* principals who review, and who write the plan
  Author,          \* the author of the artifact, a principal
  NoReview,        \* no earlier review
  Findings,        \* a verdict and what it rests on
  MaxArtifact,     \* revisions of the artifact
  MaxPlan,         \* bound: revisions of the plan
  MaxPapers,       \* bound: calls begun
  MaxPaperMishaps  \* bound: changes of policy, calls that break off

\* What stands for no review is the id of none.
ASSUME PapersAssumption == NoReview \notin ReviewId

\* Bounds are numbers.
ASSUME PapersBounds == MaxArtifact \in Nat /\ MaxPlan \in Nat /\ MaxPaperMishaps \in Nat

VARIABLES
  reviews,          \* the review under each id, at revision 1 of its document
  readable,         \* authorize and readArtifact: "yes" or "no"
  taskPlan,         \* the plan of the Task: what each revision was written after
  taskEnds,         \* the Task: "live" or "ended"
  papers,           \* the calls under way
  reviewsAnswered,  \* the reviews callers were answered with
  afterEnd,         \* plan updates of each peer since the Task ended
  papersBegun, paperMishaps

paperVars == <<reviews, readable, taskPlan, taskEnds, papers, reviewsAnswered, afterEnd, papersBegun,
    paperMishaps>>

NoPaper == [step |-> "idle"]
NoDocument == [reviewer |-> Author, on |-> 0, says |-> "nothing", previous |-> NoReview]

PapersInit ==
  /\ reviews = [i \in ReviewId |-> NoDocument] /\ readable = "yes"
  /\ taskPlan = 0 /\ taskEnds = "live"
  /\ papers = [p \in Peer |-> NoPaper] /\ reviewsAnswered = {}
  /\ afterEnd = [p \in Peer |-> 0] /\ papersBegun = 0 /\ paperMishaps = 0

PaperMishap == paperMishaps < MaxPaperMishaps /\ paperMishaps' = paperMishaps + 1

PolicyFlips ==
  /\ PaperMishap /\ readable' = IF readable = "yes" THEN "no" ELSE "yes"
  /\ UNCHANGED <<reviews, taskPlan, taskEnds, papers, reviewsAnswered, afterEnd, papersBegun>>

PlannedTaskEnds ==
  /\ taskEnds = "live" /\ taskEnds' = "ended"
  /\ UNCHANGED <<reviews, readable, taskPlan, papers, reviewsAnswered, afterEnd, papersBegun, paperMishaps>>

PaperBecomes(p, paper) ==
  /\ papers' = [papers EXCEPT ![p] = paper]
  /\ UNCHANGED <<readable, taskEnds>>

PaperStep(p, step) == PaperBecomes(p, [papers[p] EXCEPT !.step = step])

\* A refusal, an error or a crash: the caller may begin the same call again.
RefusesPaper(p) == PaperBecomes(p, NoPaper)

BreaksPaper(p) ==
  /\ papers[p] # NoPaper /\ PaperMishap /\ RefusesPaper(p)
  /\ UNCHANGED <<reviews, taskPlan, reviewsAnswered, afterEnd, papersBegun>>

BeginPaper(p, paper) ==
  /\ papers[p] = NoPaper /\ papersBegun < MaxPapers /\ papersBegun' = papersBegun + 1
  /\ PaperBecomes(p, paper)
  /\ UNCHANGED <<reviews, taskPlan, reviewsAnswered, afterEnd, paperMishaps>>
-----------------------------------------------------------------------------
(* PeerReviews.record *)

BeginReview(p, i, on, says, previous) ==
  BeginPaper(p, [step |-> "target", id |-> i,
            record |-> [reviewer |-> p, on |-> on, says |-> says, previous |-> previous]])

PapersSteady == UNCHANGED <<reviews, taskPlan, reviewsAnswered, afterEnd, papersBegun, paperMishaps>>

\* Policy, and the artifact with its author, who is another principal.
ReadTarget(p) ==
  /\ papers[p].step = "target"
  /\ IF readable = "yes" /\ p # Author THEN PaperStep(p, "previous") ELSE RefusesPaper(p)
  /\ PapersSteady

\* An earlier review of the artifact that can be read now, and of no later revision.
FollowsReview(record, i) ==
  LET previous == reviews[record.previous] IN
    record.previous # i /\ previous # NoDocument /\ previous.on <= record.on

ReadPrevious(p) ==
  /\ papers[p].step = "previous"
  /\ IF papers[p].record.previous = NoReview THEN PaperStep(p, "write")
     ELSE IF readable = "yes" /\ FollowsReview(papers[p].record, papers[p].id)
         THEN PaperStep(p, "write") ELSE RefusesPaper(p)
  /\ PapersSteady

\* An id that is taken is answered only to who sends the same record again.
SameReview(i, record) == reviews[i] = record

\* The policy once more, then put: created at revision zero, or compared.
PutReview(p) ==
  LET i == papers[p].id
      record == papers[p].record IN
    /\ papers[p].step = "write"
    /\ IF readable = "no" THEN RefusesPaper(p) /\ UNCHANGED reviews
       ELSE IF reviews[i] = NoDocument
         THEN reviews' = [reviews EXCEPT ![i] = record] /\ PaperStep(p, "answer")
         ELSE /\ UNCHANGED reviews
              /\ IF SameReview(i, record) THEN PaperStep(p, "answer") ELSE RefusesPaper(p)
    /\ UNCHANGED <<taskPlan, reviewsAnswered, afterEnd, papersBegun, paperMishaps>>

AnswerReview(p) ==
  /\ papers[p].step = "answer" /\ RefusesPaper(p)
  /\ reviewsAnswered' = IF readable = "yes"
         THEN reviewsAnswered \cup {[id |-> papers[p].id, record |-> papers[p].record]} ELSE reviewsAnswered
  /\ UNCHANGED <<reviews, taskPlan, afterEnd, papersBegun, paperMishaps>>
-----------------------------------------------------------------------------
(* TaskPlans.update *)

\* An author names the revision it has read.
BeginPlan(p, expected) ==
  /\ expected <= taskPlan
  /\ BeginPaper(p, [step |-> "preflight", expected |-> expected])

\* The Task may be read and has not ended.
PlanOpen == readable = "yes" /\ taskEnds = "live"

Preflight(p) ==
  /\ papers[p].step = "preflight"
  /\ IF PlanOpen /\ taskPlan = papers[p].expected THEN PaperStep(p, "check") ELSE RefusesPaper(p)
  /\ PapersSteady

CheckPlan(p) ==
  /\ papers[p].step = "check"
  /\ IF PlanOpen THEN PaperStep(p, "replace") ELSE RefusesPaper(p)
  /\ PapersSteady

WritePlan(p) ==
  /\ papers[p].step = "replace" /\ taskPlan < MaxPlan /\ RefusesPaper(p)
  /\ IF taskPlan = papers[p].expected
       THEN /\ taskPlan' = taskPlan + 1
            /\ afterEnd' = [afterEnd EXCEPT ![p] = IF taskEnds = "ended" THEN @ + 1 ELSE @]
       ELSE UNCHANGED <<taskPlan, afterEnd>>
  /\ UNCHANGED <<reviews, reviewsAnswered, papersBegun, paperMishaps>>

PapersNext ==
  \/ PolicyFlips \/ PlannedTaskEnds
  \/ \E p \in Peer :
       \/ \E i \in ReviewId : \E on \in 1..MaxArtifact : \E says \in Findings :
            \E previous \in ReviewId \cup {NoReview} : BeginReview(p, i, on, says, previous)
       \/ \E expected \in 0..MaxPlan : BeginPlan(p, expected)
       \/ BreaksPaper(p) \/ ReadTarget(p) \/ ReadPrevious(p) \/ PutReview(p) \/ AnswerReview(p)
       \/ Preflight(p) \/ CheckPlan(p) \/ WritePlan(p)
-----------------------------------------------------------------------------
PapersTypeOK ==
  /\ readable \in {"yes", "no"} /\ taskEnds \in {"live", "ended"}
  /\ taskPlan \in 0..MaxPlan /\ paperMishaps \in 0..MaxPaperMishaps
  /\ \A i \in ReviewId : reviews[i].reviewer \in Peer \cup {Author} /\ reviews[i].on \in 0..MaxArtifact
  /\ \A p \in Peer : papers[p].step \in {"idle", "target", "previous", "write", "answer",
                                          "preflight", "check", "replace"}

\* Reviews each of which follows one of them.
Circle(S) == S # {} /\ \A i \in S : reviews[i] # NoDocument /\ reviews[i].previous \in S

\* A review that was answered stands under its id for ever, whatever is sent again
\* under it; nobody reviews what is his own, and the reviews a review follows end in
\* a first one (collaboration/reviews.js:60-71).  When a Task has ended, a peer still
\* changes its plan at most once, with the call that was under way (plans.js:46-48).
PapersHold ==
  /\ \A a \in reviewsAnswered : reviews[a.id] = a.record
  /\ \A i \in ReviewId : reviews[i] # NoDocument => reviews[i].reviewer # Author
  /\ \A S \in SUBSET ReviewId : ~Circle(S)
  /\ \A p \in Peer : afterEnd[p] <= 1
=============================================================================
