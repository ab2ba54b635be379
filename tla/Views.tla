------------------------------- MODULE Views -------------------------------
(***************************************************************************)
(* What is shown while it changes: Tasks, documents and registered Agents    *)
(* page by page, each page one query and then one read or one decision per  *)
(* item, and the delegated Task of a grant, its progress and its artifacts  *)
(* read in several steps by the other party.  They share nothing: a         *)
(* behaviour has one of them in view.                                        *)
(***************************************************************************)
EXTENDS Naturals, FiniteSets, SequencesExt

CONSTANTS
  MaxPosition,    \* items, in the order of the pages
  PageLimit,
  DelegatedWrite  \* write calls of a delegated Task

ASSUME ViewsAssumption == MaxPosition \in Nat /\ PageLimit \in Nat \ {0}

VARIABLES
  inView,        \* "tasks", "documents", "agents", "progress" or "results"
  item,          \* each item: "absent", "hidden" from this reader, or "shown"
  steady,        \* the items that were shown ever since the traversal began
  walk,          \* the traversal: step, cursor, what is left to read of its page, and what it found in it
  pagesShown,    \* what the pages so far listed
  delegated,     \* the Task of the grant: "none", "running", "cancelled" or "succeeded"
  delegatedCall, \* its write calls
  effect,        \* whether each was performed: "no" or "yes"
  reader,        \* the read of the other party under way
  clearTold,     \* whether an answer said: ended, and nothing to reconcile
  sharing,       \* the grant and the policy: "on", "off", or "revoked" for good
  artifact,      \* the artifact of the result: "same", "changed" or "gone"
  resultShown    \* what results showed

viewVars == <<inView, item, steady, walk, pagesShown, delegated, delegatedCall, effect, reader, clearTold,
              sharing, artifact, resultShown>>

pageVars == <<item, steady, walk, pagesShown>>
shareVars == <<delegated, delegatedCall, effect, reader, clearTold, sharing, artifact, resultShown>>

Position == 1..MaxPosition
NoReader == [step |-> "idle"]
CallState == {"none", "prepared", "running", "unknown", "failed", "succeeded"}

ViewsInit ==
  /\ inView \in {"tasks", "documents", "agents", "progress", "results"}
  /\ item \in IF inView \in {"tasks", "documents", "agents"} THEN [Position -> {"absent", "hidden", "shown"}]
              ELSE {[i \in Position |-> "absent"]}
  /\ steady = {i \in Position : item[i] = "shown"}
  /\ walk = [step |-> "ask", after |-> 0, page |-> {}, found |-> <<>>, more |-> 0]
  /\ pagesShown = <<>>
  /\ delegated = "none" /\ delegatedCall = [w \in DelegatedWrite |-> "none"]
  /\ effect = [w \in DelegatedWrite |-> "no"] /\ reader = NoReader /\ clearTold = "no"
  /\ sharing = "on" /\ artifact = "same" /\ resultShown = {}
-----------------------------------------------------------------------------
(* Pages *)

Paging == inView \in {"tasks", "documents", "agents"}

\* A Task is created, or comes to match and to be readable, or not; so a document, and
\* an Agent that is registered.
ItemChanges(i, state) ==
  /\ Paging /\ walk.step # "done" /\ item[i] # state
  /\ item' = [item EXCEPT ![i] = state]
  /\ steady' = steady \ {i}
  /\ UNCHANGED <<inView, walk, pagesShown, shareVars>>

WalkGoes(position) == walk' = position /\ UNCHANGED <<inView, item, steady, shareVars>>

After(cursor) == {i \in Position : i > cursor /\ item[i] # "absent"}

Asks(page, more) ==
  /\ walk.step = "ask" /\ UNCHANGED pagesShown
  /\ WalkGoes([walk EXCEPT !.step = "read", !.found = <<>>, !.page = page, !.more = more])

\* A page of rows past the cursor: one more than asked for says that there are more.
AsksRows ==
  LET ahead == After(walk.after) IN
    \/ Cardinality(ahead) <= PageLimit /\ Asks(ahead, 0)
    \/ \E last \in ahead :
         LET page == {i \in ahead : i <= last} IN
           Cardinality(page) = PageLimit /\ page # ahead /\ Asks(page, last)

AskTasks == inView = "tasks" /\ AsksRows

AskRoster == inView = "agents" /\ AsksRows

\* The whole catalogue, of which the search skips what is not past its cursor.
AskCatalogue == inView = "documents" /\ Asks(After(walk.after), 0)

\* The search stops past its limit.
PageFull == inView = "documents" /\ Len(walk.found) > PageLimit

\* Each item is read again, in order and as it now is; one that is not to be shown is skipped.
Reads ==
  \E i \in walk.page :
    /\ walk.step = "read" /\ ~PageFull /\ UNCHANGED pagesShown
    /\ \A j \in walk.page : i <= j
    /\ WalkGoes([walk EXCEPT !.page = @ \ {i}, !.found = IF item[i] = "shown" THEN Append(@, i) ELSE @])

ReadTask == inView = "tasks" /\ Reads

\* Permitted twice, around the read of its text; gone or denied in between, it is skipped.
ReadDocument == inView = "documents" /\ Reads

\* The row of the roster is kept; authority decides on each Agent.
AuthorizeAgent == inView = "agents" /\ Reads

NextCursorMut == IF PageFull THEN Last(walk.found) ELSE walk.more

\* Tasks and Agents go on after the last candidate, shown or not; a search after the
\* last it listed.
NextCursor == IF PageFull THEN walk.found[PageLimit] ELSE walk.more

Ends(found) ==
  /\ walk.step = "read"
  /\ pagesShown' = pagesShown \o found
  /\ WalkGoes([step |-> IF NextCursor = 0 THEN "done" ELSE "ask", after |-> NextCursor,
               page |-> {}, found |-> <<>>, more |-> 0])

EndPage == inView # "documents" /\ walk.page = {} /\ Ends(walk.found)

EndSearch ==
  /\ inView = "documents" /\ (walk.page = {} \/ PageFull)
  /\ Ends(IF PageFull THEN SubSeq(walk.found, 1, PageLimit) ELSE walk.found)

\* A page that fails, or whose answer is lost, is asked for again at its cursor.
LosePage ==
  /\ walk.step = "read" /\ UNCHANGED pagesShown
  /\ WalkGoes([walk EXCEPT !.step = "ask", !.page = {}, !.found = <<>>, !.more = 0])
-----------------------------------------------------------------------------
(* Progress of a delegated Task *)

DelegatedBecomes(task, calls) ==
  /\ inView = "progress" /\ delegated' = task /\ delegatedCall' = calls
  /\ UNCHANGED <<inView, pageVars, reader, clearTold, sharing, artifact, resultShown>>

CallBecomesState(w, from, to) ==
  delegatedCall[w] \in from /\ DelegatedBecomes(delegated, [delegatedCall EXCEPT ![w] = to])

Unsettled(w) == delegatedCall[w] \in {"prepared", "running", "unknown"}

\* What the Runtime does to the Task and its calls.
DelegatedRuns ==
  \/ delegated = "none" /\ DelegatedBecomes("running", delegatedCall) /\ UNCHANGED effect
  \/ delegated = "running" /\ DelegatedBecomes("cancelled", delegatedCall) /\ UNCHANGED effect
  \/ /\ delegated = "running" /\ ~\E w \in DelegatedWrite : Unsettled(w)
     /\ DelegatedBecomes("succeeded", delegatedCall) /\ UNCHANGED effect
  \/ \E w \in DelegatedWrite :
       \/ /\ delegated = "running" /\ ~\E v \in DelegatedWrite : Unsettled(v)
          /\ CallBecomesState(w, {"none"}, "prepared") /\ UNCHANGED effect
       \/ delegated = "running" /\ CallBecomesState(w, {"prepared"}, "running") /\ UNCHANGED effect
       \/ CallBecomesState(w, {"prepared"}, "failed") /\ UNCHANGED effect
       \/ effect[w] = "yes" /\ CallBecomesState(w, {"running", "unknown"}, "succeeded") /\ UNCHANGED effect
       \/ effect[w] = "no" /\ CallBecomesState(w, {"running"}, "failed") /\ UNCHANGED effect
       \/ CallBecomesState(w, {"running"}, "unknown") /\ UNCHANGED effect

\* A call that was dispatched takes effect, whatever was recorded of it meanwhile.
CallTakesEffect(w) ==
  /\ CallBecomesState(w, {"running", "unknown"}, delegatedCall[w])
  /\ effect[w] = "no" /\ effect' = [effect EXCEPT ![w] = "yes"]

ReaderBecomes(read) ==
  /\ reader' = read
  /\ UNCHANGED <<inView, pageVars, delegated, delegatedCall, effect, sharing, artifact>>

\* findRequest: the Task first.
FindDelegated ==
  /\ inView = "progress" /\ reader = NoReader /\ delegated # "none"
  /\ ReaderBecomes([step |-> "receipts", status |-> delegated]) /\ UNCHANGED <<clearTold, resultShown>>

NeedsReconciliationMut == \E w \in DelegatedWrite : delegatedCall[w] \in {"prepared", "running"}

\* operationReceipts: any write that is not known to have succeeded.
NeedsReconciliation == \E w \in DelegatedWrite : delegatedCall[w] \notin {"none", "succeeded"}

TellProgress ==
  /\ reader.step = "receipts" /\ ReaderBecomes(NoReader) /\ UNCHANGED resultShown
  /\ clearTold' = IF reader.status \in {"cancelled", "succeeded"} /\ ~NeedsReconciliation THEN "yes" ELSE clearTold
-----------------------------------------------------------------------------
(* Artifacts of the result *)

SharedBecomes(share, document) ==
  /\ inView = "results" /\ sharing # "revoked" /\ artifact # "gone"
  /\ sharing' = share /\ artifact' = document
  /\ UNCHANGED <<inView, pageVars, delegated, delegatedCall, effect, reader, clearTold, resultShown>>

ShareChanges ==
  \/ \E share \in {"on", "off", "revoked"} \ {sharing} : SharedBecomes(share, artifact)
  \/ \E document \in {"changed", "gone"} \ {artifact} : SharedBecomes(sharing, document)

ResultArrives ==
  /\ inView = "results" /\ delegated \in {"none", "running"}
  /\ delegated' \in IF delegated = "none" THEN {"running"} ELSE {"succeeded", "cancelled"}
  /\ UNCHANGED <<inView, pageVars, delegatedCall, effect, reader, clearTold, sharing, artifact, resultShown>>

ReadGrant ==
  /\ inView = "results" /\ reader = NoReader /\ sharing # "revoked"
  /\ ReaderBecomes([step |-> "task", sharing |-> sharing]) /\ UNCHANGED <<clearTold, resultShown>>

\* task: only a Task that succeeded has a result; what another state is, may be told.
ReadResultTask ==
  /\ reader.step = "task" /\ UNCHANGED <<clearTold, resultShown>>
  /\ ReaderBecomes(IF delegated = "succeeded" THEN [reader EXCEPT !.step = "share"] ELSE NoReader)

ReadShare ==
  /\ reader.step = "share" /\ UNCHANGED <<clearTold, resultShown>>
  /\ ReaderBecomes(IF sharing = "off" THEN NoReader ELSE [reader EXCEPT !.step = "content"])

\* readOwned: the content under this very reference, or nothing.
ReadArtifact ==
  /\ reader.step = "content" /\ ReaderBecomes(NoReader) /\ UNCHANGED clearTold
  /\ resultShown' = IF artifact = "same" THEN resultShown \cup {[task |-> delegated, content |-> artifact]}
                    ELSE resultShown

ViewsNext ==
  \/ \E i \in Position : \E state \in {"absent", "hidden", "shown"} : ItemChanges(i, state)
  \/ AskTasks \/ AskRoster \/ AskCatalogue \/ ReadTask \/ ReadDocument \/ AuthorizeAgent
  \/ EndPage \/ EndSearch \/ LosePage
  \/ DelegatedRuns \/ (\E w \in DelegatedWrite : CallTakesEffect(w))
  \/ FindDelegated \/ TellProgress
  \/ ShareChanges \/ ResultArrives \/ ReadGrant \/ ReadResultTask \/ ReadShare \/ ReadArtifact
-----------------------------------------------------------------------------
ViewsTypeOK ==
  /\ walk.step \in {"ask", "read", "done"} /\ walk.after \in 0..MaxPosition
  /\ steady \subseteq {i \in Position : item[i] = "shown"}
  /\ \A w \in DelegatedWrite : delegatedCall[w] \in CallState
  /\ \A w \in DelegatedWrite : delegatedCall[w] = "succeeded" => effect[w] = "yes"

\* A traversal that follows its cursors to the end lists whatever was there to be shown
\* all the time, and lists nothing twice, whatever came, went, was hidden or lost
\* between its reads (tasks/listing.js:19-33, knowledge/catalog.js:30-44,
\* operations/service.js:20-29).
PagesComplete ==
  /\ IsInjective(pagesShown)
  /\ walk.step = "done" => steady \subseteq Range(pagesShown)

\* Once the other party was told that the Task ended with nothing to reconcile, each of
\* its writes is performed and known to be, or was never begun (collaboration/progress.js:12-30);
\* and what results show is the named content of a Task that succeeded (artifacts.js:36-44).
ClearIsSettled ==
  /\ clearTold = "yes" =>
       \A w \in DelegatedWrite : delegatedCall[w] \in {"none", "succeeded"} /\ (effect[w] = "yes" <=> delegatedCall[w] = "succeeded")
  /\ resultShown \subseteq {[task |-> "succeeded", content |-> "same"]}
=============================================================================
