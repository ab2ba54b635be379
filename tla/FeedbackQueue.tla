--------------------------- MODULE FeedbackQueue ----------------------------
(***************************************************************************)
(* The framework's feedback queue: records are files of a Git repository,   *)
(* under the inbox or the archive, and a guide lists those of the inbox.    *)
(* People work in clones: a command draws an id, validates, proposes a      *)
(* triage or writes the index; hands edit everything else.  The main branch *)
(* takes what the verification of a pull request passes.                    *)
(***************************************************************************)
EXTENDS Naturals, FiniteSets

CONSTANTS
  FeedbackId,
  FeedbackReport,  \* what people report
  Unverified,      \* reports that leave a section `not verified'
  NoFeedback,      \* no file
  Clone,
  EditStatus,      \* the statuses hands write here
  EditEvidence,    \* the evidence hands link here
  EditForm,        \* the forms hands leave a record in here
  MaxEdits         \* bound: commands and edits that change a clone

ASSUME FeedbackAssumption == NoFeedback \notin FeedbackReport /\ MaxEdits \in Nat

VARIABLES
  mainBranch,  \* the main branch: files and the rows of the index
  mergedMain,  \* the main branch each clone has last merged
  copies,      \* the working tree of each clone
  drawn,       \* the id the last next-id of the clone printed
  edits

feedbackVars == <<mainBranch, mergedMain, copies, drawn, edits>>

Place == {"inbox", "archive"}

TerminalStatus == {"application-specific", "duplicate", "rejected", "released", "archived"}
TaskRequired == {"planned", "implementing", "verifying", "released"}
Eligible == {"submitted", "triaged", "needs-information"}
ReleaseEvidence == {"release", "pull", "verification", "revision", "adoption"}

NoFile == [report |-> NoFeedback, status |-> "none", evidence |-> {}, form |-> "none"]

\* A record as the template leaves it.
Template(report) == [report |-> report, status |-> "submitted", evidence |-> {}, form |-> "sound"]

TreeFiles(tree) == {[place |-> p, id |-> i] : p \in Place, i \in FeedbackId} 

FileAt(tree, f) == tree.files[f.place][f.id]

PresentFiles(tree) == {f \in TreeFiles(tree) : FileAt(tree, f) # NoFile}

EmptyTree == [files |-> [p \in Place |-> [i \in FeedbackId |-> NoFile]], index |-> {}]

FeedbackInit ==
  /\ mainBranch = EmptyTree /\ mergedMain = [c \in Clone |-> EmptyTree] /\ copies = [c \in Clone |-> EmptyTree]
  /\ drawn = [c \in Clone |-> {}] /\ edits = 0
-----------------------------------------------------------------------------
(* records.js *)

Form == {"sound", "unparsed", "misfielded", "unfilled"}

\* The frontmatter parses; its fields are in order; so are sections, links and secrets.
Parses(record) == record.form # "unparsed"
Fielded(record) == record.form # "misfielded"
Filled(record) == record.form # "unfilled"

\* The gates of a status, at the place where the record stands.
Gated(place, record) ==
  /\ record.status = "duplicate" => "original" \in record.evidence
  /\ place = "inbox" => record.status # "archived"
  /\ place = "archive" => record.status \in TerminalStatus
  /\ record.status \in TaskRequired => "task" \in record.evidence
  /\ record.status = "released" => ReleaseEvidence \subseteq record.evidence

SingleIdsMut(tree) == TRUE

\* An id that stands at two places makes both of them errors.
SingleIds(tree) ==
  \A f, g \in {x \in PresentFiles(tree) : Parses(FileAt(tree, x))} : f.id = g.id => f = g

ValidTree(tree) ==
  /\ \A f \in PresentFiles(tree) : LET record == FileAt(tree, f) IN
       Parses(record) /\ Fielded(record) /\ Filled(record) /\ Gated(f.place, record)
  /\ SingleIds(tree)

\* The table of active records.
ActiveIndex(tree) ==
  {[id |-> f.id, status |-> FileAt(tree, f).status] :
     f \in {x \in PresentFiles(tree) : x.place = "inbox" /\ FileAt(tree, x).status # "archived"}}

ProposedStatus(record) == IF record.report \in Unverified THEN "needs-information" ELSE "triaged"

\* The table replaces what stands between the markers of the guide.
Indexed(tree) == [tree EXCEPT !.index = ActiveIndex(tree)]

PullVerified(tree) == ValidTree(tree) /\ tree.index = ActiveIndex(tree)
-----------------------------------------------------------------------------
(* In a clone *)

TreeBecomes(c, tree) ==
  /\ edits < MaxEdits /\ edits' = edits + 1
  /\ copies' = [copies EXCEPT ![c] = tree]
  /\ UNCHANGED <<mainBranch, mergedMain>>

WithFile(c, f, record) == [copies[c] EXCEPT !.files[f.place][f.id] = record]

\* An id is random, and unknown to this clone only.
Allocable(tree) == FeedbackId \ {f.id : f \in PresentFiles(tree)}

\* next-id
NextId(c) ==
  /\ ValidTree(copies[c])
  /\ \E i \in Allocable(copies[c]) : drawn' = [drawn EXCEPT ![c] = {i}]
  /\ UNCHANGED <<mainBranch, mergedMain, copies, edits>>

\* The template is copied to the path that was printed.
CopyTemplate(c, report) ==
  \E i \in drawn[c] :
    /\ FileAt(copies[c], [place |-> "inbox", id |-> i]) = NoFile
    /\ TreeBecomes(c, WithFile(c, [place |-> "inbox", id |-> i], Template(report)))
    /\ drawn' = [drawn EXCEPT ![c] = {}]

\* Hands change the status and the evidence, and sometimes break the form.
EditRecord(c, f, status, evidence) ==
  /\ f \in PresentFiles(copies[c])
  /\ TreeBecomes(c, WithFile(c, f, [FileAt(copies[c], f) EXCEPT !.status = status, !.evidence = evidence]))
  /\ UNCHANGED drawn

BreakForm(c, f, form) ==
  /\ f \in PresentFiles(copies[c])
  /\ TreeBecomes(c, WithFile(c, f, [FileAt(copies[c], f) EXCEPT !.form = form]))
  /\ UNCHANGED drawn

ArchiveRecord(c, i) ==
  LET f == [place |-> "inbox", id |-> i] IN
    /\ f \in PresentFiles(copies[c])
    /\ FileAt(copies[c], [place |-> "archive", id |-> i]) = NoFile
    /\ TreeBecomes(c, [copies[c] EXCEPT !.files["archive"][i] = FileAt(copies[c], f), !.files["inbox"][i] = NoFile])
    /\ UNCHANGED drawn

\* index --write
WriteIndex(c) ==
  /\ ValidTree(copies[c])
  /\ TreeBecomes(c, Indexed(copies[c]))
  /\ UNCHANGED drawn

\* The path names a record of the inbox, in a queue that is valid.
TriageRecord(tree, f) == f.place = "inbox" /\ ValidTree(tree) /\ f \in PresentFiles(tree)

\* triage-proposal of one record, applied as it stands by a reviewer.
ApplyTriage(c, i) ==
  LET f == [place |-> "inbox", id |-> i] IN
    /\ TriageRecord(copies[c], f)
    /\ FileAt(copies[c], f).status \in Eligible
    /\ TreeBecomes(c, WithFile(c, f, [FileAt(copies[c], f) EXCEPT !.status = ProposedStatus(FileAt(copies[c], f))]))
    /\ UNCHANGED drawn
-----------------------------------------------------------------------------
(* Git, and the workflow of a pull request *)

\* Of two sides the one that changed; both, and differently, is a conflict, which a
\* person resolves by giving up the clone's side of it.
MergedFile(old, ours, theirs) == IF theirs = old THEN ours ELSE theirs

MergedFiles(c) ==
  [p \in Place |-> [i \in FeedbackId |->
     MergedFile(mergedMain[c].files[p][i], copies[c].files[p][i], mainBranch.files[p][i])]]

\* The rows of the guide merge into either side's where both changed; only the
\* index command and the verification know what they should be.
MergeMain(c) ==
  /\ mergedMain[c] # mainBranch
  /\ \E index \in {copies[c].index, mainBranch.index} :
       copies' = [copies EXCEPT ![c] = [files |-> MergedFiles(c), index |-> index]]
  /\ mergedMain' = [mergedMain EXCEPT ![c] = mainBranch]
  /\ UNCHANGED <<mainBranch, drawn, edits>>

\* The pull request is up to date with main and verified.
Land(c) ==
  /\ mergedMain[c] = mainBranch /\ copies[c] # mainBranch /\ PullVerified(copies[c])
  /\ mainBranch' = copies[c] /\ mergedMain' = [mergedMain EXCEPT ![c] = copies[c]]
  /\ UNCHANGED <<copies, drawn, edits>>

FeedbackNext ==
  \E c \in Clone :
    \/ NextId(c) \/ WriteIndex(c) \/ MergeMain(c) \/ Land(c)
    \/ \E report \in FeedbackReport : CopyTemplate(c, report)
    \/ \E i \in FeedbackId : ArchiveRecord(c, i) \/ ApplyTriage(c, i)
    \/ \E f \in PresentFiles(copies[c]) :
         \/ \E status \in EditStatus : \E evidence \in EditEvidence : EditRecord(c, f, status, evidence)
         \/ \E form \in EditForm : BreakForm(c, f, form)
-----------------------------------------------------------------------------
FeedbackTypeOK ==
  /\ \A tree \in {mainBranch} \cup {copies[c] : c \in Clone} \cup {mergedMain[c] : c \in Clone} :
       /\ \A f \in TreeFiles(tree) : FileAt(tree, f).report \in FeedbackReport \cup {NoFeedback}
       /\ \A row \in tree.index : row.id \in FeedbackId
  /\ \A c \in Clone : drawn[c] \subseteq FeedbackId
  /\ edits \in 0..MaxEdits

Tells(tree, i) == {FileAt(tree, f).report : f \in {x \in PresentFiles(tree) : x.id = i}}

\* Ids are drawn in clones that know nothing of one another; still an id that
\* landed means its report for ever, at one place, whatever lands later, is archived or
\* is merged; no landed report is lost; and a proposal applied as it stands leaves the
\* queue valid (framework-feedback/records.js:605-611, 185-203;
\* scripts/framework-feedback.mjs:97-101).
IdsKeepMeaning ==
  [][ /\ mainBranch' # mainBranch => \A i \in FeedbackId :
           /\ Tells(mainBranch, i) # {} => Tells(mainBranch', i) = Tells(mainBranch, i)
           /\ Tells(mainBranch', i) # {} => Cardinality({f \in PresentFiles(mainBranch') : f.id = i}) = 1
      /\ \A c \in Clone : copies'[c] # copies[c] /\ (\E i \in FeedbackId : ApplyTriage(c, i)) => ValidTree(copies'[c]) ]_feedbackVars
=============================================================================
