------------------------------ MODULE Registry ------------------------------
(***************************************************************************)
(* The operations registry: what hosts register of their Agents, and the    *)
(* presence of one executor id, which the processes that serve it one after *)
(* the other report.  Reports travel, and may come late, twice, or after a  *)
(* successor has started.  An operator looks at the health of the Agent      *)
(* whose only signal is that presence: a source is read, then time passes,   *)
(* then the answer is made.                                                  *)
(***************************************************************************)
EXTENDS Naturals, Sequences

CONSTANTS
  Server,         \* processes that serve the executor id
  Boundary,       \* workspace, principal, role, location and reference of an Agent
  Described,      \* the rest of a descriptor
  NotRegistered,
  MaxGeneration,  \* bound: starts of the executor
  MaxReports,     \* bound: reports of one generation
  MaxRegistered   \* bound: revisions of a registration

\* Bounds are numbers; a first registration is a revision.
ASSUME RegistryBounds == MaxGeneration \in Nat /\ MaxReports \in Nat /\ MaxRegistered \in Nat \ {0}

VARIABLES
  registered,  \* the row of an Agent
  presence,    \* the row of the executor id
  serving,     \* the generation each process holds (zero: none) and its reports
  reports,     \* the reports under way
  accepted,    \* the reports that were answered, in that order
  look         \* the look at its health under way, and what its source told

registryVars == <<registered, presence, serving, reports, accepted, look>>

ReportState == {"healthy", "unavailable"}
NoLook == [step |-> "idle"]
\* A row that no report of its generation has reached says this.
Silence == [generation |-> 0, sequence |-> 0, state |-> "unknown", valid |-> "never"]

RegistryInit ==
  /\ registered = NotRegistered
  /\ presence = Silence
  /\ serving = [p \in Server |-> [generation |-> 0, sequence |-> 0]]
  /\ reports = {} /\ accepted = <<>>
  /\ look = NoLook

\* Registered again: another description is a revision; another boundary is refused.
Register(boundary, described) ==
  /\ IF registered = NotRegistered
       THEN registered' = [boundary |-> boundary, described |-> described, revision |-> 1]
       ELSE /\ registered.boundary = boundary /\ registered.described # described
            /\ registered.revision < MaxRegistered
            /\ registered' = [registered EXCEPT !.described = described, !.revision = @ + 1]
  /\ UNCHANGED <<presence, serving, reports, accepted, look>>

\* A new generation fences the reports of its predecessor.  The answer may be lost,
\* and the process then start again.
StartExecutor(p) ==
  /\ presence.generation < MaxGeneration
  /\ presence' = [generation |-> presence.generation + 1, sequence |-> 0, state |-> "unknown", valid |-> "never"]
  /\ serving' \in {serving, [serving EXCEPT ![p] = [generation |-> presence.generation + 1, sequence |-> 0]]}
  /\ UNCHANGED <<registered, reports, accepted, look>>

SendReport(p, state) ==
  LET held == serving[p] IN
    /\ held.generation > 0 /\ held.sequence < MaxReports
    /\ serving' = [serving EXCEPT ![p].sequence = @ + 1]
    /\ reports' = reports \cup {[generation |-> held.generation, sequence |-> held.sequence + 1, state |-> state]}
    /\ UNCHANGED <<registered, presence, accepted, look>>

SucceedsMut(report) == report.generation = presence.generation

\* Of the generation that started last, and past what it has reported.
Succeeds(report) ==
  report.generation = presence.generation /\ presence.sequence < report.sequence

\* A report may never arrive, and may arrive again.
Heartbeat(report) ==
  /\ report \in reports /\ Succeeds(report)
  /\ presence' = [generation |-> report.generation, sequence |-> report.sequence, state |-> report.state, valid |-> "yes"]
  /\ accepted' = Append(accepted, report)
  /\ UNCHANGED <<registered, serving, reports, look>>

Lapsed(signal) == [signal EXCEPT !.valid = "no"]

\* The time of a report runs out, for the row and for a look that has read this report.
PresenceLapses ==
  /\ presence.valid = "yes" /\ presence' = Lapsed(presence)
  /\ look' = IF look.step = "gathered" /\ look.signal = presence THEN [look EXCEPT !.signal = Lapsed(@)] ELSE look
  /\ UNCHANGED <<registered, serving, reports, accepted>>

\* So does the time of an earlier report that only a look still holds.
LookAges ==
  /\ look.step = "gathered" /\ look.signal.valid = "yes" /\ look.signal # presence
  /\ look' = [look EXCEPT !.signal = Lapsed(@)]
  /\ UNCHANGED <<registered, presence, serving, reports, accepted>>
-----------------------------------------------------------------------------
(* Operations.agent *)

Looks(position) ==
  /\ look' = position /\ UNCHANGED <<registered, presence, serving, reports, accepted>>

\* The source of signals reads the presence, and tells all it has or not; or it fails,
\* times out, or its envelope is out of time.
GatherSignals ==
  /\ look = NoLook /\ registered # NotRegistered
  /\ \/ \E source \in {"complete", "partial"} :
          Looks([step |-> "gathered", source |-> source, signal |-> presence, seen |-> Len(accepted)])
     \/ Looks([step |-> "gathered", source |-> "failed", signal |-> Silence, seen |-> 0])

\* The signals that are there, in time, and not only what the Agent says of itself: the
\* presence is observed.
UsableSignals == {s \in {look.signal} : s.valid = "yes"}

Coverage == look.source = "complete" /\ UsableSignals # {}

Health ==
  IF \E s \in UsableSignals : s.state = "unavailable" THEN "unavailable"
  ELSE IF Coverage /\ \A s \in UsableSignals : s.state = "healthy" THEN "healthy" ELSE "unknown"

\* The answer is made, or refused when another scope is resolved by then.
TellHealth == look.step = "gathered" /\ Looks(NoLook)
-----------------------------------------------------------------------------
RegistryNext ==
  \/ \E boundary \in Boundary : \E described \in Described : Register(boundary, described)
  \/ \E p \in Server : StartExecutor(p) \/ \E state \in ReportState : SendReport(p, state)
  \/ \E report \in reports : Heartbeat(report)
  \/ PresenceLapses \/ LookAges \/ GatherSignals \/ TellHealth
-----------------------------------------------------------------------------
RegistryTypeOK ==
  /\ registered # NotRegistered => registered.boundary \in Boundary /\ registered.revision \in 1..MaxRegistered
  /\ presence.generation \in 0..MaxGeneration /\ presence.sequence \in 0..MaxReports
  /\ \A p \in Server : serving[p].generation <= presence.generation

Older(r, s) == r.generation < s.generation \/ (r.generation = s.generation /\ r.sequence < s.sequence)

\* Whatever is delayed, repeated or fenced: reports are accepted in the order in which
\* they were made, none twice, and the presence shown is the last one of the generation
\* that started last, or none of it (operations/registry.js:35-55).
PresenceFollows ==
  /\ \A i, j \in 1..Len(accepted) : i < j => Older(accepted[i], accepted[j])
  /\ LET ofLast == {i \in 1..Len(accepted) : accepted[i].generation = presence.generation} IN
       IF ofLast = {} THEN presence.state = "unknown" /\ presence.valid = "never"
       ELSE Len(accepted) \in ofLast /\ presence.state = accepted[Len(accepted)].state

\* The health that an answer would tell, when it is not unknown, is what the last report
\* said when the source was read, by the executor that had started last, and its time has
\* not run out, however restarts and reports cross the look (operations/service.js:30-54).
HealthIsCurrent ==
  look.step = "gathered" /\ Health # "unknown" =>
    LET last == accepted[look.seen] IN
      /\ last.state = Health /\ last.generation = look.signal.generation /\ last.sequence = look.signal.sequence
      /\ \A n \in 1..Len(accepted) : Older(last, accepted[n]) => n > look.seen
=============================================================================
