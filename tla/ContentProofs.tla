---------------------------- MODULE ContentProofs ---------------------------
(***************************************************************************)
(* What the host keeps as content and hands out again, for every value of   *)
(* the constants: the timelines of sessions and conversations and the pages *)
(* of tables that move while they are read (Sessions, Conversations, Views),*)
(* the ids of the feedback queue through copies and merges (FeedbackQueue), *)
(* and the sources that govern documents and memories (Workspaces). Each    *)
(* section has its inductive invariant, a lemma for each kind of step and   *)
(* the theorem.  The last one is of all the records: their types and bounds.*)
(***************************************************************************)
EXTENDS RecordProofs
-----------------------------------------------------------------------------
(* Sessions: an honest timeline *)

Timeline ==
  [sequence : 1..MaxTimeline, key : EntryKey \cup TaskStart,
   kind : {"message", "open", "closed", "task"}, expected : 0..MaxTimeline]

SessionRows ==
  /\ session \in [sequence : 0..MaxTimeline, state : {"open", "closed"}]
  /\ timeline \in SUBSET Timeline
  /\ entryRequests \in [EntryKey -> {NoRequest} \cup [kind : {"message", "open", "closed"}, expected : 0..MaxTimeline]]
  /\ sessionAccess \in {"yes", "no"} /\ sessionMishaps \in 0..MaxSessionMishaps
  /\ sessionTasks \in [TaskStart -> [through : 0..MaxTimeline, pinned : SUBSET timeline, made : {"no", "yes"}]]
  /\ starts \in [TaskStart -> [step : {"idle", "pinned", "valid", "started", "linked", "found"}, through : 0..MaxTimeline]]

\* The first four promises of TimelineHonest.
Numbered ==
  /\ {e.sequence : e \in timeline} = 1..session.sequence
  /\ \A e, f \in timeline : e.sequence = f.sequence \/ e.key = f.key => e = f
  /\ session.state = "closed" <=> ClosedAt(session.sequence)
  /\ \A e \in timeline : e.kind = "message" => e.expected = e.sequence - 1 /\ ~ClosedAt(e.expected)

\* The Task of a start rests on what it pinned, and its link comes later; the caller goes on
\* to link a Task that is there.
StartTrue(s) ==
  /\ starts[s].through <= session.sequence
  /\ sessionTasks[s].through <= session.sequence
  /\ TimelineThrough(sessionTasks[s].through) = sessionTasks[s].pinned
  /\ sessionTasks[s].made = "no" => sessionTasks[s] = NoTask
  /\ starts[s].step = "started" => sessionTasks[s].made = "yes"
  /\ starts[s].step = "linked" => \E e \in timeline : e.key = s
  /\ \A e \in timeline : e.key = s => e.sequence > sessionTasks[s].through /\ sessionTasks[s].made = "yes"

SessionInv == SessionRows /\ Numbered /\ \A s \in TaskStart : StartTrue(s)

LEMMA NothingSaid == SessionsInit => SessionInv
<1> SUFFICES ASSUME SessionsInit PROVE SessionInv
  OBVIOUS
<1>1. SessionRows
  BY SessionsAssumption DEF SessionsInit, SessionRows, NoTask, NotStarted
<1>2. \A n : TimelineThrough(n) = {} /\ ~ClosedAt(n)
  BY DEF SessionsInit, TimelineThrough, ClosedAt
<1>3. Numbered
  BY <1>2 DEF SessionsInit, Numbered
<1>4. \A s \in TaskStart : StartTrue(s)
  <2>1. \A s \in TaskStart : /\ starts[s].through = 0 /\ starts[s].step = "idle"
                             /\ sessionTasks[s].through = 0 /\ sessionTasks[s].pinned = {} /\ sessionTasks[s] = NoTask
    BY DEF SessionsInit, NoTask, NotStarted
  <2>2. session.sequence = 0 /\ timeline = {} /\ TimelineThrough(0) = {}
    BY <1>2 DEF SessionsInit
  <2>3. SUFFICES ASSUME NEW s \in TaskStart PROVE StartTrue(s)
    OBVIOUS
  <2>4. \A e \in timeline : FALSE
    BY <2>2
  <2>5. /\ starts[s].through <= session.sequence
        /\ sessionTasks[s].through <= session.sequence
        /\ starts[s].step # "started" /\ starts[s].step # "linked"
    BY <2>1, <2>2
  <2>6. TimelineThrough(sessionTasks[s].through) = sessionTasks[s].pinned
    BY <2>1, <2>2
  <2>7. sessionTasks[s] = NoTask
    BY <2>1
  <2>8. QED
    BY <2>4, <2>5, <2>6, <2>7 DEF StartTrue
<1>5. QED
  BY <1>1, <1>3, <1>4 DEF SessionInv

\* An event that is appended leaves what stood before it.
LEMMA AppendedRest ==
  ASSUME SessionInv, NEW key \in EntryKey \cup TaskStart, NEW kind \in {"message", "open", "closed", "task"},
         NEW expected \in 0..MaxTimeline, session.sequence < MaxTimeline, EntryAppended(key, kind, expected)
  PROVE  \E new \in Timeline :
           /\ new.sequence = session.sequence + 1 /\ new.key = key /\ new.kind = kind /\ new.expected = expected
           /\ timeline' = timeline \cup {new}
           /\ session' \in [sequence : 0..MaxTimeline, state : {"open", "closed"}]
           /\ session'.sequence = session.sequence + 1
           /\ session'.state = IF kind \in {"open", "closed"} THEN kind ELSE session.state
           /\ \A e \in timeline : e.sequence <= session.sequence
           /\ \A n \in 0..session.sequence : TimelineThrough(n)' = TimelineThrough(n) /\ (ClosedAt(n)' <=> ClosedAt(n))
<1> DEFINE new == [sequence |-> session.sequence + 1, key |-> key, kind |-> kind, expected |-> expected]
<1>1. session.sequence \in 0..MaxTimeline /\ session.state \in {"open", "closed"} /\ timeline \subseteq Timeline
  BY DEF SessionInv, SessionRows
<1>2. session.sequence + 1 \in 1..MaxTimeline
  BY <1>1, SessionsAssumption
<1>3. new \in Timeline
  BY <1>2 DEF Timeline
<1>4. timeline' = timeline \cup {new}
  BY DEF EntryAppended
<1>5. /\ session' \in [sequence : 0..MaxTimeline, state : {"open", "closed"}]
      /\ session'.sequence = session.sequence + 1
      /\ session'.state = IF kind \in {"open", "closed"} THEN kind ELSE session.state
  BY <1>1, <1>2 DEF EntryAppended
<1>6. \A e \in timeline : e.sequence <= session.sequence
  <2>1. \A e \in timeline : e.sequence \in 1..session.sequence
    BY DEF SessionInv, Numbered
  <2>2. QED
    BY <2>1, <1>1
<1>7. new.sequence = session.sequence + 1 /\ new.key = key /\ new.kind = kind /\ new.expected = expected
  OBVIOUS
<1> HIDE DEF new
<1>8. ASSUME NEW n \in 0..session.sequence
      PROVE  TimelineThrough(n)' = TimelineThrough(n) /\ (ClosedAt(n)' <=> ClosedAt(n))
  <2>1. ~(new.sequence <= n)
    BY <1>1, <1>7
  <2>2. TimelineThrough(n)' = TimelineThrough(n)
    BY <2>1, <1>4 DEF TimelineThrough
  <2>3. QED
    BY <2>2 DEF ClosedAt
<1>9. QED
  BY <1>3, <1>4, <1>5, <1>6, <1>7, <1>8

LEMMA AppendedTrue ==
  ASSUME SessionInv, NEW key \in EntryKey \cup TaskStart, NEW kind \in {"message", "open", "closed", "task"},
         NEW expected \in 0..MaxTimeline, session.sequence < MaxTimeline, ~Recorded(key),
         Acceptable(kind, expected), EntryAppended(key, kind, expected)
  PROVE  Numbered'
<1>1. PICK new \in Timeline :
        /\ new.sequence = session.sequence + 1 /\ new.key = key /\ new.kind = kind /\ new.expected = expected
        /\ timeline' = timeline \cup {new}
        /\ session' \in [sequence : 0..MaxTimeline, state : {"open", "closed"}]
        /\ session'.sequence = session.sequence + 1
        /\ session'.state = IF kind \in {"open", "closed"} THEN kind ELSE session.state
        /\ \A e \in timeline : e.sequence <= session.sequence
        /\ \A n \in 0..session.sequence : TimelineThrough(n)' = TimelineThrough(n) /\ (ClosedAt(n)' <=> ClosedAt(n))
  BY AppendedRest
<1>2. session.sequence \in 0..MaxTimeline /\ timeline \subseteq Timeline /\ session.sequence \in Nat
  BY SessionsAssumption DEF SessionInv, SessionRows
<1>3. {e.sequence : e \in timeline'} = 1..session'.sequence
  <2>1. {e.sequence : e \in timeline} = 1..session.sequence
    BY DEF SessionInv, Numbered
  <2>2. {e.sequence : e \in timeline'} = {e.sequence : e \in timeline} \cup {session.sequence + 1}
    BY <1>1
  <2>3. QED
    BY <2>1, <2>2, <1>1, <1>2
<1>4. \A e, f \in timeline' : e.sequence = f.sequence \/ e.key = f.key => e = f
  <2>1. \A e \in timeline : e.sequence # new.sequence /\ e.key # new.key
    BY <1>1, <1>2 DEF Recorded, Timeline
  <2>2. QED
    BY <2>1, <1>1 DEF SessionInv, Numbered
<1>5. TimelineThrough(session.sequence) = timeline
  BY <1>1 DEF TimelineThrough
<1>11. PICK next \in Nat : next = session.sequence + 1
  BY <1>2
<1>6. TimelineThrough(next)' = timeline \cup {new}
  BY <1>1, <1>2, <1>11 DEF TimelineThrough, Timeline
<1>7. session.state = "closed" <=> ClosedAt(session.sequence)
  BY DEF SessionInv, Numbered
<1>8. session'.state = "closed" <=> ClosedAt(session.sequence)'
  <2>1. ClosedAt(next)' <=> \E e \in timeline \cup {new} : e.kind = "closed" /\ \A f \in timeline \cup {new} : f.kind = "open" => f.sequence < e.sequence
    BY <1>6 DEF ClosedAt
  <2>2. ClosedAt(session.sequence) <=> \E e \in timeline : e.kind = "closed" /\ \A f \in timeline : f.kind = "open" => f.sequence < e.sequence
    BY <1>5 DEF ClosedAt
  <2>3. \A e \in timeline : e.sequence \in Nat /\ e.sequence < new.sequence
    BY <1>1, <1>2 DEF Timeline
  <2>4. session'.state = "closed" <=> ClosedAt(next)'
    <3>1. CASE kind = "closed"
      BY <3>1, <2>1, <2>3, <1>1
    <3>2. CASE kind = "open"
      BY <3>2, <2>1, <2>3, <1>1
    <3>3. CASE kind \in {"message", "task"}
      BY <3>3, <2>1, <2>2, <1>1, <1>7
    <3>4. QED
      BY <3>1, <3>2, <3>3
  <2>5. QED
    BY <2>4, <1>1, <1>11
<1>9. ASSUME NEW e \in timeline', e.kind = "message"
      PROVE  e.expected = e.sequence - 1 /\ ~ClosedAt(e.expected)'
  <2>1. CASE e \in timeline
    <3>1. e.expected = e.sequence - 1 /\ ~ClosedAt(e.expected)
      BY <2>1, <1>9 DEF SessionInv, Numbered
    <3>2. e.expected \in 0..session.sequence
      BY <3>1, <2>1, <1>1, <1>2 DEF Timeline
    <3>3. PICK n \in 0..session.sequence : n = e.expected
      BY <3>2
    <3>4. QED
      BY <3>1, <3>3, <1>1
  <2>2. CASE e = new
    <3>1. expected = session.sequence /\ session.state = "open"
      BY <2>2, <1>1, <1>9 DEF Acceptable
    <3>2. ~ClosedAt(expected)
      BY <3>1, <1>7
    <3>3. QED
      BY <2>2, <3>1, <3>2, <1>1, <1>2
  <2>3. QED
    BY <2>1, <2>2, <1>1
<1>10. QED
  BY <1>3, <1>4, <1>8, <1>9 DEF Numbered

\* A start keeps true while an event is appended, if the event links only what was made.
LEMMA StartStands ==
  ASSUME SessionInv, NEW key \in EntryKey \cup TaskStart, NEW kind \in {"message", "open", "closed", "task"},
         NEW expected \in 0..MaxTimeline, session.sequence < MaxTimeline, EntryAppended(key, kind, expected),
         UNCHANGED sessionTasks, NEW s \in TaskStart, key = s => sessionTasks[s].made = "yes",
         starts'[s].through = starts[s].through,
         starts'[s].step = "started" => starts[s].step = "started",
         starts'[s].step = "linked" => starts[s].step = "linked" \/ key = s
  PROVE  StartTrue(s)'
<1>1. PICK new \in Timeline :
        /\ new.sequence = session.sequence + 1 /\ new.key = key /\ new.kind = kind /\ new.expected = expected
        /\ timeline' = timeline \cup {new}
        /\ session' \in [sequence : 0..MaxTimeline, state : {"open", "closed"}]
        /\ session'.sequence = session.sequence + 1
        /\ session'.state = IF kind \in {"open", "closed"} THEN kind ELSE session.state
        /\ \A e \in timeline : e.sequence <= session.sequence
        /\ \A n \in 0..session.sequence : TimelineThrough(n)' = TimelineThrough(n) /\ (ClosedAt(n)' <=> ClosedAt(n))
  BY AppendedRest
<1>2. session.sequence \in Nat /\ sessionTasks[s].through \in Nat /\ starts[s].through \in Nat
  BY SessionsAssumption DEF SessionInv, SessionRows
<1>3. StartTrue(s)
  BY DEF SessionInv
<1>4. sessionTasks[s].through \in 0..session.sequence
  BY <1>2, <1>3 DEF StartTrue
<1>5. PICK n \in 0..session.sequence : n = sessionTasks[s].through
  BY <1>4
<1>6. TimelineThrough(n)' = sessionTasks'[s].pinned /\ sessionTasks'[s].through = n
  BY <1>1, <1>3, <1>5 DEF StartTrue
<1>7. TimelineThrough(sessionTasks[s].through)' = sessionTasks'[s].pinned
  BY <1>6, <1>5
<1>8. starts'[s].through <= session'.sequence /\ sessionTasks'[s].through <= session'.sequence
  BY <1>1, <1>2, <1>3 DEF StartTrue
<1>9. starts'[s].step = "linked" => \E e \in timeline' : e.key = s
  BY <1>1, <1>3 DEF StartTrue
<1>10. \A e \in timeline' : e.key = s => e.sequence > sessionTasks'[s].through /\ sessionTasks'[s].made = "yes"
  BY <1>1, <1>2, <1>3 DEF StartTrue
<1>11. QED
  BY <1>3, <1>7, <1>8, <1>9, <1>10 DEF StartTrue

\* The caller's next step, and the rest as it was.
LEMMA StartRow ==
  ASSUME SessionInv, NEW s \in TaskStart, NEW step \in {"idle", "pinned", "valid", "started", "linked", "found"},
         StartStep(s, step)
  PROVE  /\ starts' \in [TaskStart -> [step : {"idle", "pinned", "valid", "started", "linked", "found"}, through : 0..MaxTimeline]]
         /\ \A r \in TaskStart : starts'[r].through = starts[r].through /\ (r # s => starts'[r].step = starts[r].step)
         /\ starts'[s].step = step
<1>1. starts \in [TaskStart -> [step : {"idle", "pinned", "valid", "started", "linked", "found"}, through : 0..MaxTimeline]]
  BY DEF SessionInv, SessionRows
<1>2. QED
  BY <1>1 DEF StartStep

\* LinkAppended, whichever of the two callers does it.
LEMMA LinkStep ==
  ASSUME SessionInv, NEW s \in TaskStart, sessionTasks[s].made = "yes", session.sequence < MaxTimeline,
         LinkAppended(s), StartStep(s, "linked"), UNCHANGED <<entryRequests, sessionAccess, sessionTasks, sessionMishaps>>
  PROVE  SessionInv'
<1>1. /\ starts' \in [TaskStart -> [step : {"idle", "pinned", "valid", "started", "linked", "found"}, through : 0..MaxTimeline]]
      /\ \A r \in TaskStart : starts'[r].through = starts[r].through /\ (r # s => starts'[r].step = starts[r].step)
      /\ starts'[s].step = "linked"
  BY StartRow
<1>2. CASE Recorded(s)
  <2>1. UNCHANGED <<session, timeline>>
    BY <1>2 DEF LinkAppended
  <2>2. SessionRows'
    BY <2>1, <1>1 DEF SessionInv, SessionRows
  <2>3. Numbered'
    BY <2>1 DEF SessionInv, Numbered, ClosedAt, TimelineThrough
  <2>4. \A r \in TaskStart : StartTrue(r)'
    BY <2>1, <1>1, <1>2 DEF SessionInv, StartTrue, Recorded, TimelineThrough
  <2>5. QED
    BY <2>2, <2>3, <2>4 DEF SessionInv
<1>3. CASE ~Recorded(s)
  <2>1. EntryAppended(s, "task", 0) /\ 0 \in 0..MaxTimeline
    BY <1>3, SessionsAssumption DEF LinkAppended
  <2>2. PICK new \in Timeline : timeline' = timeline \cup {new} /\ session' \in [sequence : 0..MaxTimeline, state : {"open", "closed"}]
    BY <2>1, AppendedRest
  <2>3. SessionRows'
    BY <2>2, <1>1 DEF SessionInv, SessionRows
  <2>4. Numbered'
    BY <2>1, <1>3, AppendedTrue DEF Acceptable
  <2>5. \A r \in TaskStart : StartTrue(r)'
    BY <2>1, <1>1, StartStands
  <2>6. QED
    BY <2>3, <2>4, <2>5 DEF SessionInv
<1>4. QED
  BY <1>2, <1>3

LEMMA SendStep == ASSUME SessionInv, NEW k \in EntryKey, SendEntry(k) PROVE SessionInv'
<1> DEFINE kind == entryRequests[k].kind
           expected == entryRequests[k].expected
<1>1. kind \in {"message", "open", "closed"} /\ expected \in 0..MaxTimeline
  BY DEF SendEntry, SessionInv, SessionRows
<1>2. EntryAppended(k, kind, expected) /\ Acceptable(kind, expected) /\ ~Recorded(k) /\ session.sequence < MaxTimeline
  BY DEF SendEntry
<1> HIDE DEF kind, expected
<1>3. PICK new \in Timeline : timeline' = timeline \cup {new} /\ session' \in [sequence : 0..MaxTimeline, state : {"open", "closed"}]
  BY <1>1, <1>2, AppendedRest
<1>4. SessionRows'
  BY <1>3 DEF SendEntry, SessionInv, SessionRows
<1>5. Numbered'
  BY <1>1, <1>2, AppendedTrue
<1>6. \A s \in TaskStart : StartTrue(s)'
  BY <1>1, <1>2, StartStands, SessionsAssumption DEF SendEntry
<1>7. QED
  BY <1>4, <1>5, <1>6 DEF SessionInv

LEMMA SessionsStep == SessionInv /\ [SessionsNext]_sessionVars => SessionInv'
<1> SUFFICES ASSUME SessionInv, [SessionsNext]_sessionVars PROVE SessionInv'
  OBVIOUS
<1>1. SessionRows /\ Numbered /\ \A s \in TaskStart : StartTrue(s)
  BY DEF SessionInv
<1>2. ASSUME UNCHANGED <<session, timeline>> PROVE Numbered'
  BY <1>1, <1>2 DEF Numbered, ClosedAt, TimelineThrough
<1>3. ASSUME UNCHANGED <<session, timeline, sessionTasks, starts>>, SessionRows' PROVE SessionInv'
  BY <1>1, <1>2, <1>3 DEF SessionInv, StartTrue, TimelineThrough
<1>4. CASE UNCHANGED sessionVars
  BY <1>1, <1>3, <1>4 DEF sessionVars, SessionRows
<1>5. CASE SessionAccessChanges
  BY <1>1, <1>3, <1>5, SessionsAssumption DEF SessionAccessChanges, SessionMishap, SessionRows
<1>6. ASSUME NEW k \in EntryKey, NEW kind \in {"message", "open", "closed"}, FormEntry(k, kind) PROVE SessionInv'
  <2>1. sessionMishaps' \in 0..MaxSessionMishaps
    BY <1>1, <1>6, SessionsAssumption DEF FormEntry, SessionMishap, SessionRows
  <2>2. SessionRows'
    BY <2>1, <1>1, <1>6 DEF FormEntry, SessionRows
  <2>3. QED
    BY <2>2, <1>3, <1>6 DEF FormEntry
<1>7. ASSUME NEW s \in TaskStart, PinSnapshot(s) PROVE SessionInv'
  <2>1. session.sequence \in 0..MaxTimeline /\ session.sequence <= session.sequence
    BY <1>1, SessionsAssumption DEF SessionRows
  <2>2. SessionRows'
    BY <2>1, <1>1, <1>7 DEF PinSnapshot, SessionRows
  <2>3. \A r \in TaskStart : StartTrue(r)'
    BY <2>1, <1>1, <1>7 DEF PinSnapshot, SessionRows, StartTrue, TimelineThrough
  <2>4. QED
    BY <2>2, <2>3, <1>2, <1>7 DEF SessionInv, PinSnapshot
<1>8. ASSUME NEW s \in TaskStart, NEW step \in {"pinned", "valid", "found"}, StartStep(s, step),
             UNCHANGED <<session, timeline, entryRequests, sessionAccess, sessionTasks>>, sessionMishaps' \in 0..MaxSessionMishaps
      PROVE  SessionInv'
  <2>1. /\ starts' \in [TaskStart -> [step : {"idle", "pinned", "valid", "started", "linked", "found"}, through : 0..MaxTimeline]]
        /\ \A r \in TaskStart : starts'[r].through = starts[r].through /\ (r # s => starts'[r].step = starts[r].step)
        /\ starts'[s].step = step
    BY <1>8, StartRow
  <2>2. SessionRows'
    BY <2>1, <1>1, <1>8 DEF SessionRows
  <2>3. \A r \in TaskStart : StartTrue(r)'
    BY <2>1, <1>1, <1>8 DEF StartTrue, TimelineThrough
  <2>4. QED
    BY <2>2, <2>3, <1>2, <1>8 DEF SessionInv
<1>9. ASSUME NEW s \in TaskStart, ValidateStart(s) \/ BeginAgain(s) PROVE SessionInv'
  BY <1>1, <1>8, <1>9, SessionsAssumption DEF ValidateStart, BeginAgain, SessionMishap, SessionRows
<1>10. ASSUME NEW s \in TaskStart, StartSessionTask(s) PROVE SessionInv'
  <2>1. /\ starts' \in [TaskStart -> [step : {"idle", "pinned", "valid", "started", "linked", "found"}, through : 0..MaxTimeline]]
        /\ \A r \in TaskStart : starts'[r].through = starts[r].through /\ (r # s => starts'[r].step = starts[r].step)
        /\ starts'[s].step = "started"
    BY <1>10, StartRow DEF StartSessionTask
  <2> DEFINE through == starts[s].through
  <2>2. through \in 0..MaxTimeline /\ through <= session.sequence /\ TimelineThrough(through) \in SUBSET timeline
    BY <1>1 DEF SessionRows, StartTrue, TimelineThrough
  <2>3. UNCHANGED <<session, timeline, entryRequests, sessionAccess, sessionMishaps>>
    BY <1>10 DEF StartSessionTask
  <2>4. /\ sessionTasks' \in [TaskStart -> [through : 0..MaxTimeline, pinned : SUBSET timeline, made : {"no", "yes"}]]
        /\ \A r \in TaskStart : r # s => sessionTasks'[r] = sessionTasks[r]
        /\ sessionTasks'[s] = IF sessionTasks[s] = NoTask THEN [through |-> through, pinned |-> TimelineThrough(through), made |-> "yes"]
                              ELSE sessionTasks[s]
    BY <2>2, <1>1, <1>10 DEF StartSessionTask, SessionRows
  <2>5. SessionRows'
    BY <2>1, <2>3, <2>4, <1>1 DEF SessionRows
  <2>6. ASSUME NEW r \in TaskStart, r # s PROVE StartTrue(r)'
    BY <2>1, <2>3, <2>4, <2>6, <1>1 DEF StartTrue, TimelineThrough
  <2>7. StartTrue(s)'
    <3>1. CASE sessionTasks[s] # NoTask
      BY <3>1, <2>1, <2>3, <2>4, <1>1 DEF StartTrue, TimelineThrough, SessionRows
    <3>2. CASE sessionTasks[s] = NoTask
      <4>1. sessionTasks'[s].through = through /\ sessionTasks'[s].pinned = TimelineThrough(through) /\ sessionTasks'[s].made = "yes"
        BY <3>2, <2>4
      <4>2. \A e \in timeline : e.key # s
        BY <3>2, <1>1 DEF StartTrue, NoTask
      <4>3. QED
        BY <4>1, <4>2, <2>1, <2>2, <2>3, <1>1 DEF StartTrue, TimelineThrough
    <3>3. QED
      BY <3>1, <3>2
  <2>8. QED
    BY <2>3, <2>5, <2>6, <2>7, <1>2 DEF SessionInv
<1>11. ASSUME NEW s \in TaskStart, LinkTask(s) \/ FindStarted(s) PROVE SessionInv'
  <2>1. sessionTasks[s].made = "yes"
    BY <1>1, <1>11 DEF LinkTask, FindStarted, StartTrue, SessionRows
  <2>2. CASE FindStarted(s) /\ ~(sessionAccess = "yes" /\ session.sequence < MaxTimeline)
    BY <2>2, <1>1, <1>8 DEF FindStarted, SessionRows
  <2>3. CASE LinkTask(s) \/ (FindStarted(s) /\ sessionAccess = "yes" /\ session.sequence < MaxTimeline)
    BY <2>1, <2>3, LinkStep DEF LinkTask, FindStarted
  <2>4. QED
    BY <1>11, <2>2, <2>3
<1>12. QED
  BY <1>4, <1>5, <1>6, <1>7, <1>9, <1>10, <1>11, SendStep DEF SessionsNext

LEMMA TimelineIsHonest == SessionInv => SessionsTypeOK /\ TimelineHonest
<1> SUFFICES ASSUME SessionInv PROVE SessionsTypeOK /\ TimelineHonest
  OBVIOUS
<1>1. SessionsTypeOK
  <2>1. \A k \in EntryKey : entryRequests[k].kind \in {"none", "message", "open", "closed"} /\ entryRequests[k].expected \in 0..MaxTimeline
    BY SessionsAssumption DEF SessionInv, SessionRows, NoRequest
  <2>2. QED
    BY <2>1 DEF SessionInv, SessionRows, SessionsTypeOK, Timeline
<1>2. TimelineHonest
  BY DEF SessionInv, Numbered, StartTrue, TimelineHonest
<1>3. QED
  BY <1>1, <1>2
-----------------------------------------------------------------------------
(* Conversations: what was said adds up *)

Giver == {"initial", "nobody"} \cup ReplyKey
Initial == [label : Classification, fields : SUBSET RequiredField]
ConversationSnapshot == [label : Classification, given : [RequiredField -> Giver], state : {"clarifying", "ready"}]
Chat == [revision : 1..MaxTurns, initial : Initial, snapshot : ConversationSnapshot]
ReplyForm == [message : Feedback, expected : 1..MaxTurns, label : Classification \cup {"same"}, fields : SUBSET RequiredField]
Turn == [message : Feedback, revision : 2..MaxTurns, key : ReplyKey, form : ReplyForm, result : ConversationSnapshot]
ReportRow ==
  [step : {"idle", "answer"}] \cup [step : {"report", "converse"}, message : Feedback, initial : Initial]
    \cup [step : {"reply"}, key : ReplyKey, form : ReplyForm]

ConversationRows ==
  /\ issues \in [Feedback -> {"none", "issue"}] /\ reporter \in {"reporter", "other"}
  /\ conversations \in [Feedback -> {NoConversation} \cup Chat]
  /\ conversationTurns \in SUBSET Turn
  /\ replyForms \in [ReplyKey -> {NoForm} \cup ReplyForm]
  /\ reporting \in [Reporting -> ReportRow]
  /\ reportMishaps \in 0..MaxReportMishaps

Begun(m) == conversations[m] # NoConversation

\* The turns of a conversation that has begun, and what it says.
SaidTrue(m) ==
  LET said == {t \in conversationTurns : t.message = m} IN
    /\ issues[m] = "issue"
    /\ {t.revision : t \in said} = 2..conversations[m].revision
    /\ \A t, u \in said : t.revision = u.revision \/ t.key = u.key => t = u
    /\ \A t \in said : /\ t.form.expected = t.revision - 1
                       /\ t.revision = conversations[m].revision => conversations[m].snapshot = t.result
    /\ \A f \in RequiredField : conversations[m].snapshot.given[f] = LastGiven(m, f)
    /\ conversations[m].snapshot.state = "ready" => \A f \in RequiredField : conversations[m].snapshot.given[f] # "nobody"

ConversationInv ==
  /\ ConversationRows
  /\ \A t \in conversationTurns : Begun(t.message)
  /\ \A c \in Reporting : reporting[c].step = "converse" => issues[reporting[c].message] = "issue"
  /\ \A m \in Feedback : Begun(m) => SaidTrue(m)

LEMMA ReportKinds ==
  \A row \in ReportRow :
    /\ row.step \in {"idle", "answer", "report", "converse", "reply"}
    /\ row.step \in {"report", "converse"} =>
         row.message \in Feedback /\ row.initial \in Initial /\ row = [step |-> row.step, message |-> row.message, initial |-> row.initial]
    /\ row.step = "reply" => row.key \in ReplyKey /\ row.form \in ReplyForm
  BY DEF ReportRow

LEMMA NothingReported == ConversationsInit => ConversationInv
<1> SUFFICES ASSUME ConversationsInit PROVE ConversationInv
  OBVIOUS
<1>1. ConversationRows
  BY ConversationsAssumption DEF ConversationsInit, ConversationRows, NoReport, ReportRow
<1>2. \A m \in Feedback : ~Begun(m)
  BY DEF ConversationsInit, Begun
<1>3. \A c \in Reporting : reporting[c].step = "idle"
  BY DEF ConversationsInit, NoReport
<1>4. QED
  BY <1>1, <1>2, <1>3 DEF ConversationInv, ConversationsInit

LEMMA ConversationSays ==
  ASSUME NEW label \in Classification, NEW given \in [RequiredField -> Giver]
  PROVE  /\ Conversation(label, given) \in ConversationSnapshot
         /\ Conversation(label, given).given = given
         /\ Conversation(label, given).state = "ready" => \A f \in RequiredField : given[f] # "nobody"
  BY DEF Conversation, ConversationSnapshot

\* The turns that gave a field, and the last of turns.
GivenIn(m, f) == {t \in conversationTurns : t.message = m /\ f \in t.form.fields}
LastOf(given) == CHOOSE t \in given : \A u \in given : u.revision <= t.revision

LEMMA LastGivenIs ==
  ASSUME NEW m \in Feedback, NEW f \in RequiredField
  PROVE  /\ LastGiven(m, f) = IF GivenIn(m, f) = {} THEN IF f \in conversations[m].initial.fields THEN "initial" ELSE "nobody"
                              ELSE LastOf(GivenIn(m, f)).key
         /\ LastGiven(m, f)' = IF GivenIn(m, f)' = {} THEN IF f \in conversations'[m].initial.fields THEN "initial" ELSE "nobody"
                               ELSE LastOf(GivenIn(m, f)').key
  BY DEF LastGiven, GivenIn, LastOf

LEMMA LastIsLast ==
  ASSUME NEW given, NEW t \in given, \A u \in given : u.revision \in Int, \A u \in given : u.revision < t.revision \/ u = t
  PROVE  LastOf(given) = t
<1> DEFINE last == LastOf(given)
<1>1. \A v \in given : v.revision <= t.revision
  OBVIOUS
<1>2. last \in given /\ \A v \in given : v.revision <= last.revision
  BY <1>1 DEF LastOf
<1>3. QED
  BY <1>1, <1>2

GoneOn(row, n, next) == [[row EXCEPT !.revision = n] EXCEPT !.snapshot = next]

LEMMA ChatGoesOn ==
  ASSUME NEW row \in Chat, NEW n \in 1..MaxTurns, NEW next \in ConversationSnapshot
  PROVE  /\ GoneOn(row, n, next) \in Chat
         /\ GoneOn(row, n, next).revision = n /\ GoneOn(row, n, next).initial = row.initial /\ GoneOn(row, n, next).snapshot = next
<1> DEFINE later == [row EXCEPT !.revision = n]
<1>1. later \in Chat /\ later.revision = n /\ later.initial = row.initial
  BY DEF Chat
<1> HIDE DEF later
<1>2. [later EXCEPT !.snapshot = next] \in Chat
  BY <1>1 DEF Chat
<1>3. /\ [later EXCEPT !.snapshot = next].revision = n
      /\ [later EXCEPT !.snapshot = next].initial = row.initial
      /\ [later EXCEPT !.snapshot = next].snapshot = next
  BY <1>1 DEF Chat
<1>4. QED
  BY <1>2, <1>3 DEF later, GoneOn

\* One more turn, that its author had read up to.
LEMMA ReplySaid ==
  ASSUME ConversationInv, NEW m \in Feedback, NEW k \in ReplyKey, NEW form \in ReplyForm, NEW next \in ConversationSnapshot,
         form.message = m, conversations[m].revision = form.expected, conversations[m].revision < MaxTurns,
         ~KnownReply(k, m),
         next.given = [f \in RequiredField |-> IF f \in form.fields THEN k ELSE conversations[m].snapshot.given[f]],
         next.state = "ready" => \A f \in RequiredField : next.given[f] # "nobody",
         conversations' = [conversations EXCEPT ![m].revision = @ + 1, ![m].snapshot = next],
         conversationTurns' = conversationTurns \cup
           {[message |-> m, revision |-> conversations[m].revision + 1, key |-> k, form |-> form, result |-> next]},
         UNCHANGED issues
  PROVE  /\ conversations' \in [Feedback -> {NoConversation} \cup Chat] /\ conversationTurns' \in SUBSET Turn
         /\ \A x \in Feedback : Begun(x) => Begun(x)'
         /\ \A x \in Feedback : Begun(x)' => SaidTrue(x)'
         /\ Begun(m)
<1> DEFINE new == [message |-> m, revision |-> conversations[m].revision + 1, key |-> k, form |-> form, result |-> next]
<1>1. conversations \in [Feedback -> {NoConversation} \cup Chat] /\ conversationTurns \in SUBSET Turn
  BY DEF ConversationInv, ConversationRows
<1>2. form.expected \in 1..MaxTurns
  BY DEF ReplyForm
<1>3. conversations[m] \in Chat /\ Begun(m)
  BY <1>1, <1>2 DEF NoConversation, Chat, Begun
<1>4. PICK r \in 1..MaxTurns : r = conversations[m].revision
  BY <1>3 DEF Chat
<1>5. conversations[m].initial \in Initial /\ r + 1 \in 2..MaxTurns /\ r \in Nat
  BY <1>3, <1>4, ConversationsAssumption DEF Chat
<1>6. /\ conversations' \in [Feedback -> {NoConversation} \cup Chat]
      /\ conversations'[m] \in Chat
      /\ conversations'[m].revision = r + 1 /\ conversations'[m].initial = conversations[m].initial /\ conversations'[m].snapshot = next
      /\ \A x \in Feedback : x # m => conversations'[x] = conversations[x]
  <2>1. conversations'[m] = GoneOn(conversations[m], r + 1, next)
    BY <1>1, <1>4 DEF GoneOn
  <2>2. \A x \in Feedback : x # m => conversations'[x] = conversations[x]
    BY <1>1
  <2>3. PICK n \in 1..MaxTurns : n = r + 1
    BY <1>5, ConversationsAssumption
  <2>6. GoneOn(conversations[m], n, next) \in Chat
    BY <1>3, ChatGoesOn
  <2>7. /\ GoneOn(conversations[m], n, next).revision = n /\ GoneOn(conversations[m], n, next).initial = conversations[m].initial
        /\ GoneOn(conversations[m], n, next).snapshot = next
    BY <1>3, ChatGoesOn
  <2>4. /\ conversations'[m] \in Chat
        /\ conversations'[m].revision = r + 1 /\ conversations'[m].initial = conversations[m].initial
        /\ conversations'[m].snapshot = next
    BY <2>1, <2>3, <2>6, <2>7
  <2>5. DOMAIN conversations' = Feedback /\ conversations' = [x \in Feedback |-> conversations'[x]]
    BY <1>1
  <2>8. QED
    BY <2>2, <2>4, <2>5, <1>1
<1>7. new \in Turn
  BY <1>4, <1>5 DEF Turn
<1>8. new.message = m /\ new.revision = r + 1 /\ new.key = k /\ new.form = form /\ new.result = next
  BY <1>4
<1>9. conversationTurns' = conversationTurns \cup {new}
  OBVIOUS
<1> HIDE DEF new
<1>10. \A x \in Feedback : Begun(x)' => Begun(x)
  BY <1>3, <1>6 DEF Begun
<1>11. \A x \in Feedback : Begun(x) => Begun(x)'
  BY <1>5, <1>6 DEF Begun, NoConversation, Chat
<1>12. SaidTrue(m)
  BY <1>3 DEF ConversationInv
<1>13. \A t \in conversationTurns : t.message = m => t.revision \in 2..r
  BY <1>4, <1>12 DEF SaidTrue
<1>14. \A t \in conversationTurns : t.message = m => t.revision < r + 1 /\ t.key # k /\ t.revision \in Int
  BY <1>13, <1>5 DEF KnownReply
<1>15. ASSUME NEW x \in Feedback, x # m, Begun(x) PROVE SaidTrue(x)'
  <2>1. SaidTrue(x)
    BY <1>15 DEF ConversationInv
  <2>2. {t \in conversationTurns : t.message = x}' = {t \in conversationTurns : t.message = x}
    BY <1>8, <1>9, <1>15
  <2>3. conversations'[x] = conversations[x]
    BY <1>6, <1>15
  <2>4. \A f \in RequiredField : LastGiven(x, f)' = LastGiven(x, f)
    <3>1. ASSUME NEW f \in RequiredField PROVE LastGiven(x, f)' = LastGiven(x, f)
      <4>1. GivenIn(x, f)' = GivenIn(x, f)
        BY <2>2 DEF GivenIn
      <4>2. conversations'[x].initial = conversations[x].initial
        BY <2>3
      <4>3. LastGiven(x, f) = IF GivenIn(x, f) = {} THEN IF f \in conversations[x].initial.fields THEN "initial" ELSE "nobody"
                              ELSE LastOf(GivenIn(x, f)).key
        BY LastGivenIs
      <4>4. LastGiven(x, f)' = IF GivenIn(x, f)' = {} THEN IF f \in conversations'[x].initial.fields THEN "initial" ELSE "nobody"
                               ELSE LastOf(GivenIn(x, f)').key
        BY LastGivenIs
      <4>5. QED
        BY <4>1, <4>2, <4>3, <4>4
    <3>2. QED
      BY <3>1
  <2> DEFINE said == {t \in conversationTurns : t.message = x}
  <2>5. /\ issues'[x] = "issue"
        /\ {t.revision : t \in said'} = 2..conversations'[x].revision
        /\ \A t, u \in said' : t.revision = u.revision \/ t.key = u.key => t = u
        /\ \A t \in said' : /\ t.form.expected = t.revision - 1
                            /\ t.revision = conversations'[x].revision => conversations'[x].snapshot = t.result
    <3>1. /\ issues[x] = "issue"
          /\ {t.revision : t \in said} = 2..conversations[x].revision
          /\ \A t, u \in said : t.revision = u.revision \/ t.key = u.key => t = u
          /\ \A t \in said : /\ t.form.expected = t.revision - 1
                             /\ t.revision = conversations[x].revision => conversations[x].snapshot = t.result
      BY <2>1 DEF SaidTrue
    <3>2. said' = said /\ issues'[x] = issues[x] /\ conversations'[x] = conversations[x]
      BY <2>2, <2>3
    <3> HIDE DEF said
    <3>3. QED
      BY <3>1, <3>2
  <2>6. /\ \A f \in RequiredField : conversations'[x].snapshot.given[f] = LastGiven(x, f)'
        /\ conversations'[x].snapshot.state = "ready" => \A f \in RequiredField : conversations'[x].snapshot.given[f] # "nobody"
    BY <2>1, <2>3, <2>4 DEF SaidTrue
  <2>7. QED
    BY <2>5, <2>6 DEF SaidTrue
<1>16. SaidTrue(m)'
  <2> DEFINE said == {t \in conversationTurns : t.message = m}
  <2>1. said' = said \cup {new}
    BY <1>8, <1>9
  <2>2. {t.revision : t \in said'} = 2..(r + 1)
    <3>1. {t.revision : t \in said} = 2..r
      BY <1>4, <1>12 DEF SaidTrue
    <3>2. {t.revision : t \in said'} = {t.revision : t \in said} \cup {r + 1}
      BY <2>1, <1>8
    <3>3. QED
      BY <3>1, <3>2, <1>5
  <2>3. \A t, u \in said' : t.revision = u.revision \/ t.key = u.key => t = u
    <3>1. \A t \in said : t.revision # new.revision /\ t.key # new.key
      BY <1>14, <1>8
    <3>2. \A t, u \in said : t.revision = u.revision \/ t.key = u.key => t = u
      BY <1>12 DEF SaidTrue
    <3>3. QED
      BY <3>1, <3>2, <2>1
  <2>4. \A t \in said' : /\ t.form.expected = t.revision - 1
                         /\ t.revision = r + 1 => next = t.result
    <3>1. \A t \in said : t.form.expected = t.revision - 1 /\ t.revision # r + 1
      BY <1>12, <1>14, <1>5 DEF SaidTrue
    <3>2. new.form.expected = new.revision - 1 /\ new.result = next
      BY <1>4, <1>5, <1>8
    <3>3. QED
      BY <3>1, <3>2, <2>1
  <2>5. ASSUME NEW f \in RequiredField PROVE next.given[f] = LastGiven(m, f)'
    <3>1. CASE f \in form.fields
      <4>1. next.given[f] = k
        BY <3>1
      <4>2. /\ new \in conversationTurns' /\ f \in new.form.fields
            /\ \A u \in conversationTurns' : u.message = m => u.revision \in Int /\ (u.revision < new.revision \/ u = new)
        BY <3>1, <1>5, <1>8, <1>9, <1>14
      <4>3. new \in GivenIn(m, f)' /\ \A u \in GivenIn(m, f)' : u.revision \in Int /\ (u.revision < new.revision \/ u = new)
        BY <4>2, <1>8 DEF GivenIn
      <4>4. LastOf(GivenIn(m, f)') = new
        BY <4>3, LastIsLast
      <4>5. QED
        BY <4>1, <4>3, <4>4, <1>8, LastGivenIs
    <3>2. CASE f \notin form.fields
      <4>1. next.given[f] = LastGiven(m, f)
        BY <3>2, <1>12 DEF SaidTrue
      <4>2. GivenIn(m, f)' = GivenIn(m, f)
        BY <3>2, <1>8, <1>9 DEF GivenIn
      <4>3. LastGiven(m, f)' = LastGiven(m, f)
        BY <4>2, <1>6, LastGivenIs
      <4>4. QED
        BY <4>1, <4>3
    <3>3. QED
      BY <3>1, <3>2
  <2>6. issues'[m] = "issue"
    BY <1>12 DEF SaidTrue
  <2>7. QED
    BY <2>2, <2>3, <2>4, <2>5, <2>6, <1>6 DEF SaidTrue
<1>17. conversationTurns' \in SUBSET Turn
  BY <1>1, <1>7, <1>9
<1>18. QED
  BY <1>3, <1>6, <1>10, <1>11, <1>15, <1>16, <1>17

\* A call goes on, or ends, and the conversations stay.
LEMMA ReportGoesOn ==
  ASSUME ConversationInv, NEW c \in Reporting, NEW call \in ReportRow, reporting' = [reporting EXCEPT ![c] = call],
         UNCHANGED <<conversations, conversationTurns, replyForms, reporter>>, reportMishaps' \in 0..MaxReportMishaps,
         issues' \in [Feedback -> {"none", "issue"}], \A m \in Feedback : issues[m] = "issue" => issues'[m] = "issue",
         call.step = "converse" => issues'[call.message] = "issue"
  PROVE  ConversationInv'
<1>1. ConversationRows'
  BY DEF ConversationInv, ConversationRows
<1>2. \A m \in Feedback : Begun(m)' => SaidTrue(m)'
  BY DEF ConversationInv, Begun, SaidTrue, LastGiven
<1>3. \A d \in Reporting : reporting'[d].step = "converse" => issues'[reporting'[d].message] = "issue"
  BY ReportKinds DEF ConversationInv, ConversationRows
<1>4. QED
  BY <1>1, <1>2, <1>3 DEF ConversationInv, Begun

\* The conversation begins, with what the message said.
LEMMA ConverseStep == ASSUME ConversationInv, NEW c \in Reporting, Converse(c) PROVE ConversationInv'
<1>1. ConversationRows /\ reporting[c] \in ReportRow /\ reporting[c].step = "converse"
  BY DEF ConversationInv, ConversationRows, Converse
<1>2. PICK m \in Feedback : m = reporting[c].message
  BY <1>1, ReportKinds
<1>3. PICK initial \in Initial : initial = reporting[c].initial
  BY <1>1, ReportKinds
<1>4. [step |-> "answer"] \in ReportRow /\ [step |-> "answer"].step # "converse"
  BY DEF ReportRow
<1>5. /\ reporting' = [reporting EXCEPT ![c] = [step |-> "answer"]]
      /\ UNCHANGED <<issues, conversationTurns, replyForms, reporter, reportMishaps>>
  BY DEF Converse, ReportStep
<1>6. CASE Begun(m)
  <2>1. UNCHANGED conversations
    BY <1>2, <1>6 DEF Converse, Begun
  <2>2. QED
    BY <2>1, <1>1, <1>4, <1>5, ReportGoesOn DEF ConversationRows
<1>7. CASE ~Begun(m)
  <2> DEFINE given == [f \in RequiredField |-> IF f \in initial.fields THEN "initial" ELSE "nobody"]
             first == [revision |-> 1, initial |-> initial, snapshot |-> Conversation(initial.label, given)]
  <2>1. conversations' = [conversations EXCEPT ![m] = first]
    BY <1>2, <1>3, <1>7 DEF Converse, Begun
  <2>2. initial.label \in Classification /\ given \in [RequiredField -> Giver]
    BY DEF Initial, Giver
  <2>3. /\ Conversation(initial.label, given) \in ConversationSnapshot
        /\ Conversation(initial.label, given).given = given
        /\ Conversation(initial.label, given).state = "ready" => \A f \in RequiredField : given[f] # "nobody"
    BY <2>2, ConversationSays
  <2>4. first \in Chat /\ first.revision = 1 /\ first.initial = initial /\ first.snapshot = Conversation(initial.label, given)
    BY <2>3, ConversationsAssumption DEF Chat
  <2>5. \A f \in RequiredField : given[f] = IF f \in initial.fields THEN "initial" ELSE "nobody"
    OBVIOUS
  <2> HIDE DEF first, given
  <2>6. conversations'[m] = first /\ \A x \in Feedback : x # m => conversations'[x] = conversations[x]
    BY <2>1, <1>1 DEF ConversationRows
  <2>7. ConversationRows'
    BY <2>1, <2>4, <1>1, <1>4, <1>5 DEF ConversationRows
  <2>8. \A t \in conversationTurns : t.message # m
    BY <1>7 DEF ConversationInv
  <2>9. \A f \in RequiredField : LastGiven(m, f)' = IF f \in initial.fields THEN "initial" ELSE "nobody"
    <3>1. \A f \in RequiredField : {t \in conversationTurns' : t.message = m /\ f \in t.form.fields} = {}
      BY <2>8, <1>5
    <3>2. QED
      BY <3>1, <2>4, <2>6 DEF LastGiven
  <2>10. SaidTrue(m)'
    <3>1. {t \in conversationTurns' : t.message = m} = {}
      BY <2>8, <1>5
    <3>2. issues'[m] = "issue"
      BY <1>1, <1>2, <1>5 DEF ConversationInv
    <3>3. {} = 2..conversations'[m].revision
      BY <2>4, <2>6
    <3>4. \A f \in RequiredField : conversations'[m].snapshot.given[f] = LastGiven(m, f)'
      BY <2>3, <2>4, <2>5, <2>6, <2>9
    <3>5. conversations'[m].snapshot.state = "ready" => \A f \in RequiredField : conversations'[m].snapshot.given[f] # "nobody"
      BY <2>3, <2>4, <2>6
    <3>6. QED
      BY <3>1, <3>2, <3>3, <3>4, <3>5 DEF SaidTrue
  <2>11. ASSUME NEW x \in Feedback, x # m, Begun(x)' PROVE SaidTrue(x)'
    <3>1. conversations'[x] = conversations[x] /\ SaidTrue(x)
      BY <2>6, <2>11 DEF Begun, ConversationInv
    <3>2. \A f \in RequiredField : LastGiven(x, f)' = LastGiven(x, f)
      BY <3>1, <1>5 DEF LastGiven
    <3>3. QED
      BY <3>1, <3>2, <1>5 DEF SaidTrue
  <2>12. \A t \in conversationTurns' : Begun(t.message)'
    BY <2>6, <2>8, <1>1, <1>5 DEF ConversationInv, Begun, ConversationRows, Turn
  <2>13. \A d \in Reporting : reporting'[d].step = "converse" => issues'[reporting'[d].message] = "issue"
    BY <1>1, <1>4, <1>5 DEF ConversationInv, ConversationRows
  <2>14. QED
    BY <2>7, <2>10, <2>11, <2>12, <2>13 DEF ConversationInv
<1>8. QED
  BY <1>6, <1>7

LEMMA StoreReplyStep == ASSUME ConversationInv, NEW c \in Reporting, StoreReply(c) PROVE ConversationInv'
<1>1. ConversationRows /\ reporting[c] \in ReportRow /\ reporting[c].step = "reply"
  BY DEF ConversationInv, ConversationRows, StoreReply
<1>2. PICK k \in ReplyKey : k = reporting[c].key
  BY <1>1, ReportKinds
<1>3. PICK form \in ReplyForm : form = reporting[c].form
  BY <1>1, ReportKinds
<1>4. PICK m \in Feedback : m = form.message
  BY DEF ReplyForm
<1>5. [step |-> "answer"] \in ReportRow /\ [step |-> "answer"].step # "converse"
  BY DEF ReportRow
<1>6. /\ reporting' = [reporting EXCEPT ![c] = [step |-> "answer"]]
      /\ UNCHANGED <<issues, replyForms, reporter, reportMishaps>>
  BY DEF StoreReply, ReportStep
<1>7. CASE KnownReply(k, m)
  <2>1. UNCHANGED <<conversations, conversationTurns>>
    BY <1>2, <1>3, <1>4, <1>7 DEF StoreReply
  <2>2. QED
    BY <2>1, <1>1, <1>5, <1>6, ReportGoesOn DEF ConversationRows
<1>8. CASE ~KnownReply(k, m)
  <2> DEFINE label == IF form.label = "same" THEN conversations[m].snapshot.label ELSE form.label
             given == [f \in RequiredField |-> IF f \in form.fields THEN k ELSE conversations[m].snapshot.given[f]]
             next == Conversation(label, given)
  <2>1. conversations[m].revision = form.expected /\ conversations[m].revision < MaxTurns
    BY <1>2, <1>3, <1>4, <1>8 DEF StoreReply, Timely
  <2>2. conversations[m] \in Chat
    <3>1. form.expected \in 1..MaxTurns
      BY DEF ReplyForm
    <3>2. QED
      BY <2>1, <3>1, <1>1 DEF ConversationRows, NoConversation
  <2>3. label \in Classification /\ given \in [RequiredField -> Giver]
    <3>1. conversations[m].snapshot \in ConversationSnapshot
      BY <2>2 DEF Chat
    <3>2. QED
      BY <3>1 DEF ConversationSnapshot, ReplyForm, Giver
  <2>4. conversations' = [conversations EXCEPT ![m].revision = @ + 1, ![m].snapshot = next]
    BY <1>2, <1>3, <1>4, <1>8 DEF StoreReply
  <2>5. conversationTurns' = conversationTurns \cup
          {[message |-> m, revision |-> conversations[m].revision + 1, key |-> k, form |-> form, result |-> next]}
    BY <1>2, <1>3, <1>4, <1>8 DEF StoreReply
  <2> HIDE DEF label
  <2>6. next \in ConversationSnapshot /\ next.given = given /\ (next.state = "ready" => \A f \in RequiredField : next.given[f] # "nobody")
    <3> HIDE DEF given
    <3>1. QED
      BY <2>3, ConversationSays
  <2> HIDE DEF next
  <2>7. /\ conversations' \in [Feedback -> {NoConversation} \cup Chat] /\ conversationTurns' \in SUBSET Turn
        /\ \A x \in Feedback : Begun(x) => Begun(x)'
        /\ \A x \in Feedback : Begun(x)' => SaidTrue(x)'
        /\ Begun(m)
    BY <2>1, <2>4, <2>5, <2>6, <1>4, <1>6, <1>8, ReplySaid
  <2>8. ConversationRows'
    BY <2>7, <1>1, <1>5, <1>6 DEF ConversationRows
  <2>9. \A t \in conversationTurns' : Begun(t.message)'
    BY <2>5, <2>7, <1>1 DEF ConversationInv, ConversationRows, Turn
  <2>10. \A d \in Reporting : reporting'[d].step = "converse" => issues'[reporting'[d].message] = "issue"
    BY <1>1, <1>5, <1>6 DEF ConversationInv, ConversationRows
  <2>11. QED
    BY <2>7, <2>8, <2>9, <2>10 DEF ConversationInv
<1>9. QED
  BY <1>7, <1>8

LEMMA ConversationsStep == ConversationInv /\ [ConversationsNext]_conversationVars => ConversationInv'
<1> SUFFICES ASSUME ConversationInv, [ConversationsNext]_conversationVars PROVE ConversationInv'
  OBVIOUS
<1>1. ConversationRows
  BY DEF ConversationInv
<1>2. ASSUME UNCHANGED <<issues, conversations, conversationTurns, reporting>>, ConversationRows' PROVE ConversationInv'
  BY <1>2 DEF ConversationInv, Begun, SaidTrue, LastGiven
<1>3. CASE UNCHANGED conversationVars
  BY <1>1, <1>2, <1>3 DEF conversationVars, ConversationRows
<1>4. ASSUME ReportMishap PROVE reportMishaps' \in 0..MaxReportMishaps
  BY <1>1, <1>4, ConversationsAssumption DEF ReportMishap, ConversationRows
<1>5. CASE SwitchIdentity
  BY <1>1, <1>2, <1>4, <1>5 DEF SwitchIdentity, ConversationRows
<1>6. [step |-> "idle"] \in ReportRow /\ [step |-> "idle"].step = "idle"
  BY DEF ReportRow
<1>7. ASSUME NEW c \in Reporting, BreaksOff(c) PROVE ConversationInv'
  BY <1>1, <1>4, <1>6, <1>7, ReportGoesOn DEF BreaksOff, ReportStep, NoReport, ConversationRows
<1>8. ASSUME NEW c \in Reporting, EndReport(c) PROVE ConversationInv'
  BY <1>1, <1>6, <1>8, ReportGoesOn DEF EndReport, ReportStep, NoReport, ConversationRows
<1>9. ASSUME NEW c \in Reporting, ReportIssue(c) PROVE ConversationInv'
  <2>1. reporting[c] \in ReportRow /\ reporting[c].step = "report"
    BY <1>1, <1>9 DEF ReportIssue, ConversationRows
  <2>2. PICK m \in Feedback : m = reporting[c].message
    BY <2>1, ReportKinds
  <2>3. PICK initial \in Initial : initial = reporting[c].initial
    BY <2>1, ReportKinds
  <2> DEFINE call == [step |-> "converse", message |-> m, initial |-> initial]
  <2>4. [reporting[c] EXCEPT !.step = "converse"] = call
    <3>1. reporting[c] = [step |-> "report", message |-> m, initial |-> initial]
      BY <2>1, <2>2, <2>3, ReportKinds
    <3>2. QED
      BY <3>1
  <2>5. call \in ReportRow /\ call.message = m
    BY DEF ReportRow
  <2>6. issues' \in [Feedback -> {"none", "issue"}] /\ issues'[m] = "issue" /\ \A x \in Feedback : issues[x] = "issue" => issues'[x] = "issue"
    BY <2>2, <1>1, <1>9 DEF ReportIssue, ConversationRows
  <2>7. /\ reporting' = [reporting EXCEPT ![c] = call] /\ UNCHANGED <<conversations, conversationTurns, replyForms, reporter>>
        /\ reportMishaps' \in 0..MaxReportMishaps
    BY <2>4, <1>1, <1>9 DEF ReportIssue, ReportStep, ConversationRows
  <2> HIDE DEF call
  <2>8. QED
    BY <2>5, <2>6, <2>7, ReportGoesOn
<1>10. ASSUME NEW c \in Reporting, NEW m \in Feedback, NEW label \in Classification, NEW fields \in SUBSET RequiredField,
              BeginReport(c, m, label, fields)
       PROVE  ConversationInv'
  <2> DEFINE call == [step |-> "report", message |-> m, initial |-> [label |-> label, fields |-> fields]]
  <2>1. call \in ReportRow /\ call.step # "converse"
    BY DEF ReportRow, Initial
  <2>2. reporting' = [reporting EXCEPT ![c] = call] /\ UNCHANGED <<issues, conversations, conversationTurns, replyForms, reporter, reportMishaps>>
    BY <1>10 DEF BeginReport, ReportStep
  <2> HIDE DEF call
  <2>3. QED
    BY <2>1, <2>2, <1>1, ReportGoesOn DEF ConversationRows
<1>11. ASSUME NEW c \in Reporting, NEW k \in ReplyKey, BeginReply(c, k) PROVE ConversationInv'
  <2> DEFINE call == [step |-> "reply", key |-> k, form |-> replyForms[k]]
  <2>1. replyForms[k] \in ReplyForm
    BY <1>1, <1>11 DEF BeginReply, ConversationRows
  <2>2. call \in ReportRow /\ call.step # "converse"
    BY <2>1 DEF ReportRow
  <2>3. reporting' = [reporting EXCEPT ![c] = call] /\ UNCHANGED <<issues, conversations, conversationTurns, replyForms, reporter, reportMishaps>>
    BY <1>11 DEF BeginReply, ReportStep
  <2> HIDE DEF call
  <2>4. QED
    BY <2>2, <2>3, <1>1, ReportGoesOn DEF ConversationRows
<1>12. ASSUME NEW k \in ReplyKey, NEW m \in Feedback, NEW label \in Classification \cup {"same"}, NEW fields \in SUBSET RequiredField,
              FormReply(k, m, label, fields)
       PROVE  ConversationInv'
  <2> DEFINE form == [message |-> m, expected |-> conversations[m].revision, label |-> label, fields |-> fields]
  <2>1. conversations[m] \in Chat
    BY <1>1, <1>12 DEF FormReply, ConversationRows
  <2>2. form \in ReplyForm
    BY <2>1 DEF Chat, ReplyForm
  <2>3. reportMishaps' \in 0..MaxReportMishaps
    BY <1>1, <1>4, <1>12 DEF FormReply, ConversationRows
  <2>4. replyForms' = [replyForms EXCEPT ![k] = form] /\ UNCHANGED <<issues, conversations, conversationTurns, reporting, reporter>>
    BY <1>12 DEF FormReply
  <2> HIDE DEF form
  <2>5. ConversationRows'
    BY <2>2, <2>3, <2>4, <1>1 DEF ConversationRows
  <2>6. QED
    BY <2>4, <2>5, <1>2
<1>13. QED
  BY <1>3, <1>5, <1>7, <1>8, <1>9, <1>10, <1>11, <1>12, ConverseStep, StoreReplyStep DEF ConversationsNext

LEMMA ConversationsDoAddUp == ConversationInv => ConversationsTypeOK /\ ConversationsAddUp
<1> SUFFICES ASSUME ConversationInv PROVE ConversationsTypeOK /\ ConversationsAddUp
  OBVIOUS
<1>1. ConversationsTypeOK
  <2>1. \A m \in Feedback : conversations[m].revision \in 0..MaxTurns
    BY ConversationsAssumption DEF ConversationInv, ConversationRows, Chat, NoConversation
  <2>2. \A t \in conversationTurns : t.message \in Feedback /\ t.revision \in 2..MaxTurns /\ t.key \in ReplyKey
    BY DEF ConversationInv, ConversationRows, Turn
  <2>3. \A c \in Reporting : reporting[c].step \in {"idle", "report", "converse", "reply", "answer"}
    BY ReportKinds DEF ConversationInv, ConversationRows
  <2>4. QED
    BY <2>1, <2>2, <2>3 DEF ConversationInv, ConversationRows, ConversationsTypeOK
<1>2. ConversationsAddUp
  <2>1. ASSUME NEW m \in Feedback, Begun(m) PROVE SaidTrue(m)
    BY <2>1 DEF ConversationInv
  <2>2. QED
    BY <2>1 DEF ConversationsAddUp, SaidTrue, Begun
<1>3. QED
  BY <1>1, <1>2
-----------------------------------------------------------------------------
(* Views: pages that are complete *)

WalkRow == [step : {"ask", "read", "done"}, after : 0..MaxPosition, page : SUBSET Position, found : Seq(Position), more : 0..MaxPosition]

ItemRows ==
  /\ item \in [Position -> {"absent", "hidden", "shown"}]
  /\ steady \subseteq {i \in Position : item[i] = "shown"}

\* What a traversal found in its page so far stands in order, past its cursor and before what
\* is left; nothing that stands still was passed over.
WalkTrue(w) ==
  /\ \A a, b \in 1..Len(w.found) : a < b => w.found[a] < w.found[b]
  /\ \A a \in 1..Len(w.found) : w.after < w.found[a] /\ \A i \in w.page : w.found[a] < i
  /\ \A i \in w.page : w.after < i
  /\ w.more # 0 => /\ w.after < w.more /\ \A i \in w.page : i <= w.more
                   /\ \A a \in 1..Len(w.found) : w.found[a] <= w.more
                   /\ inView # "documents"
  /\ w.step = "read" =>
       \A i \in steady : \/ i <= w.after \/ i \in w.page \/ (w.more # 0 /\ w.more < i)
                         \/ \E a \in 1..Len(w.found) : w.found[a] = i

\* What the pages listed: once each, up to the cursor, and whatever stood still.
ShownTrue(w, shown) ==
  /\ \A a, b \in 1..Len(shown) : shown[a] = shown[b] => a = b
  /\ w.step # "done" => /\ \A a \in 1..Len(shown) : shown[a] <= w.after
                        /\ \A i \in steady : i <= w.after => \E a \in 1..Len(shown) : shown[a] = i
  /\ w.step = "done" => \A i \in steady : \E a \in 1..Len(shown) : shown[a] = i

PageInv ==
  /\ walk \in WalkRow /\ pagesShown \in Seq(Position) /\ ItemRows
  /\ WalkTrue(walk) /\ ShownTrue(walk, pagesShown)

LEMMA PositionsAreNat == \A i \in Position : i \in Nat /\ i > 0 /\ i # 0 /\ i \in 0..MaxPosition
  BY ViewsAssumption DEF Position

LEMMA ListedPositions ==
  ASSUME NEW s \in Seq(Position)
  PROVE  Len(s) \in Nat /\ \A a \in 1..Len(s) : s[a] \in Position /\ s[a] \in Nat /\ s[a] \in 0..MaxPosition /\ s[a] # 0
<1>1. Len(s) \in Nat /\ \A a \in 1..Len(s) : s[a] \in Position
  OBVIOUS
<1>2. QED
  BY <1>1, PositionsAreNat

LEMMA NothingListed == ViewsInit => PageInv
<1> SUFFICES ASSUME ViewsInit PROVE PageInv
  OBVIOUS
<1>1. /\ walk.step = "ask" /\ walk.after = 0 /\ walk.page = {} /\ walk.found = <<>> /\ walk.more = 0
      /\ walk \in WalkRow /\ pagesShown = <<>> /\ pagesShown \in Seq(Position)
  BY ViewsAssumption DEF ViewsInit, WalkRow
<1>2. ItemRows
  <2>1. item \in [Position -> {"absent", "hidden", "shown"}]
    BY DEF ViewsInit
  <2>2. QED
    BY <2>1 DEF ViewsInit, ItemRows
<1>3. \A i \in steady : ~(i <= 0)
  BY <1>2, PositionsAreNat DEF ItemRows
<1>4. QED
  BY <1>1, <1>2, <1>3 DEF PageInv, WalkTrue, ShownTrue

\* One candidate is read, and listed if it is shown.
LEMMA ReadsTrue == ASSUME PageInv, Reads PROVE PageInv'
<1>1. PICK i \in walk.page :
        /\ walk.step = "read" /\ UNCHANGED pagesShown /\ \A j \in walk.page : i <= j
        /\ walk' = [walk EXCEPT !.page = @ \ {i}, !.found = IF item[i] = "shown" THEN Append(@, i) ELSE @]
        /\ UNCHANGED <<inView, item, steady>>
  BY DEF Reads, WalkGoes
<1>2. walk \in WalkRow /\ walk.page \in SUBSET Position /\ walk.found \in Seq(Position) /\ walk.after \in Nat /\ walk.more \in Nat
  BY ViewsAssumption DEF PageInv, WalkRow
<1> DEFINE found == IF item[i] = "shown" THEN Append(walk.found, i) ELSE walk.found
<1>3. found \in Seq(Position)
  BY <1>1, <1>2
<1>4. walk' = [walk EXCEPT !.page = walk.page \ {i}, !.found = found]
  BY <1>1
<1>5. \A a \in 1..Len(walk.found) : walk.found[a] \in Nat /\ walk.found[a] < i
  BY <1>1, <1>2, PositionsAreNat DEF PageInv, WalkTrue
<1>6. /\ item[i] = "shown" => Len(found) = Len(walk.found) + 1 /\ found[Len(found)] = i
      /\ item[i] # "shown" => Len(found) = Len(walk.found)
      /\ Len(walk.found) \in Nat /\ \A a \in 1..Len(walk.found) : found[a] = walk.found[a]
  BY <1>1, <1>2
<1> HIDE DEF found
<1>7. /\ walk' \in WalkRow /\ walk'.step = "read" /\ walk'.after = walk.after /\ walk'.more = walk.more
      /\ walk'.page = walk.page \ {i} /\ walk'.found = found
  BY <1>1, <1>2, <1>3, <1>4 DEF WalkRow
<1>8. i \in Nat /\ walk.after < i /\ \A j \in walk.page : j \in Nat /\ (j # i => i < j)
  BY <1>1, <1>2, PositionsAreNat DEF PageInv, WalkTrue
<1>9. \A a \in 1..Len(found) : \/ a \in 1..Len(walk.found) /\ found[a] = walk.found[a]
                               \/ a = Len(walk.found) + 1 /\ found[a] = i
  BY <1>6
<1>10. WalkTrue(walk)'
  <2>1. \A a, b \in 1..Len(found) : a < b => found[a] < found[b]
    BY <1>5, <1>6, <1>9 DEF PageInv, WalkTrue
  <2>2. \A a \in 1..Len(found) : walk.after < found[a] /\ \A j \in walk.page \ {i} : found[a] < j
    BY <1>8, <1>9 DEF PageInv, WalkTrue
  <2>3. walk.more # 0 => /\ walk.after < walk.more /\ \A j \in walk.page \ {i} : j <= walk.more
                         /\ \A a \in 1..Len(found) : found[a] <= walk.more
                         /\ inView # "documents"
    BY <1>9 DEF PageInv, WalkTrue
  <2>4. ASSUME NEW j \in steady
        PROVE  \/ j <= walk.after \/ j \in walk.page \ {i} \/ (walk.more # 0 /\ walk.more < j)
               \/ \E a \in 1..Len(found) : found[a] = j
    <3>1. CASE j = i
      <4>1. item[i] = "shown"
        BY <3>1 DEF PageInv, ItemRows
      <4>2. Len(found) \in 1..Len(found)
        BY <4>1, <1>6
      <4>3. QED
        BY <3>1, <4>1, <4>2, <1>6
    <3>2. CASE j # i
      <4>1. \/ j <= walk.after \/ j \in walk.page \/ (walk.more # 0 /\ walk.more < j)
            \/ \E a \in 1..Len(walk.found) : walk.found[a] = j
        BY <1>1 DEF PageInv, WalkTrue
      <4>2. \A a \in 1..Len(walk.found) : a \in 1..Len(found)
        BY <1>6
      <4>3. QED
        BY <3>2, <4>1, <4>2, <1>6
    <3>3. QED
      BY <3>1, <3>2
  <2>5. \A j \in walk'.page : walk'.after < j
    BY <1>7 DEF PageInv, WalkTrue
  <2>6. \A a, b \in 1..Len(walk'.found) : a < b => walk'.found[a] < walk'.found[b]
    BY <2>1, <1>7
  <2>7. \A a \in 1..Len(walk'.found) : walk'.after < walk'.found[a] /\ \A j \in walk'.page : walk'.found[a] < j
    BY <2>2, <1>7
  <2>8. walk'.more # 0 => /\ walk'.after < walk'.more /\ \A j \in walk'.page : j <= walk'.more
                          /\ \A a \in 1..Len(walk'.found) : walk'.found[a] <= walk'.more
                          /\ inView' # "documents"
    BY <2>3, <1>1, <1>7
  <2>9. \A j \in steady' : \/ j <= walk'.after \/ j \in walk'.page \/ (walk'.more # 0 /\ walk'.more < j)
                           \/ \E a \in 1..Len(walk'.found) : walk'.found[a] = j
    BY <2>4, <1>1, <1>7
  <2>10. QED
    BY <2>5, <2>6, <2>7, <2>8, <2>9 DEF WalkTrue
<1>11. ShownTrue(walk, pagesShown)'
  BY <1>1, <1>7 DEF PageInv, ShownTrue
<1>12. ItemRows'
  BY <1>1 DEF PageInv, ItemRows
<1>13. QED
  BY <1>1, <1>7, <1>10, <1>11, <1>12 DEF PageInv

\* A page of the rows ahead: all of them, or those up to the last.
LEMMA AsksTrue ==
  ASSUME PageInv, NEW page \in SUBSET Position, NEW more \in 0..MaxPosition, Asks(page, more),
         \A i \in page : walk.after < i,
         more # 0 => walk.after < more /\ inView # "documents" /\ \A i \in page : i <= more,
         \A i \in Position : walk.after < i /\ item[i] = "shown" => i \in page \/ (more # 0 /\ more < i)
  PROVE  PageInv'
<1>1. walk \in WalkRow /\ walk.after \in Nat
  BY ViewsAssumption DEF PageInv, WalkRow
<1>2. walk' = [walk EXCEPT !.step = "read", !.found = <<>>, !.page = page, !.more = more]
  BY DEF Asks, WalkGoes
<1>3. walk.step = "ask" /\ UNCHANGED <<inView, item, steady, pagesShown>>
  BY DEF Asks, WalkGoes
<1>4. <<>> \in Seq(Position) /\ Len(<<>>) = 0
  OBVIOUS
<1>5. /\ walk' \in WalkRow /\ walk'.step = "read" /\ walk'.after = walk.after /\ walk'.more = more
      /\ walk'.page = page /\ walk'.found = <<>>
  BY <1>1, <1>2, <1>4 DEF WalkRow
<1>6. WalkTrue(walk)'
  <2>1. \A i \in steady : i \in Position /\ item[i] = "shown" /\ (i <= walk.after \/ walk.after < i)
    BY <1>1, PositionsAreNat DEF PageInv, ItemRows
  <2>2. \A i \in steady' : \/ i <= walk'.after \/ i \in walk'.page \/ (walk'.more # 0 /\ walk'.more < i)
    BY <2>1, <1>3, <1>5
  <2>3. 1..Len(walk'.found) = {}
    BY <1>5
  <2>4. walk'.more # 0 => walk'.after < walk'.more /\ inView' # "documents" /\ \A i \in walk'.page : i <= walk'.more
    BY <1>3, <1>5
  <2>5. \A i \in walk'.page : walk'.after < i
    BY <1>5
  <2>6. QED
    BY <2>2, <2>3, <2>4, <2>5 DEF WalkTrue
<1>7. ShownTrue(walk, pagesShown)'
  BY <1>3, <1>5 DEF PageInv, ShownTrue
<1>8. ItemRows'
  BY <1>3 DEF PageInv, ItemRows
<1>9. QED
  BY <1>3, <1>5, <1>6, <1>7, <1>8 DEF PageInv

LEMMA AskStep == ASSUME PageInv, AskTasks \/ AskRoster \/ AskCatalogue PROVE PageInv'
<1> DEFINE ahead == After(walk.after)
<1>1. walk.after \in Nat
  BY ViewsAssumption DEF PageInv, WalkRow
<1>2. /\ ahead \in SUBSET Position /\ \A i \in ahead : walk.after < i
      /\ \A i \in Position : walk.after < i /\ item[i] = "shown" => i \in ahead
  BY <1>1, PositionsAreNat DEF After
<1>3. 0 \in 0..MaxPosition
  BY ViewsAssumption
<1>4. ASSUME Asks(ahead, 0) PROVE PageInv'
  BY <1>2, <1>3, <1>4, AsksTrue
<1>5. ASSUME NEW last \in ahead, Asks({i \in ahead : i <= last}, last), inView # "documents" PROVE PageInv'
  <2> DEFINE page == {i \in ahead : i <= last}
  <2>1. last \in 0..MaxPosition /\ walk.after < last
    BY <1>2, PositionsAreNat
  <2>2. page \in SUBSET Position /\ \A i \in page : walk.after < i /\ i <= last
    BY <1>2
  <2>7. last \in Nat /\ last # 0 /\ \A i \in Position : i \in Nat
    BY <1>2, PositionsAreNat
  <2>6. last # 0 /\ \A i \in Position : i <= last \/ last < i
    BY <2>7
  <2>3. \A i \in Position : walk.after < i /\ item[i] = "shown" => i \in page \/ (last # 0 /\ last < i)
    BY <2>6, <1>2
  <2>4. Asks(page, last)
    BY <1>5
  <2> HIDE DEF page
  <2>5. QED
    BY <2>1, <2>2, <2>3, <2>4, <1>5, AsksTrue
<1>6. QED
  BY <1>4, <1>5 DEF AskTasks, AskRoster, AskCatalogue, AsksRows

\* A page ends: what it found is listed, and the cursor is moved past it or there is no more.
LEMMA EndsTrue ==
  ASSUME PageInv, NEW found \in Seq(Position), NEW next \in 0..MaxPosition, walk.step = "read",
         pagesShown' = pagesShown \o found,
         walk' = [step |-> IF next = 0 THEN "done" ELSE "ask", after |-> next, page |-> {}, found |-> <<>>, more |-> 0],
         UNCHANGED <<inView, item, steady>>,
         Len(found) <= Len(walk.found), \A a \in 1..Len(found) : found[a] = walk.found[a] /\ (next # 0 => found[a] <= next),
         next # 0 => walk.after < next,
         \A i \in steady : i <= walk.after \/ (next # 0 /\ next < i) \/ \E a \in 1..Len(found) : found[a] = i
  PROVE  PageInv'
<1>1. walk.found \in Seq(Position) /\ walk.after \in Nat /\ next \in Nat /\ pagesShown \in Seq(Position)
  BY ViewsAssumption DEF PageInv, WalkRow
<1>2. /\ walk' \in WalkRow /\ walk'.step = (IF next = 0 THEN "done" ELSE "ask") /\ walk'.after = next
      /\ walk'.page = {} /\ walk'.found = <<>> /\ walk'.more = 0
  BY ViewsAssumption DEF WalkRow
<1>3. WalkTrue(walk)'
  BY <1>2 DEF WalkTrue
<1> DEFINE m == Len(pagesShown)
           n == Len(found)
           shown == pagesShown \o found
<1>4. m \in Nat /\ n \in Nat /\ shown \in Seq(Position) /\ Len(shown) = m + n
  BY <1>1
<1>5. /\ \A a \in 1..m : shown[a] = pagesShown[a]
      /\ \A a \in 1..n : m + a \in 1..(m + n) /\ shown[m + a] = found[a]
      /\ \A a \in 1..(m + n) : a \in 1..m \/ (a - m \in 1..n /\ shown[a] = found[a - m])
  BY <1>1, <1>4
<1>6. /\ \A a \in 1..m : pagesShown[a] \in Nat /\ pagesShown[a] <= walk.after
      /\ \A a, b \in 1..m : pagesShown[a] = pagesShown[b] => a = b
      /\ \A i \in steady : i <= walk.after => \E a \in 1..m : pagesShown[a] = i
  <2>1. \A a \in 1..m : pagesShown[a] \in Nat
    BY <1>1, ListedPositions
  <2>2. ShownTrue(walk, pagesShown) /\ walk.step # "done"
    BY DEF PageInv
  <2>3. QED
    BY <2>1, <2>2 DEF ShownTrue
<1>7. /\ \A a \in 1..n : a \in 1..Len(walk.found) /\ found[a] \in Nat /\ walk.after < found[a]
      /\ \A a, b \in 1..n : a < b => found[a] < found[b]
  <2>1. \A a \in 1..n : a \in 1..Len(walk.found)
    BY <1>1, <1>4
  <2>2. \A a \in 1..n : found[a] \in Nat
    BY ListedPositions
  <2>3. QED
    BY <2>1, <2>2 DEF PageInv, WalkTrue
<1> HIDE DEF m, n, shown
<1>8. \A a, b \in 1..(m + n) : shown[a] = shown[b] => a = b
  <2>1. ASSUME NEW a \in 1..(m + n), NEW b \in 1..(m + n), shown[a] = shown[b], a < b PROVE FALSE
    <3>1. CASE b \in 1..m
      BY <3>1, <2>1, <1>4, <1>5, <1>6
    <3>2. CASE b \notin 1..m /\ a \in 1..m
      <4>1. b - m \in 1..n /\ shown[b] = found[b - m] /\ shown[a] = pagesShown[a]
        BY <3>2, <1>5
      <4>2. QED
        <5>1. pagesShown[a] \in Nat /\ pagesShown[a] <= walk.after
          BY <3>2, <1>6
        <5>2. found[b - m] \in Nat /\ walk.after < found[b - m]
          BY <4>1, <1>7
        <5>3. QED
          BY <4>1, <5>1, <5>2, <2>1, <1>1
    <3>3. CASE b \notin 1..m /\ a \notin 1..m
      <4>1. b - m \in 1..n /\ a - m \in 1..n /\ found[b - m] = found[a - m]
        BY <3>3, <2>1, <1>5
      <4>2. a - m < b - m
        BY <2>1, <1>4
      <4>3. found[a - m] < found[b - m] /\ found[a - m] \in Nat
        BY <4>1, <4>2, <1>7
      <4>4. QED
        BY <4>1, <4>3
    <3>4. QED
      BY <3>1, <3>2, <3>3
  <2>2. QED
    BY <2>1, <1>4
<1>9. ASSUME NEW i \in steady, ~(next # 0 /\ next < i) PROVE \E a \in 1..(m + n) : shown[a] = i
  <2>1. i <= walk.after \/ \E a \in 1..n : found[a] = i
    BY <1>9 DEF n
  <2>2. \A a \in 1..m : a \in 1..(m + n)
    BY <1>4
  <2>3. CASE i <= walk.after
    <3>1. PICK a \in 1..m : pagesShown[a] = i
      BY <2>3, <1>6
    <3>2. shown[a] = i
      BY <3>1, <1>5
    <3>3. QED
      BY <3>2, <2>2
  <2>4. ASSUME NEW a \in 1..n, found[a] = i PROVE \E b \in 1..(m + n) : shown[b] = i
    BY <2>4, <1>5
  <2>5. QED
    BY <2>1, <2>3, <2>4
<1>10. next # 0 => \A a \in 1..(m + n) : shown[a] <= next
  <2>1. ASSUME next # 0, NEW a \in 1..(m + n) PROVE shown[a] <= next
    <3>1. CASE a \in 1..m
      BY <3>1, <2>1, <1>1, <1>5, <1>6
    <3>2. CASE a \notin 1..m
      <4>1. a - m \in 1..n /\ shown[a] = found[a - m]
        BY <3>2, <1>5
      <4>2. QED
        BY <4>1, <2>1 DEF n
    <3>3. QED
      BY <3>1, <3>2
  <2>2. QED
    BY <2>1
<1>11. \A i \in steady : i \in Nat
  BY PositionsAreNat DEF PageInv, ItemRows
<1>12. pagesShown' = shown /\ Len(pagesShown') = m + n
  BY <1>4 DEF shown
<1>13. ShownTrue(walk, pagesShown)'
  <2>1. \A i \in steady : i <= next /\ next # 0 => ~(next # 0 /\ next < i)
    BY <1>1, <1>11
  <2>2. walk'.step # "done" <=> next # 0
    BY <1>2
  <2>3. \A a, b \in 1..Len(pagesShown') : pagesShown'[a] = pagesShown'[b] => a = b
    BY <1>8, <1>12
  <2>4. next # 0 => /\ \A a \in 1..Len(pagesShown') : pagesShown'[a] <= walk'.after
                    /\ \A i \in steady' : i <= walk'.after => \E a \in 1..Len(pagesShown') : pagesShown'[a] = i
    BY <2>1, <1>2, <1>9, <1>10, <1>12
  <2>5. next = 0 => \A i \in steady' : \E a \in 1..Len(pagesShown') : pagesShown'[a] = i
    BY <1>9, <1>12
  <2>6. QED
    BY <2>2, <2>3, <2>4, <2>5 DEF ShownTrue
<1>14. ItemRows'
  BY DEF PageInv, ItemRows
<1>15. QED
  BY <1>2, <1>3, <1>4, <1>12, <1>13, <1>14 DEF PageInv

LEMMA EndStep == ASSUME PageInv, EndPage \/ EndSearch PROVE PageInv'
<1>1. walk \in WalkRow /\ walk.found \in Seq(Position) /\ walk.after \in Nat /\ walk.more \in 0..MaxPosition /\ WalkTrue(walk)
  BY ViewsAssumption DEF PageInv, WalkRow
<1>2. Len(walk.found) \in Nat /\ \A i \in steady : i \in Nat
  BY <1>1, PositionsAreNat DEF PageInv, ItemRows
<1>3. CASE ~PageFull
  <2>1. walk.page = {} /\ Ends(walk.found) /\ NextCursor = walk.more
    BY <1>3 DEF EndPage, EndSearch, NextCursor
  <2>2. /\ walk.step = "read" /\ pagesShown' = pagesShown \o walk.found /\ UNCHANGED <<inView, item, steady>>
        /\ walk' = [step |-> IF walk.more = 0 THEN "done" ELSE "ask", after |-> walk.more, page |-> {}, found |-> <<>>, more |-> 0]
    BY <2>1 DEF Ends, WalkGoes
  <2>3. \A i \in steady : i <= walk.after \/ (walk.more # 0 /\ walk.more < i) \/ \E a \in 1..Len(walk.found) : walk.found[a] = i
    BY <2>1, <2>2, <1>1 DEF WalkTrue
  <2>4. \A a \in 1..Len(walk.found) : walk.found[a] = walk.found[a] /\ (walk.more # 0 => walk.found[a] <= walk.more)
    BY <1>1 DEF WalkTrue
  <2>5. walk.more # 0 => walk.after < walk.more
    BY <1>1 DEF WalkTrue
  <2>6. Len(walk.found) <= Len(walk.found)
    BY <1>2
  <2>7. QED
    BY <2>2, <2>3, <2>4, <2>5, <2>6, <1>1, EndsTrue
<1>4. CASE PageFull
  <2> DEFINE found == SubSeq(walk.found, 1, PageLimit)
             next == walk.found[PageLimit]
  <2>1. inView = "documents" /\ Len(walk.found) > PageLimit /\ PageLimit \in 1..Len(walk.found)
    BY <1>2, <1>4, ViewsAssumption DEF PageFull
  <2>2. Ends(found) /\ NextCursor = next
    BY <1>4, <2>1 DEF EndPage, EndSearch, NextCursor
  <2>3. next \in Position /\ next \in 0..MaxPosition /\ next # 0 /\ next \in Nat
    BY <2>1, <1>1, ListedPositions
  <2>4. found \in Seq(Position) /\ Len(found) = PageLimit /\ \A a \in 1..Len(found) : found[a] = walk.found[a]
    BY <2>1, <1>1, ViewsAssumption
  <2>5. walk.more = 0
    BY <2>1, <1>1 DEF WalkTrue
  <2>6. \A a \in 1..Len(walk.found) : walk.found[a] \in Nat
    BY <1>1, ListedPositions
  <2>7. \A a \in 1..Len(found) : found[a] <= next
    <3>1. \A a \in 1..PageLimit : a \in 1..Len(walk.found) /\ (a < PageLimit \/ a = PageLimit)
      BY <2>1, <1>2, ViewsAssumption
    <3>2. QED
      BY <3>1, <2>1, <2>3, <2>4, <2>6, <1>1 DEF WalkTrue
  <2>8. walk.after < next
    BY <2>1, <1>1 DEF WalkTrue
  <2>9. ASSUME NEW i \in steady PROVE i <= walk.after \/ (next # 0 /\ next < i) \/ \E a \in 1..Len(found) : found[a] = i
    <3>1. walk.step = "read"
      BY <2>2 DEF Ends
    <3>2. i <= walk.after \/ i \in walk.page \/ \E a \in 1..Len(walk.found) : walk.found[a] = i
      BY <3>1, <2>5, <1>1 DEF WalkTrue
    <3>3. i \in walk.page => next < i
      BY <2>1, <1>1 DEF WalkTrue
    <3>4. ASSUME NEW a \in 1..Len(walk.found), walk.found[a] = i PROVE next < i \/ \E b \in 1..Len(found) : found[b] = i
      <4>1. CASE a <= PageLimit
        <5>1. a \in 1..Len(found)
          BY <4>1, <2>4, ViewsAssumption
        <5>2. QED
          BY <5>1, <3>4, <2>4
      <4>2. CASE PageLimit < a
        BY <4>2, <3>4, <2>1, <1>1 DEF WalkTrue
      <4>3. QED
        BY <4>1, <4>2, <1>2, ViewsAssumption
    <3>5. QED
      BY <3>2, <3>3, <3>4, <2>3
  <2>10. /\ walk.step = "read" /\ pagesShown' = pagesShown \o found /\ UNCHANGED <<inView, item, steady>>
         /\ walk' = [step |-> IF next = 0 THEN "done" ELSE "ask", after |-> next, page |-> {}, found |-> <<>>, more |-> 0]
    BY <2>2 DEF Ends, WalkGoes
  <2>11. Len(found) <= Len(walk.found)
    BY <2>1, <2>4, <1>2, ViewsAssumption
  <2> HIDE DEF found, next
  <2>12. QED
    BY <2>3, <2>4, <2>7, <2>8, <2>9, <2>10, <2>11, EndsTrue
<1>5. QED
  BY <1>3, <1>4

LEMMA PagesStep == PageInv /\ [ViewsNext]_viewVars => PageInv'
<1> SUFFICES ASSUME PageInv, [ViewsNext]_viewVars PROVE PageInv'
  OBVIOUS
<1>1. ASSUME UNCHANGED inView, UNCHANGED pageVars PROVE PageInv'
  BY <1>1 DEF pageVars, PageInv, ItemRows, WalkTrue, ShownTrue
<1>2. ASSUME NEW i \in Position, NEW state \in {"absent", "hidden", "shown"}, ItemChanges(i, state) PROVE PageInv'
  <2>1. /\ item' = [item EXCEPT ![i] = state] /\ steady' = steady \ {i} /\ walk.step # "done"
        /\ UNCHANGED <<inView, walk, pagesShown>>
    BY <1>2 DEF ItemChanges
  <2>2. ItemRows'
    BY <2>1 DEF PageInv, ItemRows
  <2>3. WalkTrue(walk)'
    BY <2>1 DEF PageInv, WalkTrue
  <2>4. ShownTrue(walk, pagesShown)'
    BY <2>1 DEF PageInv, ShownTrue
  <2>5. QED
    BY <2>1, <2>2, <2>3, <2>4 DEF PageInv
<1>3. ASSUME LosePage PROVE PageInv'
  <2>1. walk' = [walk EXCEPT !.step = "ask", !.page = {}, !.found = <<>>, !.more = 0]
    BY <1>3 DEF LosePage, WalkGoes
  <2>7. <<>> \in Seq(Position) /\ 0 \in 0..MaxPosition /\ {} \in SUBSET Position
    BY ViewsAssumption
  <2>2. /\ walk' \in WalkRow /\ walk'.step = "ask" /\ walk'.after = walk.after /\ walk'.more = 0
        /\ walk'.page = {} /\ walk'.found = <<>>
    BY <2>1, <2>7 DEF PageInv, WalkRow
  <2>3. walk.step = "read" /\ UNCHANGED <<inView, item, steady, pagesShown>>
    BY <1>3 DEF LosePage, WalkGoes
  <2>4. WalkTrue(walk)'
    BY <2>2 DEF WalkTrue
  <2>5. ShownTrue(walk, pagesShown)' /\ ItemRows'
    BY <2>2, <2>3 DEF PageInv, ShownTrue, ItemRows
  <2>6. QED
    BY <2>2, <2>3, <2>4, <2>5 DEF PageInv
<1>4. ASSUME DelegatedRuns \/ \E w \in DelegatedWrite : CallTakesEffect(w) PROVE UNCHANGED inView /\ UNCHANGED pageVars
  BY <1>4 DEF DelegatedRuns, CallTakesEffect, CallBecomesState, DelegatedBecomes
<1>5. ASSUME FindDelegated \/ TellProgress \/ ReadGrant \/ ReadResultTask \/ ReadShare \/ ReadArtifact
      PROVE  UNCHANGED inView /\ UNCHANGED pageVars
  BY <1>5 DEF FindDelegated, TellProgress, ReadGrant, ReadResultTask, ReadShare, ReadArtifact, ReaderBecomes
<1>6. ASSUME ShareChanges \/ ResultArrives PROVE UNCHANGED inView /\ UNCHANGED pageVars
  BY <1>6 DEF ShareChanges, SharedBecomes, ResultArrives
<1>7. CASE UNCHANGED viewVars
  BY <1>1, <1>7 DEF viewVars, pageVars
<1>8. QED
  BY <1>1, <1>2, <1>3, <1>4, <1>5, <1>6, <1>7, AskStep, ReadsTrue, EndStep DEF ViewsNext, ReadTask, ReadDocument, AuthorizeAgent

LEMMA PagesAreComplete == PageInv => PagesComplete
<1> SUFFICES ASSUME PageInv PROVE PagesComplete
  OBVIOUS
<1>1. pagesShown \in Seq(Position) /\ DOMAIN pagesShown = 1..Len(pagesShown)
  BY DEF PageInv
<1>2. IsInjective(pagesShown)
  BY <1>1 DEF PageInv, ShownTrue, IsInjective
<1>3. walk.step = "done" => steady \subseteq Range(pagesShown)
  BY <1>1 DEF PageInv, ShownTrue, Range
<1>4. QED
  BY <1>2, <1>3 DEF PagesComplete
-----------------------------------------------------------------------------
(* Views: what is told of a delegated Task *)

TaskState == {"none", "running", "cancelled", "succeeded"}
ReaderRow ==
  [step : {"idle"}] \cup [step : {"receipts"}, status : TaskState]
    \cup [step : {"task", "share", "content"}, sharing : {"on", "off", "revoked"}]

DelegatedRows ==
  /\ inView \in {"tasks", "documents", "agents", "progress", "results"}
  /\ delegated \in TaskState
  /\ delegatedCall \in [DelegatedWrite -> CallState] /\ effect \in [DelegatedWrite -> {"no", "yes"}]
  /\ reader \in ReaderRow /\ sharing \in {"on", "off", "revoked"} /\ artifact \in {"same", "changed", "gone"}

\* A write is known to have succeeded only if it was performed, and is none before it begins.
CallsTrue == \A w \in DelegatedWrite : /\ delegatedCall[w] = "succeeded" => effect[w] = "yes"
                                       /\ delegatedCall[w] = "none" => effect[w] = "no"

ProgressInv ==
  /\ DelegatedRows /\ CallsTrue
  /\ reader.step = "receipts" /\ reader.status \in {"cancelled", "succeeded"} => delegated = reader.status
  /\ reader.step \in {"share", "content"} => delegated = "succeeded"
  /\ clearTold = "yes" => /\ delegated \in {"cancelled", "succeeded"}
                          /\ \A w \in DelegatedWrite : delegatedCall[w] \in {"none", "succeeded"}
  /\ resultShown \subseteq {[task |-> "succeeded", content |-> "same"]}

LEMMA ReaderKinds ==
  \A read \in ReaderRow :
    /\ read.step \in {"idle", "receipts", "task", "share", "content"}
    /\ read.step = "receipts" => read.status \in TaskState
    /\ read.step \in {"task", "share", "content"} =>
         read.sharing \in {"on", "off", "revoked"} /\ read = [step |-> read.step, sharing |-> read.sharing]
  BY DEF ReaderRow

LEMMA NothingDelegated == ViewsInit => ProgressInv
<1> SUFFICES ASSUME ViewsInit PROVE ProgressInv
  OBVIOUS
<1>1. DelegatedRows
  BY DEF ViewsInit, DelegatedRows, NoReader, ReaderRow, TaskState, CallState
<1>2. CallsTrue
  BY DEF ViewsInit, CallsTrue
<1>3. QED
  BY <1>1, <1>2 DEF ViewsInit, ProgressInv, NoReader

\* The Task and its calls go on; an ended Task has ended.
LEMMA DelegatedGoesOn ==
  ASSUME ProgressInv, delegated' \in TaskState, delegated' # delegated => delegated \in {"none", "running"},
         delegatedCall' \in [DelegatedWrite -> CallState], effect' \in [DelegatedWrite -> {"no", "yes"}],
         UNCHANGED <<inView, reader, clearTold, resultShown>>, CallsTrue',
         sharing' \in {"on", "off", "revoked"}, artifact' \in {"same", "changed", "gone"},
         delegated \in {"cancelled", "succeeded"} =>
           \A w \in DelegatedWrite : delegatedCall[w] \in {"none", "succeeded"} => delegatedCall'[w] = delegatedCall[w]
  PROVE  ProgressInv'
<1>1. DelegatedRows'
  BY DEF ProgressInv, DelegatedRows
<1>2. QED
  BY <1>1 DEF ProgressInv

LEMMA RunsStep == ASSUME ProgressInv, DelegatedRuns \/ \E w \in DelegatedWrite : CallTakesEffect(w) PROVE ProgressInv'
<1>1. DelegatedRows /\ CallsTrue
  BY DEF ProgressInv
<1>2. ASSUME NEW task \in TaskState, DelegatedBecomes(task, delegatedCall), UNCHANGED effect, delegated \in {"none", "running"}
      PROVE  ProgressInv'
  BY <1>1, <1>2, DelegatedGoesOn DEF DelegatedBecomes, DelegatedRows, CallsTrue
<1>3. ASSUME NEW w \in DelegatedWrite, NEW from \in SUBSET CallState, NEW to \in CallState, CallBecomesState(w, from, to),
             effect' \in [DelegatedWrite -> {"no", "yes"}],
             \A v \in DelegatedWrite : v # w => effect'[v] = effect[v],
             to = "succeeded" => effect'[w] = "yes", to # "none",
             from \cap {"none", "succeeded"} = {} \/ delegated = "running"
      PROVE  ProgressInv'
  <2>1. /\ delegatedCall[w] \in from /\ delegated' = delegated /\ delegatedCall' = [delegatedCall EXCEPT ![w] = to]
        /\ UNCHANGED <<inView, reader, clearTold, sharing, artifact, resultShown>>
    BY <1>3 DEF CallBecomesState, DelegatedBecomes
  <2>2. /\ delegatedCall' \in [DelegatedWrite -> CallState] /\ delegatedCall'[w] = to
        /\ \A v \in DelegatedWrite : v # w => delegatedCall'[v] = delegatedCall[v]
    BY <2>1, <1>1 DEF DelegatedRows
  <2>3. CallsTrue'
    BY <2>2, <1>1, <1>3 DEF CallsTrue
  <2>4. delegated \in {"cancelled", "succeeded"} =>
          \A v \in DelegatedWrite : delegatedCall[v] \in {"none", "succeeded"} => delegatedCall'[v] = delegatedCall[v]
    BY <2>1, <2>2, <1>3
  <2>5. QED
    BY <2>1, <2>2, <2>3, <2>4, <1>1, <1>3, DelegatedGoesOn DEF DelegatedRows
<1>4. ASSUME NEW w \in DelegatedWrite,
             \/ delegated = "running" /\ CallBecomesState(w, {"none"}, "prepared")
             \/ delegated = "running" /\ CallBecomesState(w, {"prepared"}, "running")
             \/ CallBecomesState(w, {"prepared"}, "failed")
             \/ CallBecomesState(w, {"running", "unknown"}, "succeeded") /\ effect[w] = "yes"
             \/ CallBecomesState(w, {"running"}, "failed")
             \/ CallBecomesState(w, {"running"}, "unknown"),
             UNCHANGED effect
      PROVE  ProgressInv'
  <2>1. effect' \in [DelegatedWrite -> {"no", "yes"}]
    BY <1>1, <1>4 DEF DelegatedRows
  <2>2. CASE delegated = "running" /\ CallBecomesState(w, {"none"}, "prepared")
    BY <2>1, <2>2, <1>3, <1>4 DEF CallState
  <2>3. CASE delegated = "running" /\ CallBecomesState(w, {"prepared"}, "running")
    BY <2>1, <2>3, <1>3, <1>4 DEF CallState
  <2>4. CASE CallBecomesState(w, {"prepared"}, "failed")
    BY <2>1, <2>4, <1>3, <1>4 DEF CallState
  <2>5. CASE CallBecomesState(w, {"running", "unknown"}, "succeeded") /\ effect[w] = "yes"
    BY <2>1, <2>5, <1>3, <1>4 DEF CallState
  <2>6. CASE CallBecomesState(w, {"running"}, "failed")
    BY <2>1, <2>6, <1>3, <1>4 DEF CallState
  <2>7. CASE CallBecomesState(w, {"running"}, "unknown")
    BY <2>1, <2>7, <1>3, <1>4 DEF CallState
  <2>8. QED
    BY <1>4, <2>2, <2>3, <2>4, <2>5, <2>6, <2>7
<1>5. ASSUME NEW w \in DelegatedWrite, CallTakesEffect(w) PROVE ProgressInv'
  <2>1. delegatedCall[w] \in {"running", "unknown"} /\ CallBecomesState(w, {"running", "unknown"}, delegatedCall[w])
    BY <1>5 DEF CallTakesEffect, CallBecomesState
  <2>2. /\ effect' \in [DelegatedWrite -> {"no", "yes"}] /\ effect'[w] = "yes"
        /\ \A v \in DelegatedWrite : v # w => effect'[v] = effect[v]
    BY <1>1, <1>5 DEF CallTakesEffect, DelegatedRows
  <2>3. {"running", "unknown"} \in SUBSET CallState /\ delegatedCall[w] \in CallState
    BY <2>1 DEF CallState
  <2>4. QED
    BY <2>1, <2>2, <2>3, <1>3
<1>6. CASE DelegatedRuns
  <2>1. CASE \/ delegated = "none" /\ DelegatedBecomes("running", delegatedCall) /\ UNCHANGED effect
             \/ delegated = "running" /\ DelegatedBecomes("cancelled", delegatedCall) /\ UNCHANGED effect
             \/ delegated = "running" /\ DelegatedBecomes("succeeded", delegatedCall) /\ UNCHANGED effect
    BY <2>1, <1>2 DEF TaskState
  <2>2. QED
    BY <2>1, <1>4, <1>6 DEF DelegatedRuns
<1>7. QED
  BY <1>5, <1>6

\* The reader goes on, or tells.
LEMMA ReaderGoesOn ==
  ASSUME ProgressInv, NEW read \in ReaderRow, ReaderBecomes(read),
         read.step = "receipts" => read.status = delegated,
         read.step \in {"share", "content"} => delegated = "succeeded",
         clearTold' = clearTold \/ (/\ delegated \in {"cancelled", "succeeded"}
                                    /\ \A w \in DelegatedWrite : delegatedCall[w] \in {"none", "succeeded"}),
         resultShown' \subseteq {[task |-> "succeeded", content |-> "same"]}
  PROVE  ProgressInv'
<1>1. DelegatedRows' /\ CallsTrue'
  BY DEF ProgressInv, DelegatedRows, CallsTrue, ReaderBecomes
<1>2. QED
  BY <1>1 DEF ProgressInv, ReaderBecomes

LEMMA ReaderStep ==
  ASSUME ProgressInv, FindDelegated \/ TellProgress \/ ReadGrant \/ ReadResultTask \/ ReadShare \/ ReadArtifact
  PROVE  ProgressInv'
<1>1. DelegatedRows /\ resultShown \subseteq {[task |-> "succeeded", content |-> "same"]}
  BY DEF ProgressInv
<1>2. NoReader \in ReaderRow /\ NoReader.step = "idle"
  BY DEF NoReader, ReaderRow
<1>3. CASE FindDelegated
  <2>1. [step |-> "receipts", status |-> delegated] \in ReaderRow
    BY <1>1 DEF DelegatedRows, ReaderRow
  <2>2. QED
    BY <2>1, <1>1, <1>3, ReaderGoesOn DEF FindDelegated
<1>4. CASE TellProgress
  <2>1. CASE reader.status \in {"cancelled", "succeeded"} /\ ~NeedsReconciliation
    <3>1. delegated \in {"cancelled", "succeeded"} /\ \A w \in DelegatedWrite : delegatedCall[w] \in {"none", "succeeded"}
      BY <2>1, <1>4 DEF TellProgress, ProgressInv, NeedsReconciliation
    <3>2. QED
      BY <3>1, <1>1, <1>2, <1>4, ReaderGoesOn DEF TellProgress
  <2>2. CASE ~(reader.status \in {"cancelled", "succeeded"} /\ ~NeedsReconciliation)
    <3>1. clearTold' = clearTold
      BY <2>2, <1>4 DEF TellProgress
    <3>2. QED
      BY <3>1, <1>1, <1>2, <1>4, ReaderGoesOn DEF TellProgress
  <2>3. QED
    BY <2>1, <2>2
<1>5. CASE ReadGrant
  <2>1. [step |-> "task", sharing |-> sharing] \in ReaderRow
    BY <1>1 DEF DelegatedRows, ReaderRow
  <2>2. QED
    BY <2>1, <1>1, <1>5, ReaderGoesOn DEF ReadGrant
<1>6. ASSUME NEW step \in {"share", "content"}, reader.step \in {"task", "share", "content"}
      PROVE  [reader EXCEPT !.step = step] \in ReaderRow /\ [reader EXCEPT !.step = step].step = step
  <2>1. PICK terms \in {"on", "off", "revoked"} : terms = reader.sharing
    BY <1>1, <1>6, ReaderKinds DEF DelegatedRows
  <2>2. PICK at \in {"task", "share", "content"} : at = reader.step
    BY <1>6
  <2>3. reader = [step |-> at, sharing |-> terms]
    BY <2>1, <2>2, <1>1, ReaderKinds DEF DelegatedRows
  <2>4. [reader EXCEPT !.step = step] = [step |-> step, sharing |-> terms]
    BY <2>3
  <2>5. [step |-> step, sharing |-> terms] \in ReaderRow
    BY DEF ReaderRow
  <2>6. QED
    BY <2>4, <2>5
<1>7. CASE ReadResultTask
  <2>1. CASE delegated = "succeeded"
    BY <2>1, <1>1, <1>6, <1>7, ReaderGoesOn DEF ReadResultTask
  <2>2. CASE delegated # "succeeded"
    BY <2>2, <1>1, <1>2, <1>7, ReaderGoesOn DEF ReadResultTask
  <2>3. QED
    BY <2>1, <2>2
<1>8. CASE ReadShare
  <2>1. CASE sharing = "off"
    BY <2>1, <1>1, <1>2, <1>8, ReaderGoesOn DEF ReadShare
  <2>2. CASE sharing # "off"
    <3>1. delegated = "succeeded"
      BY <1>8 DEF ReadShare, ProgressInv
    <3>2. QED
      BY <2>2, <3>1, <1>1, <1>6, <1>8, ReaderGoesOn DEF ReadShare
  <2>3. QED
    BY <2>1, <2>2
<1>9. CASE ReadArtifact
  <2>1. delegated = "succeeded"
    BY <1>9 DEF ReadArtifact, ProgressInv
  <2>2. resultShown' \subseteq {[task |-> "succeeded", content |-> "same"]}
    BY <2>1, <1>1, <1>9 DEF ReadArtifact
  <2>3. QED
    BY <2>2, <1>2, <1>9, ReaderGoesOn DEF ReadArtifact
<1>10. QED
  BY <1>3, <1>4, <1>5, <1>7, <1>8, <1>9

LEMMA ProgressStep == ProgressInv /\ [ViewsNext]_viewVars => ProgressInv'
<1> SUFFICES ASSUME ProgressInv, [ViewsNext]_viewVars PROVE ProgressInv'
  OBVIOUS
<1>1. DelegatedRows /\ CallsTrue
  BY DEF ProgressInv
<1>2. ASSUME UNCHANGED inView, UNCHANGED shareVars PROVE ProgressInv'
  BY <1>2 DEF shareVars, ProgressInv, DelegatedRows, CallsTrue
<1>3. CASE UNCHANGED viewVars
  BY <1>2, <1>3 DEF viewVars, shareVars
<1>4. ASSUME NEW i \in Position, NEW state \in {"absent", "hidden", "shown"}, ItemChanges(i, state) PROVE UNCHANGED inView /\ UNCHANGED shareVars
  BY <1>4 DEF ItemChanges
<1>5. ASSUME AskTasks \/ AskRoster \/ AskCatalogue PROVE UNCHANGED inView /\ UNCHANGED shareVars
  BY <1>5 DEF AskTasks, AskRoster, AskCatalogue, AsksRows, Asks, WalkGoes
<1>6. ASSUME ReadTask \/ ReadDocument \/ AuthorizeAgent \/ EndPage \/ EndSearch \/ LosePage
      PROVE  UNCHANGED inView /\ UNCHANGED shareVars
  BY <1>6 DEF ReadTask, ReadDocument, AuthorizeAgent, Reads, EndPage, EndSearch, Ends, LosePage, WalkGoes
<1>7. CASE ShareChanges
  BY <1>1, <1>7, DelegatedGoesOn DEF ShareChanges, SharedBecomes, DelegatedRows, CallsTrue
<1>8. CASE ResultArrives
  <2>1. delegated' \in TaskState /\ delegated \in {"none", "running"}
    BY <1>8 DEF ResultArrives, TaskState
  <2>2. UNCHANGED <<inView, delegatedCall, effect, reader, clearTold, sharing, artifact, resultShown>>
    BY <1>8 DEF ResultArrives
  <2>3. QED
    BY <2>1, <2>2, <1>1, DelegatedGoesOn DEF DelegatedRows, CallsTrue
<1>9. QED
  BY <1>2, <1>3, <1>4, <1>5, <1>6, <1>7, <1>8, RunsStep, ReaderStep DEF ViewsNext

LEMMA ClearDoesSettle == ProgressInv => ClearIsSettled
<1> SUFFICES ASSUME ProgressInv PROVE ClearIsSettled
  OBVIOUS
<1>1. \A w \in DelegatedWrite : effect[w] \in {"no", "yes"}
  BY DEF ProgressInv, DelegatedRows
<1>2. QED
  BY <1>1 DEF ProgressInv, CallsTrue, ClearIsSettled

LEMMA ViewTypes == PageInv /\ ProgressInv => ViewsTypeOK
  BY DEF PageInv, ItemRows, WalkRow, ProgressInv, DelegatedRows, CallsTrue, ViewsTypeOK

\* What people are shown and told adds up, whatever is lost, repeated or changed between
\* the steps of those who ask, and for any of them: the timeline of a Session has no gap and
\* no event twice, and its Tasks rest on what they pinned (sessions/store.js:22-57,
\* sessions/service.js:42-48); the revisions of a support conversation are its turns, and
\* it says what they say (support/conversations.js:25-117); pages list what stands still,
\* and once (tasks/listing.js:19-33, knowledge/catalog.js:30-44, operations/service.js:20-29);
\* and who was told that a Task ended with nothing to reconcile was told the truth
\* (collaboration/progress.js:12-30, collaboration/artifacts.js:36-44).
THEOREM ToldIsTrue == RecordsSpec => []WhatIsToldHolds
<1> DEFINE Inv == SessionInv /\ ConversationInv /\ PageInv /\ ProgressInv
<1>1. RecordsInit => Inv
  BY SMTT(30), NothingSaid, NothingReported, NothingListed, NothingDelegated DEF RecordsInit
<1>2. [RecordsNext]_recordsVars =>
        [SessionsNext]_sessionVars /\ [ConversationsNext]_conversationVars /\ [ViewsNext]_viewVars
  BY DEF RecordsNext, Only, recordsVars
<1>3. Inv /\ [RecordsNext]_recordsVars => Inv'
  BY <1>2, SessionsStep, ConversationsStep, PagesStep, ProgressStep
<1>4. Inv => WhatIsToldHolds
  BY TimelineIsHonest, ConversationsDoAddUp, PagesAreComplete, ClearDoesSettle DEF WhatIsToldHolds
<1> HIDE DEF Inv
<1>5. QED
  BY <1>1, <1>3, <1>4, PTL DEF RecordsSpec
-----------------------------------------------------------------------------
(* FeedbackQueue: ids that keep their meaning *)

FileRecord ==
  [report : FeedbackReport, status : EditStatus \cup {"submitted", "triaged", "needs-information"},
   evidence : EditEvidence \cup {{}}, form : EditForm \cup {"sound"}]
Files == [Place -> [FeedbackId -> FileRecord \cup {NoFile}]]
IndexRow == [id : FeedbackId, status : EditStatus \cup {"submitted", "triaged", "needs-information"}]
Tree == [files : Files, index : SUBSET IndexRow]
TreeFile == [place : Place, id : FeedbackId]

\* What a branch tells, another tells too.
StillTells(old, new) ==
  \A f \in PresentFiles(old) :
    \E g \in PresentFiles(new) : g.id = f.id /\ FileAt(new, g).report = FileAt(old, f).report

FeedbackRows ==
  /\ mainBranch \in Tree /\ mergedMain \in [Clone -> Tree] /\ copies \in [Clone -> Tree]
  /\ drawn \in [Clone -> SUBSET FeedbackId] /\ edits \in 0..MaxEdits

\* What landed is valid, and no clone loses what it has merged of it.
FeedbackInv ==
  /\ FeedbackRows /\ ValidTree(mainBranch)
  /\ \A c \in Clone : ValidTree(mergedMain[c]) /\ StillTells(mergedMain[c], copies[c])

LEMMA FilesOfTree ==
  /\ \A tree : TreeFiles(tree) = TreeFile
  /\ \A tree : \A f \in PresentFiles(tree) : f \in TreeFile /\ FileAt(tree, f) # NoFile
  /\ \A tree : \A f \in TreeFile : FileAt(tree, f) # NoFile => f \in PresentFiles(tree)
  /\ \A p \in Place, i \in FeedbackId : [place |-> p, id |-> i] \in TreeFile
  /\ \A f, g \in TreeFile : f.place = g.place /\ f.id = g.id => f = g
<1>1. \A p \in Place, i \in FeedbackId :
        /\ [place |-> p, id |-> i] \in TreeFile
        /\ [place |-> p, id |-> i].place = p /\ [place |-> p, id |-> i].id = i
  BY DEF TreeFile
<1>2. \A f \in TreeFile : f.place \in Place /\ f.id \in FeedbackId /\ f = [place |-> f.place, id |-> f.id]
  BY DEF TreeFile
<1>3. ASSUME NEW tree PROVE TreeFiles(tree) = TreeFile
  <2>1. ASSUME NEW f \in TreeFiles(tree) PROVE f \in TreeFile
    BY <1>1, <2>1 DEF TreeFiles
  <2>2. ASSUME NEW f \in TreeFile PROVE f \in TreeFiles(tree)
    BY <1>2, <2>2 DEF TreeFiles
  <2>3. QED
    BY <2>1, <2>2
<1>4. \A tree : \A f \in PresentFiles(tree) : f \in TreeFile /\ FileAt(tree, f) # NoFile
  BY <1>3 DEF PresentFiles
<1>5. \A tree : \A f \in TreeFile : FileAt(tree, f) # NoFile => f \in PresentFiles(tree)
  BY <1>3 DEF PresentFiles
<1>6. \A f, g \in TreeFile : f.place = g.place /\ f.id = g.id => f = g
  BY <1>2
<1>7. QED
  BY <1>1, <1>3, <1>4, <1>5, <1>6

LEMMA RecordAt ==
  ASSUME NEW tree \in Tree, NEW f \in TreeFile
  PROVE  /\ FileAt(tree, f) \in FileRecord \cup {NoFile}
         /\ FileAt(tree, f) # NoFile => FileAt(tree, f) \in FileRecord
  BY DEF Tree, Files, TreeFile, FileAt

LEMMA NoFileIsNoRecord == \A record \in FileRecord : record # NoFile /\ record.report \in FeedbackReport
  BY FeedbackAssumption DEF FileRecord, NoFile

LEMMA EmptyIsValid == EmptyTree \in Tree /\ PresentFiles(EmptyTree) = {} /\ ValidTree(EmptyTree)
<1>1. EmptyTree \in Tree
  BY DEF EmptyTree, Tree, Files
<1>2. \A f \in TreeFile : FileAt(EmptyTree, f) = NoFile
  BY DEF EmptyTree, TreeFile, FileAt
<1>3. PresentFiles(EmptyTree) = {}
  BY <1>2, FilesOfTree
<1>4. QED
  BY <1>1, <1>3 DEF ValidTree, SingleIds

LEMMA NothingReportedYet == FeedbackInit => FeedbackInv
<1> SUFFICES ASSUME FeedbackInit PROVE FeedbackInv
  OBVIOUS
<1>1. FeedbackRows
  BY EmptyIsValid, FeedbackAssumption DEF FeedbackInit, FeedbackRows
<1>2. \A c \in Clone : mergedMain[c] = EmptyTree /\ copies[c] = EmptyTree
  BY DEF FeedbackInit
<1>3. QED
  BY <1>1, <1>2, EmptyIsValid DEF FeedbackInit, FeedbackInv, StillTells

\* One file is written, and the rest stays.
LEMMA FileWritten ==
  ASSUME NEW tree \in Tree, NEW f \in TreeFile, NEW record \in FileRecord \cup {NoFile}
  PROVE  LET new == [tree EXCEPT !.files[f.place][f.id] = record] IN
           /\ new \in Tree /\ FileAt(new, f) = record
           /\ \A g \in TreeFile : g # f => FileAt(new, g) = FileAt(tree, g)
<1> DEFINE at == f.place
           id == f.id
           files == [tree.files EXCEPT ![at] = [tree.files[at] EXCEPT ![id] = record]]
           new == [tree EXCEPT !.files[at][id] = record]
<1>1. at \in Place /\ id \in FeedbackId /\ tree.files \in Files
  BY DEF TreeFile, Tree
<1>2. new = [tree EXCEPT !.files = files]
  OBVIOUS
<1>3. /\ files \in Files
      /\ \A p \in Place, i \in FeedbackId : files[p][i] = IF p = at /\ i = id THEN record ELSE tree.files[p][i]
  BY <1>1 DEF Files
<1> HIDE DEF files
<1>4. [tree EXCEPT !.files = files] \in Tree /\ [tree EXCEPT !.files = files].files = files
  BY <1>3 DEF Tree
<1>5. new \in Tree /\ new.files = files
  BY <1>2, <1>4
<1> HIDE DEF new
<1>6. FileAt(new, f) = record
  BY <1>1, <1>3, <1>5 DEF FileAt
<1>7. ASSUME NEW g \in TreeFile, g # f PROVE FileAt(new, g) = FileAt(tree, g)
  <2>1. g.place \in Place /\ g.id \in FeedbackId /\ ~(g.place = at /\ g.id = id)
    BY <1>7, FilesOfTree DEF TreeFile
  <2>2. QED
    BY <2>1, <1>3, <1>5 DEF FileAt
<1>8. QED
  BY <1>5, <1>6, <1>7 DEF new

\* A clone changes its tree, and still tells what it told.
LEMMA CloneChanges ==
  ASSUME FeedbackInv, NEW c \in Clone, NEW tree \in Tree, TreeBecomes(c, tree), StillTells(copies[c], tree),
         drawn' \in [Clone -> SUBSET FeedbackId]
  PROVE  FeedbackInv'
<1>1. /\ edits' \in 0..MaxEdits /\ copies' \in [Clone -> Tree] /\ copies'[c] = tree
      /\ \A d \in Clone : d # c => copies'[d] = copies[d]
      /\ UNCHANGED <<mainBranch, mergedMain>>
  BY FeedbackAssumption DEF FeedbackInv, FeedbackRows, TreeBecomes
<1>2. FeedbackRows'
  BY <1>1 DEF FeedbackInv, FeedbackRows
<1>3. StillTells(mergedMain[c], tree)
  BY DEF FeedbackInv, StillTells
<1>4. QED
  BY <1>1, <1>2, <1>3 DEF FeedbackInv

\* Writing one file that keeps the report it had, or had none.
LEMMA WriteTells ==
  ASSUME NEW tree \in Tree, NEW f \in TreeFile, NEW record \in FileRecord,
         FileAt(tree, f) # NoFile => record.report = FileAt(tree, f).report
  PROVE  LET new == [tree EXCEPT !.files[f.place][f.id] = record] IN new \in Tree /\ StillTells(tree, new)
<1> DEFINE new == [tree EXCEPT !.files[f.place][f.id] = record]
<1>1. new \in Tree /\ FileAt(new, f) = record /\ \A g \in TreeFile : g # f => FileAt(new, g) = FileAt(tree, g)
  BY FileWritten
<1> HIDE DEF new
<1>2. ASSUME NEW g \in PresentFiles(tree) PROVE g \in PresentFiles(new) /\ FileAt(new, g).report = FileAt(tree, g).report
  BY <1>1, <1>2, FilesOfTree, NoFileIsNoRecord
<1>3. StillTells(tree, new)
  BY <1>2 DEF StillTells
<1>4. QED
  BY <1>1, <1>3 DEF new

LEMMA CopyStep == ASSUME FeedbackInv, NEW c \in Clone, NEW report \in FeedbackReport, CopyTemplate(c, report) PROVE FeedbackInv'
<1>1. PICK i \in drawn[c] :
        /\ FileAt(copies[c], [place |-> "inbox", id |-> i]) = NoFile
        /\ TreeBecomes(c, WithFile(c, [place |-> "inbox", id |-> i], Template(report)))
        /\ drawn' = [drawn EXCEPT ![c] = {}]
  BY DEF CopyTemplate
<1> DEFINE f == [place |-> "inbox", id |-> i]
<1>2. copies[c] \in Tree /\ i \in FeedbackId /\ drawn' \in [Clone -> SUBSET FeedbackId]
  BY <1>1 DEF FeedbackInv, FeedbackRows
<1>3. f \in TreeFile
  BY <1>2 DEF TreeFile, Place
<1>4. Template(report) \in FileRecord
  BY DEF Template, FileRecord
<1> HIDE DEF f
<1>5. WithFile(c, f, Template(report)) \in Tree /\ StillTells(copies[c], WithFile(c, f, Template(report)))
  BY <1>1, <1>2, <1>3, <1>4, WriteTells DEF WithFile, f
<1>6. QED
  BY <1>1, <1>2, <1>5, CloneChanges DEF f

LEMMA EditStep ==
  ASSUME FeedbackInv, NEW c \in Clone, NEW f \in PresentFiles(copies[c]), NEW record \in FileRecord,
         record.report = FileAt(copies[c], f).report, TreeBecomes(c, WithFile(c, f, record)), UNCHANGED drawn
  PROVE  FeedbackInv'
<1>1. copies[c] \in Tree /\ f \in TreeFile /\ drawn' \in [Clone -> SUBSET FeedbackId]
  BY FilesOfTree DEF FeedbackInv, FeedbackRows
<1>2. WithFile(c, f, record) \in Tree /\ StillTells(copies[c], WithFile(c, f, record))
  BY <1>1, WriteTells DEF WithFile
<1>3. QED
  BY <1>1, <1>2, CloneChanges

LEMMA ArchiveStep == ASSUME FeedbackInv, NEW c \in Clone, NEW i \in FeedbackId, ArchiveRecord(c, i) PROVE FeedbackInv'
<1> DEFINE f == [place |-> "inbox", id |-> i]
           g == [place |-> "archive", id |-> i]
           tree == copies[c]
           record == FileAt(copies[c], f)
           one == [tree EXCEPT !.files[g.place][g.id] = record]
           two == [one EXCEPT !.files[f.place][f.id] = NoFile]
<1>1. /\ f \in PresentFiles(tree) /\ FileAt(tree, g) = NoFile /\ UNCHANGED drawn
      /\ TreeBecomes(c, [copies[c] EXCEPT !.files["archive"][i] = record, !.files["inbox"][i] = NoFile])
  BY DEF ArchiveRecord
<1>2. tree \in Tree /\ f \in TreeFile /\ g \in TreeFile /\ f # g /\ drawn' \in [Clone -> SUBSET FeedbackId] /\ f.id = i /\ g.id = i
  BY <1>1 DEF FeedbackInv, FeedbackRows, TreeFile, Place
<1>3. [copies[c] EXCEPT !.files["archive"][i] = record, !.files["inbox"][i] = NoFile] = two
  OBVIOUS
<1>4. record \in FileRecord /\ record # NoFile
  BY <1>1, <1>2, RecordAt, FilesOfTree
<1> HIDE DEF f, g, record
<1>5. one \in Tree /\ FileAt(one, g) = record /\ \A h \in TreeFile : h # g => FileAt(one, h) = FileAt(tree, h)
  <2>1. tree \in Tree /\ g \in TreeFile /\ record \in FileRecord \cup {NoFile}
    BY <1>2, <1>4
  <2> HIDE DEF tree
  <2>2. QED
    BY <2>1, FileWritten
<1> HIDE DEF one
<1>6. two \in Tree /\ FileAt(two, f) = NoFile /\ \A h \in TreeFile : h # f => FileAt(two, h) = FileAt(one, h)
  BY <1>2, <1>5, FileWritten
<1> HIDE DEF two
<1>7. ASSUME NEW h \in PresentFiles(tree)
      PROVE  \E k \in PresentFiles(two) : k.id = h.id /\ FileAt(two, k).report = FileAt(tree, h).report
  <2>1. h \in TreeFile /\ FileAt(tree, h) # NoFile
    BY <1>7, FilesOfTree
  <2>2. CASE h = f
    <3>1. FileAt(two, g) = record
      BY <1>2, <1>5, <1>6
    <3>2. g \in PresentFiles(two)
      BY <3>1, <1>2, <1>4, FilesOfTree
    <3>3. QED
      BY <2>2, <3>1, <3>2, <1>2 DEF record
  <2>3. CASE h # f
    <3>1. h # g
      BY <1>1, <2>1
    <3>2. FileAt(two, h) = FileAt(tree, h)
      BY <2>1, <2>3, <3>1, <1>5, <1>6
    <3>3. QED
      BY <2>1, <3>2, FilesOfTree
  <2>4. QED
    BY <2>2, <2>3
<1>8. StillTells(tree, two)
  BY <1>7 DEF StillTells
<1>9. QED
  BY <1>1, <1>2, <1>3, <1>6, <1>8, CloneChanges

\* A landed tree has one file of an id.
LEMMA OneFile ==
  ASSUME NEW tree, ValidTree(tree), NEW f \in PresentFiles(tree), NEW g \in PresentFiles(tree), f.id = g.id
  PROVE  f = g
  BY DEF ValidTree, SingleIds

\* What the clone had merged, it told; what main tells beyond, the merge brings.
LEMMA MergeStep == ASSUME FeedbackInv, NEW c \in Clone, MergeMain(c) PROVE FeedbackInv'
<1> DEFINE old == mergedMain[c]
           ours == copies[c]
           theirs == mainBranch
<1>1. PICK index \in {copies[c].index, mainBranch.index} :
        copies' = [copies EXCEPT ![c] = [files |-> MergedFiles(c), index |-> index]]
  BY DEF MergeMain
<1> DEFINE new == [files |-> MergedFiles(c), index |-> index]
<1>2. old \in Tree /\ ours \in Tree /\ theirs \in Tree /\ ValidTree(old) /\ ValidTree(theirs) /\ StillTells(old, ours)
  BY DEF FeedbackInv, FeedbackRows
<1>3. \A p \in Place, i \in FeedbackId :
        /\ old.files[p][i] \in FileRecord \cup {NoFile} /\ ours.files[p][i] \in FileRecord \cup {NoFile}
        /\ theirs.files[p][i] \in FileRecord \cup {NoFile}
  BY <1>2 DEF Tree, Files
<1>4. MergedFiles(c) \in Files /\ index \in SUBSET IndexRow
  BY <1>2, <1>3 DEF MergedFiles, MergedFile, Files, Tree
<1>5. new \in Tree
  BY <1>4 DEF Tree
<1>6. \A f \in TreeFile : FileAt(new, f) = IF FileAt(theirs, f) = FileAt(old, f) THEN FileAt(ours, f) ELSE FileAt(theirs, f)
  BY DEF TreeFile, FileAt, MergedFiles, MergedFile
<1>7. /\ copies' \in [Clone -> Tree] /\ copies'[c] = new /\ \A d \in Clone : d # c => copies'[d] = copies[d]
      /\ mergedMain' \in [Clone -> Tree] /\ mergedMain'[c] = theirs /\ \A d \in Clone : d # c => mergedMain'[d] = mergedMain[d]
      /\ UNCHANGED <<mainBranch, drawn, edits>>
  BY <1>1, <1>2, <1>5 DEF MergeMain, FeedbackInv, FeedbackRows
<1> HIDE DEF new, old, ours, theirs
<1>8. ASSUME NEW f \in PresentFiles(theirs)
      PROVE  \E g \in PresentFiles(new) : g.id = f.id /\ FileAt(new, g).report = FileAt(theirs, f).report
  <2>1. f \in TreeFile /\ FileAt(theirs, f) # NoFile
    BY <1>8, FilesOfTree
  <2>2. CASE FileAt(theirs, f) # FileAt(old, f)
    BY <2>1, <2>2, <1>6, FilesOfTree
  <2>3. CASE FileAt(theirs, f) = FileAt(old, f)
    <3>1. f \in PresentFiles(old)
      BY <2>1, <2>3, FilesOfTree
    <3>2. PICK g \in PresentFiles(ours) : g.id = f.id /\ FileAt(ours, g).report = FileAt(old, f).report
      BY <3>1, <1>2 DEF StillTells
    <3>3. g \in TreeFile /\ FileAt(ours, g) # NoFile
      BY <3>2, FilesOfTree
    <3>4. FileAt(theirs, g) = FileAt(old, g)
      <4>1. CASE g = f
        BY <4>1, <2>3
      <4>2. CASE g # f
        <5>1. g \notin PresentFiles(theirs) /\ g \notin PresentFiles(old)
          BY <4>2, <3>1, <3>2, <1>2, <1>8, OneFile
        <5>2. QED
          BY <5>1, <3>3, FilesOfTree
      <4>3. QED
        BY <4>1, <4>2
    <3>5. FileAt(new, g) = FileAt(ours, g)
      BY <3>3, <3>4, <1>6
    <3>6. QED
      BY <2>3, <3>2, <3>3, <3>5, FilesOfTree
  <2>4. QED
    BY <2>2, <2>3
<1>9. StillTells(theirs, new)
  BY <1>8 DEF StillTells
<1>10. FeedbackRows'
  BY <1>7 DEF FeedbackInv, FeedbackRows
<1>11. \A d \in Clone : ValidTree(mergedMain'[d]) /\ StillTells(mergedMain'[d], copies'[d])
  BY <1>2, <1>7, <1>9 DEF FeedbackInv
<1>12. QED
  BY <1>7, <1>10, <1>11 DEF FeedbackInv

LEMMA LandStep == ASSUME FeedbackInv, NEW c \in Clone, Land(c) PROVE FeedbackInv'
<1>1. /\ mainBranch' = copies[c] /\ mergedMain' = [mergedMain EXCEPT ![c] = copies[c]] /\ ValidTree(copies[c])
      /\ UNCHANGED <<copies, drawn, edits>>
  BY DEF Land, PullVerified
<1>2. FeedbackRows'
  BY <1>1 DEF FeedbackInv, FeedbackRows
<1>3. StillTells(copies[c], copies[c])
  BY DEF StillTells
<1>4. \A d \in Clone : mergedMain'[d] = IF d = c THEN copies[c] ELSE mergedMain[d]
  BY <1>1 DEF FeedbackInv, FeedbackRows
<1>5. QED
  BY <1>1, <1>2, <1>3, <1>4 DEF FeedbackInv

LEMMA FeedbackStep == FeedbackInv /\ [FeedbackNext]_feedbackVars => FeedbackInv'
<1> SUFFICES ASSUME FeedbackInv, [FeedbackNext]_feedbackVars PROVE FeedbackInv'
  OBVIOUS
<1>1. FeedbackRows
  BY DEF FeedbackInv
<1>2. CASE UNCHANGED feedbackVars
  BY <1>2 DEF feedbackVars, FeedbackInv, FeedbackRows
<1>3. ASSUME NEW c \in Clone, NextId(c) PROVE FeedbackInv'
  <2>1. drawn' \in [Clone -> SUBSET FeedbackId] /\ UNCHANGED <<mainBranch, mergedMain, copies, edits>>
    BY <1>1, <1>3 DEF NextId, Allocable, FeedbackRows
  <2>2. QED
    BY <2>1 DEF FeedbackInv, FeedbackRows
<1>4. ASSUME NEW c \in Clone, WriteIndex(c) PROVE FeedbackInv'
  <2> DEFINE tree == copies[c]
  <2>1. tree \in Tree /\ TreeBecomes(c, Indexed(tree)) /\ UNCHANGED drawn
    BY <1>1, <1>4 DEF WriteIndex, FeedbackRows
  <2> HIDE DEF tree
  <2>2. ActiveIndex(tree) \in SUBSET IndexRow
    <3>1. ASSUME NEW f \in PresentFiles(tree) PROVE [id |-> f.id, status |-> FileAt(tree, f).status] \in IndexRow
      <4>1. f \in TreeFile /\ FileAt(tree, f) \in FileRecord
        BY <2>1, <3>1, FilesOfTree, RecordAt
      <4>2. QED
        BY <4>1 DEF TreeFile, FileRecord, IndexRow
    <3>2. QED
      BY <3>1 DEF ActiveIndex
  <2>3. Indexed(tree) \in Tree /\ Indexed(tree).files = tree.files
    BY <2>1, <2>2 DEF Indexed, Tree
  <2>4. \A f : FileAt(Indexed(tree), f) = FileAt(tree, f)
    BY <2>3 DEF FileAt
  <2>5. StillTells(tree, Indexed(tree))
    BY <2>4, FilesOfTree DEF StillTells
  <2>6. drawn' \in [Clone -> SUBSET FeedbackId]
    BY <2>1, <1>1 DEF FeedbackRows
  <2>7. QED
    BY <2>1, <2>3, <2>5, <2>6, CloneChanges DEF tree
<1>5. ASSUME NEW c \in Clone, NEW f \in PresentFiles(copies[c]), NEW status \in EditStatus, NEW evidence \in EditEvidence,
             EditRecord(c, f, status, evidence)
      PROVE  FeedbackInv'
  <2>1. FileAt(copies[c], f) \in FileRecord
    BY <1>1, FilesOfTree, RecordAt DEF FeedbackRows
  <2>2. PICK before \in FileRecord : before = FileAt(copies[c], f)
    BY <2>1
  <2> DEFINE record == [before EXCEPT !.status = status, !.evidence = evidence]
  <2>3. record \in FileRecord /\ record.report = before.report
    BY DEF FileRecord
  <2>4. TreeBecomes(c, WithFile(c, f, record)) /\ UNCHANGED drawn
    BY <2>2, <1>5 DEF EditRecord
  <2> HIDE DEF record
  <2>5. QED
    BY <2>2, <2>3, <2>4, EditStep
<1>6. ASSUME NEW c \in Clone, NEW f \in PresentFiles(copies[c]), NEW form \in EditForm, BreakForm(c, f, form)
      PROVE  FeedbackInv'
  <2>1. FileAt(copies[c], f) \in FileRecord
    BY <1>1, FilesOfTree, RecordAt DEF FeedbackRows
  <2>2. PICK before \in FileRecord : before = FileAt(copies[c], f)
    BY <2>1
  <2> DEFINE record == [before EXCEPT !.form = form]
  <2>3. record \in FileRecord /\ record.report = before.report
    BY DEF FileRecord
  <2>4. TreeBecomes(c, WithFile(c, f, record)) /\ UNCHANGED drawn
    BY <2>2, <1>6 DEF BreakForm
  <2> HIDE DEF record
  <2>5. QED
    BY <2>2, <2>3, <2>4, EditStep
<1>7. ASSUME NEW c \in Clone, NEW i \in FeedbackId, ApplyTriage(c, i) PROVE FeedbackInv'
  <2> DEFINE f == [place |-> "inbox", id |-> i]
  <2>1. f \in PresentFiles(copies[c])
    BY <1>7 DEF ApplyTriage, TriageRecord
  <2>2. FileAt(copies[c], f) \in FileRecord
    BY <2>1, <1>1, FilesOfTree, RecordAt DEF FeedbackRows
  <2>3. PICK before \in FileRecord : before = FileAt(copies[c], f)
    BY <2>2
  <2> DEFINE record == [before EXCEPT !.status = ProposedStatus(before)]
  <2>4. record \in FileRecord /\ record.report = before.report
    BY DEF FileRecord, ProposedStatus
  <2>5. TreeBecomes(c, WithFile(c, f, record)) /\ UNCHANGED drawn
    BY <2>3, <1>7 DEF ApplyTriage
  <2> HIDE DEF record, f
  <2>6. QED
    BY <2>1, <2>3, <2>4, <2>5, EditStep
<1>8. QED
  BY <1>2, <1>3, <1>4, <1>5, <1>6, <1>7, CopyStep, ArchiveStep, MergeStep, LandStep DEF FeedbackNext

\* A proposal changes the status of one record to one that every place and gate takes.
LEMMA TriageStaysValid ==
  ASSUME FeedbackInv, NEW c \in Clone, NEW i \in FeedbackId, ApplyTriage(c, i)
  PROVE  ValidTree(copies'[c])
<1> DEFINE f == [place |-> "inbox", id |-> i]
           tree == copies[c]
           new == copies'[c]
<1>1. f \in PresentFiles(tree) /\ ValidTree(tree) /\ tree \in Tree /\ f \in TreeFile
  BY FilesOfTree DEF ApplyTriage, TriageRecord, FeedbackInv, FeedbackRows
<1>2. PICK before \in FileRecord : before = FileAt(tree, f)
  BY <1>1, FilesOfTree, RecordAt
<1> DEFINE record == [before EXCEPT !.status = ProposedStatus(before)]
<1>3. /\ record \in FileRecord /\ record.form = before.form /\ record.evidence = before.evidence
      /\ record.status \in {"needs-information", "triaged"}
  BY DEF FileRecord, ProposedStatus
<1>4. new = [tree EXCEPT !.files[f.place][f.id] = record]
  BY <1>2 DEF ApplyTriage, TreeBecomes, WithFile, FeedbackInv, FeedbackRows
<1>5. f.place = "inbox"
  OBVIOUS
<1> HIDE DEF record, new, tree, f
<1>6. FileAt(new, f) = record /\ \A g \in TreeFile : g # f => FileAt(new, g) = FileAt(tree, g)
  BY <1>1, <1>3, <1>4, FileWritten
<1>7. \A g : g \in PresentFiles(new) <=> g \in PresentFiles(tree)
  BY <1>1, <1>3, <1>6, FilesOfTree, NoFileIsNoRecord
<1>8. ASSUME NEW g \in PresentFiles(new)
      PROVE  /\ Parses(FileAt(new, g)) /\ Fielded(FileAt(new, g)) /\ Filled(FileAt(new, g)) /\ Gated(g.place, FileAt(new, g))
             /\ Parses(FileAt(tree, g))
  <2>1. /\ Parses(FileAt(tree, g)) /\ Fielded(FileAt(tree, g)) /\ Filled(FileAt(tree, g)) /\ Gated(g.place, FileAt(tree, g))
        /\ g \in TreeFile
    BY <1>1, <1>7, <1>8, FilesOfTree DEF ValidTree
  <2>2. CASE g # f
    BY <2>1, <2>2, <1>6
  <2>3. CASE g = f
    <3>1. Parses(record) /\ Fielded(record) /\ Filled(record)
      BY <2>1, <2>3, <1>2, <1>3 DEF Parses, Fielded, Filled
    <3>2. Gated(g.place, record)
      BY <2>3, <1>3, <1>5 DEF Gated, TaskRequired
    <3>3. QED
      BY <2>1, <2>3, <3>1, <3>2, <1>6
  <2>4. QED
    BY <2>2, <2>3
<1>9. SingleIds(new)
  BY <1>1, <1>7, <1>8 DEF ValidTree, SingleIds
<1>10. ValidTree(new)
  BY <1>8, <1>9 DEF ValidTree
<1>11. QED
  BY <1>10 DEF new

\* What lands tells of every id what main told, at one place.
LEMMA LandTells ==
  ASSUME FeedbackInv, NEW c \in Clone, Land(c), NEW i \in FeedbackId
  PROVE  /\ Tells(mainBranch, i) # {} => Tells(mainBranch', i) = Tells(mainBranch, i)
         /\ Tells(mainBranch', i) # {} => Cardinality({f \in PresentFiles(mainBranch') : f.id = i}) = 1
<1>1. mainBranch' = copies[c] /\ mergedMain[c] = mainBranch /\ ValidTree(copies[c]) /\ ValidTree(mainBranch) /\ StillTells(mainBranch, copies[c])
  BY DEF Land, PullVerified, FeedbackInv
<1> DEFINE old == mainBranch
           new == copies[c]
<1>2. ASSUME NEW f \in PresentFiles(old), f.id = i PROVE Tells(new, i) = {FileAt(old, f).report} /\ Tells(old, i) = {FileAt(old, f).report}
  <2>1. PICK g \in PresentFiles(new) : g.id = f.id /\ FileAt(new, g).report = FileAt(old, f).report
    BY <1>1, <1>2 DEF StillTells
  <2>2. {x \in PresentFiles(new) : x.id = i} = {g}
    BY <2>1, <1>1, <1>2, OneFile
  <2>3. {x \in PresentFiles(old) : x.id = i} = {f}
    BY <1>1, <1>2, OneFile
  <2>4. QED
    BY <2>1, <2>2, <2>3 DEF Tells
<1>3. ASSUME Tells(old, i) # {} PROVE Tells(new, i) = Tells(old, i)
  <2>1. PICK f \in PresentFiles(old) : f.id = i
    BY <1>3 DEF Tells
  <2>2. QED
    BY <2>1, <1>2
<1>4. ASSUME Tells(new, i) # {} PROVE Cardinality({f \in PresentFiles(new) : f.id = i}) = 1
  <2>1. PICK f \in PresentFiles(new) : f.id = i
    BY <1>4 DEF Tells
  <2>2. {x \in PresentFiles(new) : x.id = i} = {f}
    BY <2>1, <1>1, OneFile
  <2>3. QED
    BY <2>2, FS_Singleton
<1>5. QED
  BY <1>1, <1>3, <1>4

LEMMA IdsMean ==
  FeedbackInv /\ [FeedbackNext]_feedbackVars =>
    /\ mainBranch' # mainBranch => \A i \in FeedbackId :
         /\ Tells(mainBranch, i) # {} => Tells(mainBranch', i) = Tells(mainBranch, i)
         /\ Tells(mainBranch', i) # {} => Cardinality({f \in PresentFiles(mainBranch') : f.id = i}) = 1
    /\ \A c \in Clone : copies'[c] # copies[c] /\ (\E i \in FeedbackId : ApplyTriage(c, i)) => ValidTree(copies'[c])
<1> SUFFICES ASSUME FeedbackInv, [FeedbackNext]_feedbackVars
             PROVE  mainBranch' # mainBranch => \E c \in Clone : Land(c)
  BY LandTells, TriageStaysValid
<1>1. CASE UNCHANGED feedbackVars
  BY <1>1 DEF feedbackVars
<1>2. ASSUME NEW c \in Clone,
             \/ NextId(c) \/ WriteIndex(c) \/ MergeMain(c)
             \/ \E report \in FeedbackReport : CopyTemplate(c, report)
             \/ \E i \in FeedbackId : ArchiveRecord(c, i) \/ ApplyTriage(c, i)
             \/ \E f \in PresentFiles(copies[c]) :
                  \/ \E status \in EditStatus : \E evidence \in EditEvidence : EditRecord(c, f, status, evidence)
                  \/ \E form \in EditForm : BreakForm(c, f, form)
      PROVE  mainBranch' = mainBranch
  BY <1>2 DEF NextId, WriteIndex, MergeMain, CopyTemplate, ArchiveRecord, ApplyTriage, EditRecord, BreakForm, TreeBecomes
<1>3. QED
  BY <1>1, <1>2 DEF FeedbackNext

LEMMA FeedbackTypes == FeedbackInv => FeedbackTypeOK
<1> SUFFICES ASSUME FeedbackInv PROVE FeedbackTypeOK
  OBVIOUS
<1>1. ASSUME NEW tree \in Tree
      PROVE  /\ \A f \in TreeFiles(tree) : FileAt(tree, f).report \in FeedbackReport \cup {NoFeedback}
             /\ \A row \in tree.index : row.id \in FeedbackId
  <2>1. \A f \in TreeFiles(tree) : FileAt(tree, f).report \in FeedbackReport \cup {NoFeedback}
    BY FilesOfTree, RecordAt, NoFileIsNoRecord DEF NoFile
  <2>2. \A row \in tree.index : row.id \in FeedbackId
    BY DEF Tree, IndexRow
  <2>3. QED
    BY <2>1, <2>2
<1>2. \A tree \in {mainBranch} \cup {copies[c] : c \in Clone} \cup {mergedMain[c] : c \in Clone} : tree \in Tree
  BY DEF FeedbackInv, FeedbackRows
<1>3. QED
  BY <1>1, <1>2 DEF FeedbackInv, FeedbackRows, FeedbackTypeOK

\* Whoever draws ids in whichever clone, edits, archives and merges in whatever order: what
\* lands keeps for every id the report it has on the main branch, at one place, and a
\* proposal leaves the queue valid (framework-feedback/records.js:605-611, 185-203;
\* scripts/framework-feedback.mjs:97-101).
THEOREM IdsAreKept == RecordsSpec => IdsKeepMeaning
<1>1. RecordsInit => FeedbackInv
  BY NothingReportedYet DEF RecordsInit
<1>2. [RecordsNext]_recordsVars => [FeedbackNext]_feedbackVars
  BY DEF RecordsNext, Only, recordsVars
<1>3. FeedbackInv /\ [RecordsNext]_recordsVars => FeedbackInv'
  BY <1>2, FeedbackStep
<1>4. FeedbackInv /\ [RecordsNext]_recordsVars =>
        [ /\ mainBranch' # mainBranch => \A i \in FeedbackId :
               /\ Tells(mainBranch, i) # {} => Tells(mainBranch', i) = Tells(mainBranch, i)
               /\ Tells(mainBranch', i) # {} => Cardinality({f \in PresentFiles(mainBranch') : f.id = i}) = 1
          /\ \A c \in Clone : copies'[c] # copies[c] /\ (\E i \in FeedbackId : ApplyTriage(c, i)) => ValidTree(copies'[c]) ]_feedbackVars
  BY <1>2, IdsMean
<1>5. QED
  BY <1>1, <1>3, <1>4, PTL DEF RecordsSpec, IdsKeepMeaning
-----------------------------------------------------------------------------
(* Workspaces: sources govern what rests on them *)

MemoryRow == [revision : 0..MaxRevision, state : KeptStates \cup {"absent", "forgotten"},
              expiry : {"never", "later", "past"}]

\* A revision never comes back, and one that is no content never becomes content.
MemoryKeeps(k) ==
  /\ memories'[k].revision >= memories[k].revision
  /\ memories'[k].revision = memories[k].revision /\ StatusOf(k) # "active" => StatusOf(k)' # "active"

LEMMA NothingKnown == MemoriesInit => MemoriesTypeOK
  BY WorkspacesAssumption DEF MemoriesInit, MemoriesTypeOK, NoMemory

LEMMA MemoryRevised ==
  ASSUME MemoriesTypeOK, NEW k \in MemoryKey, NEW state \in KeptStates \cup {"forgotten"},
         NEW expiry \in {"never", "later", "past"}, memories[k].revision < MaxRevision,
         Revised(k, state, expiry), UNCHANGED imports
  PROVE  MemoriesTypeOK' /\ \A x \in MemoryKey : MemoryKeeps(x)
<1> DEFINE row == [revision |-> memories[k].revision + 1, state |-> state, expiry |-> expiry]
<1>1. memories \in [MemoryKey -> MemoryRow] /\ imports \in [ImportRequest -> {"none", "receipt"}]
  BY DEF MemoriesTypeOK, MemoryRow
<1>2. row \in MemoryRow /\ row.revision = memories[k].revision + 1 /\ memories[k].revision \in Nat
  BY <1>1, WorkspacesAssumption DEF MemoryRow
<1>3. memories' = [memories EXCEPT ![k] = row]
  BY DEF Revised
<1> HIDE DEF row
<1>4. /\ memories' \in [MemoryKey -> MemoryRow] /\ memories'[k] = row
      /\ \A x \in MemoryKey : x # k => memories'[x] = memories[x]
  BY <1>1, <1>2, <1>3
<1>5. MemoriesTypeOK'
  BY <1>1, <1>4 DEF MemoriesTypeOK, MemoryRow
<1>6. ASSUME NEW x \in MemoryKey PROVE MemoryKeeps(x)
  <2>1. memories[x].revision \in Nat
    BY <1>1, WorkspacesAssumption DEF MemoryRow
  <2>2. QED
    BY <2>1, <1>2, <1>4 DEF MemoryKeeps, StatusOf
<1>7. QED
  BY <1>5, <1>6

LEMMA MemoriesGoOn ==
  ASSUME MemoriesTypeOK, MemoriesNext \/ UNCHANGED memoryVars
  PROVE  MemoriesTypeOK' /\ \A x \in MemoryKey : MemoryKeeps(x)
<1>1. /\ memories \in [MemoryKey -> MemoryRow] /\ imports \in [ImportRequest -> {"none", "receipt"}]
      /\ \A x \in MemoryKey : memories[x].revision \in Nat
  BY WorkspacesAssumption DEF MemoriesTypeOK, MemoryRow
<1>2. CASE UNCHANGED memoryVars
  BY <1>1, <1>2 DEF memoryVars, MemoriesTypeOK, MemoryKeeps, StatusOf
<1>3. ASSUME NEW k \in MemoryKey, NEW expiry \in {"never", "later"}, InsertMemory(k, expiry)
      PROVE  MemoriesTypeOK' /\ \A x \in MemoryKey : MemoryKeeps(x)
  <2>1. memories[k].revision < MaxRevision /\ Revised(k, "active", expiry) /\ UNCHANGED imports
    BY <1>3, WorkspacesAssumption DEF InsertMemory, NoMemory
  <2>2. QED
    BY <2>1, MemoryRevised DEF KeptStates
<1>4. ASSUME NEW k \in MemoryKey, NEW expiry \in {"never", "later"}, NEW expected \in 1..MaxRevision,
             \/ RewriteMemory(k, expected, expiry)
             \/ ResolveDispute(k, expected, expiry)
             \/ Relearn(k, expected, expiry)
      PROVE  MemoriesTypeOK' /\ \A x \in MemoryKey : MemoryKeeps(x)
  <2>1. memories[k].revision < MaxRevision /\ Revised(k, "active", expiry) /\ UNCHANGED imports
    BY <1>4 DEF RewriteMemory, ResolveDispute, Relearn, Matches
  <2>2. QED
    BY <2>1, MemoryRevised DEF KeptStates
<1>5. ASSUME NEW k \in MemoryKey, NEW expected \in 1..MaxRevision,
             \/ DisputeMemory(k, expected)
             \/ ForgetMemory(k, expected)
             \/ ExpireMemory(k, expected)
             \/ \E state \in {"active", "contradicted"} : AssessMemory(k, expected, state)
      PROVE  MemoriesTypeOK' /\ \A x \in MemoryKey : MemoryKeeps(x)
  <2>1. memories[k].expiry \in {"never", "later", "past"}
    BY <1>1 DEF MemoryRow
  <2>2. PICK state \in KeptStates \cup {"forgotten"} : Revised(k, state, memories[k].expiry)
    BY <1>5 DEF DisputeMemory, ForgetMemory, ExpireMemory, AssessMemory, KeptStates
  <2>3. memories[k].revision < MaxRevision /\ UNCHANGED imports
    BY <1>5 DEF DisputeMemory, ForgetMemory, ExpireMemory, AssessMemory, Assessable, Matches
  <2>4. QED
    BY <2>1, <2>2, <2>3, MemoryRevised
<1>6. ASSUME NEW k \in MemoryKey, MemoryAges(k)
      PROVE  MemoriesTypeOK' /\ \A x \in MemoryKey : MemoryKeeps(x)
  <2> DEFINE row == [memories[k] EXCEPT !.expiry = "past"]
  <2>1. /\ row \in MemoryRow /\ row.revision = memories[k].revision /\ row.state = memories[k].state
        /\ row.expiry = "past" /\ memories[k].expiry = "later"
    BY <1>1, <1>6 DEF MemoryRow, MemoryAges
  <2>2. memories' = [memories EXCEPT ![k] = row] /\ UNCHANGED imports
    BY <1>6 DEF MemoryAges
  <2> HIDE DEF row
  <2>3. /\ memories' \in [MemoryKey -> MemoryRow] /\ memories'[k] = row
        /\ \A x \in MemoryKey : x # k => memories'[x] = memories[x]
    BY <1>1, <2>1, <2>2
  <2>4. MemoriesTypeOK'
    BY <1>1, <2>2, <2>3 DEF MemoriesTypeOK, MemoryRow
  <2>5. QED
    BY <2>4, <2>3, <2>1, <1>1 DEF MemoryKeeps, StatusOf
<1>7. ASSUME NEW s \in ImportRequest, NEW skipped, NEW expiry \in {"never", "later"}, ImportSnapshot(s, skipped, expiry)
      PROVE  MemoriesTypeOK' /\ \A x \in MemoryKey : MemoryKeeps(x)
  <2> DEFINE row == [revision |-> 1, state |-> "active", expiry |-> expiry]
             taken == SnapshotKeys[s] \ skipped
  <2>1. row \in MemoryRow /\ row.revision = 1
    BY WorkspacesAssumption DEF MemoryRow, KeptStates
  <2>2. /\ memories' = [k \in MemoryKey |-> IF k \in taken THEN row ELSE memories[k]]
        /\ imports' \in [ImportRequest -> {"none", "receipt"}]
        /\ \A k \in taken : memories[k] = NoMemory
    BY <1>1, <1>7 DEF ImportSnapshot
  <2> HIDE DEF row, taken
  <2>3. memories' \in [MemoryKey -> MemoryRow]
    BY <1>1, <2>1, <2>2
  <2>4. MemoriesTypeOK'
    BY <2>2, <2>3 DEF MemoriesTypeOK, MemoryRow
  <2>5. ASSUME NEW x \in MemoryKey PROVE MemoryKeeps(x)
    <3>1. CASE x \in taken
      BY <3>1, <2>1, <2>2 DEF NoMemory, MemoryKeeps
    <3>2. CASE x \notin taken
      BY <3>2, <2>2, <1>1 DEF MemoryKeeps, StatusOf
    <3>3. QED
      BY <3>1, <3>2
  <2>6. QED
    BY <2>4, <2>5
<1>8. QED
  BY <1>2, <1>3, <1>4, <1>5, <1>6, <1>7 DEF MemoriesNext

\* A finite set, as a sequence, has its elements and no others.
LEMMA SeqOfSet ==
  ASSUME NEW set, IsFiniteSet(set)
  PROVE  /\ SetToSeq(set) \in Seq(set)
         /\ \A x \in set : \E i \in DOMAIN SetToSeq(set) : SetToSeq(set)[i] = x
<1> DEFINE n == Cardinality(set)
<1>1. n \in Nat /\ ExistsBijection(1..n, set)
  BY FS_CardinalityType
<1>2. PICK f \in Bijection(1..n, set) : TRUE
  BY <1>1 DEF ExistsBijection
<1>3. f \in [1..n -> set] /\ IsInjective(f)
  BY <1>2 DEF Bijection, Injection, IsInjective
<1> DEFINE s == SetToSeq(set)
<1>4. s \in [1..n -> set] /\ IsInjective(s)
  BY <1>3 DEF SetToSeq
<1> HIDE DEF s
<1>5. IsFiniteSet(1..n) /\ Cardinality(1..n) = n
  BY <1>1, FS_Interval
<1>6. s \in Injection(1..n, set)
  BY <1>4 DEF Injection, IsInjective
<1>7. s \in Surjection(1..n, set)
  BY <1>5, <1>6, FS_Injection
<1>8. \A x \in set : \E i \in 1..n : s[i] = x
  BY <1>7 DEF Surjection
<1>9. s \in Seq(set) /\ DOMAIN s = 1..n
  BY <1>1, <1>4
<1>10. QED
  BY <1>8, <1>9 DEF s

\* What stands in front of a sequence, and after it.
Lists(s, x) == \E i \in DOMAIN s : s[i] = x

LEMMA TodoOf ==
  ASSUME NEW set, NEW front \in Seq(set), NEW rest \in Seq(set), NEW s, s = front \o rest
  PROVE  /\ s \in Seq(set)
         /\ \A x : Lists(s, x) <=> Lists(front, x) \/ Lists(rest, x)
<1>1. /\ s \in Seq(set) /\ Len(s) = Len(front) + Len(rest)
      /\ Len(front) \in Nat /\ Len(rest) \in Nat
      /\ DOMAIN front = 1..Len(front) /\ DOMAIN rest = 1..Len(rest)
      /\ DOMAIN s = 1..Len(s)
  OBVIOUS
<1>2. \A i \in 1..Len(front) : s[i] = front[i]
  OBVIOUS
<1>3. ASSUME NEW i \in 1..Len(rest) PROVE s[Len(front) + i] = rest[i]
  OBVIOUS
<1>4. ASSUME NEW i \in DOMAIN rest PROVE Lists(s, rest[i])
  <2>1. PICK j \in Nat : j = Len(front) + i
    BY <1>1
  <2>2. j \in DOMAIN s
    BY <1>1, <2>1
  <2>3. QED
    BY <1>1, <1>3, <2>1, <2>2 DEF Lists
<1>5. ASSUME NEW i \in DOMAIN front PROVE Lists(s, front[i])
  BY <1>1, <1>2 DEF Lists
<1>6. ASSUME NEW j \in DOMAIN s PROVE Lists(front, s[j]) \/ Lists(rest, s[j])
  <2>1. CASE j <= Len(front)
    BY <1>1, <1>2, <2>1 DEF Lists
  <2>2. CASE j > Len(front)
    <3>1. PICK i \in 1..Len(rest) : j = Len(front) + i
      <4>1. j - Len(front) \in 1..Len(rest) /\ j = Len(front) + (j - Len(front))
        BY <1>1, <2>2
      <4>2. QED
        BY <4>1
    <3>2. QED
      BY <1>1, <1>3, <3>1 DEF Lists
  <2>3. QED
    BY <1>1, <2>1, <2>2
<1>7. ASSUME NEW x PROVE Lists(s, x) <=> Lists(front, x) \/ Lists(rest, x)
  <2>1. ASSUME Lists(s, x) PROVE Lists(front, x) \/ Lists(rest, x)
    <3>1. PICK j \in DOMAIN s : s[j] = x
      BY <2>1 DEF Lists
    <3>2. QED
      BY <3>1, <1>6
  <2>2. ASSUME Lists(front, x) PROVE Lists(s, x)
    <3>1. PICK j \in DOMAIN front : front[j] = x
      BY <2>2 DEF Lists
    <3>2. QED
      BY <3>1, <1>5
  <2>3. ASSUME Lists(rest, x) PROVE Lists(s, x)
    <3>1. PICK j \in DOMAIN rest : rest[j] = x
      BY <2>3 DEF Lists
    <3>2. QED
      BY <3>1, <1>4
  <2>4. QED
    BY <2>1, <2>2, <2>3
<1>8. QED
  BY <1>1, <1>7

\* The first of a sequence, and the others.
LEMMA HeadAndRest ==
  ASSUME NEW set, NEW s \in Seq(set), s # <<>>
  PROVE  /\ Head(s) \in set /\ Tail(s) \in Seq(set)
         /\ 1 \in DOMAIN s /\ Head(s) = s[1]
         /\ \A i \in DOMAIN s : s[i] = Head(s) \/ \E j \in DOMAIN Tail(s) : Tail(s)[j] = s[i]
<1>1. /\ Head(s) \in set /\ Tail(s) \in Seq(set) /\ Head(s) = s[1]
      /\ Len(s) \in Nat \ {0} /\ DOMAIN s = 1..Len(s) /\ DOMAIN Tail(s) = 1..(Len(s) - 1)
      /\ \A j \in 1..(Len(s) - 1) : Tail(s)[j] = s[j + 1]
  OBVIOUS
<1>2. ASSUME NEW i \in 1..Len(s), i # 1 PROVE \E j \in DOMAIN Tail(s) : Tail(s)[j] = s[i]
  <2>1. PICK j \in 1..(Len(s) - 1) : j + 1 = i
    BY <1>1, <1>2
  <2>2. QED
    BY <1>1, <2>1
<1>3. QED
  BY <1>1, <1>2

HeadRow == [revision : 0..(MaxVersion + 1), deleted : {"no", "yes"}]
Visit == [op : {"idle", "read", "write", "purge", "remove"}, path : Path \cup {NoPath},
          revision : 0..(MaxVersion + 1), refs : SUBSET Reference, todo : Seq(Reference),
          nodes : 0..MaxNodes, doomed : {"no", "yes"}]

\* A reference names a revision that was written.
Written(ref) ==
  /\ ref.source \in MemoryKey => ref.revision <= memories[ref.source].revision
  /\ ref.source \in Path => ref.revision \in 1..MaxVersion /\ ref.revision <= heads[ref.source].revision

\* A reference that cannot be read again.
Over(ref) ==
  IF ref.source \in MemoryKey
    THEN memories[ref.source].revision # ref.revision \/ StatusOf(ref.source) # "active"
    ELSE ~IsHead(ref.source, ref.revision)

\* One that is over, or rests on one that is.
Undone(ref) == Over(ref) \/ (ref.source \in Path /\ Doomed(ref.source, ref.revision))

WorkspaceRows ==
  /\ MemoriesTypeOK
  /\ heads \in [Path -> HeadRow] /\ versions \in [Path -> Seq(SUBSET Reference)]
  /\ grounds \in [Path -> [1..MaxVersion -> SUBSET Reference]]
  /\ visits \in [Reader -> Visit]

\* A head counts the versions of its document; of a removed one none is left.
HeadsCount == \A p \in Path :
  IF heads[p].deleted = "no" THEN heads[p].revision = Len(versions[p]) /\ heads[p].revision <= MaxVersion
    ELSE versions[p] = <<>>

\* What a version was derived from was written, and so was all it rests on.
VersionsRest == \A p \in Path : \A r \in DOMAIN versions[p] :
  /\ IsFiniteSet(versions[p][r]) /\ \A ref \in versions[p][r] : Written(ref)
  /\ grounds[p][r] = Followed(versions[p][r])

GroundsHold == \A p \in Path : \A r \in 1..MaxVersion :
  /\ r > heads[p].revision => grounds[p][r] = {}
  /\ \A ref \in grounds[p][r] :
       Written(ref) /\ (ref.source \in Path => grounds[ref.source][ref.revision] \subseteq grounds[p][r])

\* A walk still has to ask about whatever can refuse it.
VisitKnows(c) == LET visit == visits[c] IN
  /\ \A ref \in visit.refs : Written(ref)
  /\ IsFiniteSet(visit.refs)
  /\ \A i \in DOMAIN visit.todo : Written(visit.todo[i])
  /\ visit.op # "idle" => visit.path \in Path
  /\ visit.op = "read" /\ visit.doomed = "yes" => \E i \in DOMAIN visit.todo : Undone(visit.todo[i])
  /\ visit.op = "purge" =>
       visit.revision \in 1..MaxVersion /\ \A i \in DOMAIN visit.todo : visit.todo[i] \in grounds[visit.path][visit.revision]
  /\ visit.op = "remove" => visit.revision \in 1..MaxVersion /\ Doomed(visit.path, visit.revision)

LineageInv ==
  /\ WorkspaceRows /\ HeadsCount /\ VersionsRest /\ GroundsHold
  /\ \A c \in Reader : VisitKnows(c)

LEMMA DoomedIsOver ==
  ASSUME NEW p, NEW r PROVE Doomed(p, r) <=> \E ref \in grounds[p][r] : Over(ref)
  BY DEF Doomed, Over

LEMMA OneReference ==
  ASSUME NEW ref \in Reference
  PROVE  /\ ref.revision \in Nat /\ ref.revision # 0
         /\ \/ ref.source \in MemoryKey /\ ref.source \notin Path
            \/ ref.source \in Path /\ ref.source \notin MemoryKey
  BY WorkspacesAssumption DEF Reference

LEMMA OneElement ==
  ASSUME NEW set, NEW e \in set
  PROVE  /\ <<e>> \in Seq(set) /\ Len(<<e>>) = 1 /\ DOMAIN <<e>> = {1} /\ <<e>>[1] = e
         /\ <<>> \in Seq(set) /\ Len(<<>>) = 0 /\ DOMAIN <<>> = {}
  OBVIOUS

\* The walk of what a chain is written from.
LEMMA ChainFollowed ==
  ASSUME NEW k \in MemoryKey, NEW p \in Path, grounds[p][1] = {Names(k, 1)}
  PROVE  Followed({Names(k, 1)}) = {Names(k, 1)} /\ Followed({Names(p, 1)}) = {Names(p, 1), Names(k, 1)}
<1>1. Names(k, 1).source \notin Path /\ Names(p, 1).source = p /\ Names(p, 1).revision = 1
  BY WorkspacesAssumption DEF Names
<1>2. {x \in {Names(k, 1)} : x.source \in Path} = {} /\ {x \in {Names(p, 1)} : x.source \in Path} = {Names(p, 1)}
  BY <1>1
<1>3. {grounds[ref.source][ref.revision] : ref \in {}} = {}
  OBVIOUS
<1>4. {grounds[ref.source][ref.revision] : ref \in {Names(p, 1)}} = {grounds[p][1]}
  BY <1>1
<1>5. Followed({Names(k, 1)}) = {Names(k, 1)} \cup UNION {}
  BY <1>2, <1>3 DEF Followed
<1>6. Followed({Names(p, 1)}) = {Names(p, 1)} \cup UNION {grounds[p][1]}
  BY <1>2, <1>4 DEF Followed
<1>7. QED
  BY <1>5, <1>6

Chain(k, p, q) ==
  /\ p # q /\ imports = [s \in ImportRequest |-> "receipt"]
  /\ memories = [x \in MemoryKey |->
                   IF x = k THEN [revision |-> 1, state |-> "active", expiry |-> "never"] ELSE NoMemory]
  /\ heads = [x \in Path |-> [revision |-> IF x \in {p, q} THEN 1 ELSE 0, deleted |-> "no"]]
  /\ versions = [x \in Path |-> IF x = p THEN <<{Names(k, 1)}>> ELSE IF x = q THEN <<{Names(p, 1)}>> ELSE <<>>]
  /\ grounds = [x \in Path |-> [r \in 1..MaxVersion |->
                   IF r # 1 \/ x \notin {p, q} THEN {}
                   ELSE IF x = p THEN {Names(k, 1)} ELSE {Names(p, 1), Names(k, 1)}]]

RowsWritten ==
  /\ MemoriesTypeOK
  /\ heads \in [Path -> HeadRow] /\ versions \in [Path -> Seq(SUBSET Reference)]
  /\ grounds \in [Path -> [1..MaxVersion -> SUBSET Reference]]

LEMMA ChainHolds ==
  ASSUME NEW k \in MemoryKey, NEW p \in Path, NEW q \in Path, Chain(k, p, q)
  PROVE  RowsWritten /\ HeadsCount /\ VersionsRest /\ GroundsHold
<1> DEFINE a == Names(k, 1)
           b == Names(p, 1)
<1>1. /\ a \in Reference /\ a.source = k /\ a.revision = 1 /\ k \notin Path
      /\ b \in Reference /\ b.source = p /\ b.revision = 1 /\ p \notin MemoryKey
      /\ 1 \in 1..MaxVersion
  BY WorkspacesAssumption DEF Names, Reference
<1>2. \A x \in Path : /\ heads[x].revision = (IF x \in {p, q} THEN 1 ELSE 0) /\ heads[x].deleted = "no"
                      /\ heads[x] \in HeadRow
  BY WorkspacesAssumption DEF Chain, HeadRow
<1>3. /\ versions[p] = <<{a}>> /\ versions[q] = <<{b}>> /\ \A x \in Path \ {p, q} : versions[x] = <<>>
      /\ DOMAIN versions = Path
  BY DEF Chain
<1>4. /\ grounds[p][1] = {a} /\ grounds[q][1] = {b, a} /\ grounds \in [Path -> [1..MaxVersion -> SUBSET Reference]]
      /\ \A x \in Path : \A r \in 1..MaxVersion : r # 1 \/ x \notin {p, q} => grounds[x][r] = {}
  BY <1>1 DEF Chain
<1>5. memories[k].revision = 1
  BY DEF Chain
<1>6. MemoriesTypeOK
  BY WorkspacesAssumption DEF Chain, MemoriesTypeOK, NoMemory, KeptStates
<1>7. Followed({a}) = {a} /\ Followed({b}) = {b, a}
  BY <1>4, ChainFollowed
<1>8. p # q
  BY DEF Chain
<1> HIDE DEF a, b
<1>9. Written(a) /\ Written(b)
  BY <1>1, <1>2, <1>5 DEF Written
<1>10. ASSUME NEW x \in Path
       PROVE  /\ versions[x] \in Seq(SUBSET Reference) /\ Len(versions[x]) = heads[x].revision
              /\ DOMAIN versions[x] = IF x \in {p, q} THEN {1} ELSE {}
  <2>1. {a} \in SUBSET Reference /\ {b} \in SUBSET Reference
    BY <1>1
  <2>2. /\ <<{a}>> \in Seq(SUBSET Reference) /\ Len(<<{a}>>) = 1 /\ DOMAIN <<{a}>> = {1}
        /\ <<{b}>> \in Seq(SUBSET Reference) /\ Len(<<{b}>>) = 1 /\ DOMAIN <<{b}>> = {1}
        /\ <<>> \in Seq(SUBSET Reference) /\ Len(<<>>) = 0 /\ DOMAIN <<>> = {}
    BY <2>1, OneElement
  <2>3. \/ x = p /\ versions[x] = <<{a}>> /\ heads[x].revision = 1
        \/ x = q /\ versions[x] = <<{b}>> /\ heads[x].revision = 1
        \/ x \notin {p, q} /\ versions[x] = <<>> /\ heads[x].revision = 0
    BY <1>2, <1>3
  <2>4. QED
    BY <2>2, <2>3
<1>11. RowsWritten
  <2>1. heads \in [Path -> HeadRow]
    BY <1>2 DEF Chain
  <2>2. versions \in [Path -> Seq(SUBSET Reference)]
    <3>1. versions = [x \in Path |-> versions[x]]
      BY DEF Chain
    <3>2. QED
      BY <1>10, <3>1
  <2>3. QED
    BY <1>4, <1>6, <2>1, <2>2 DEF RowsWritten
<1>12. HeadsCount
  <2> SUFFICES ASSUME NEW x \in Path
               PROVE  heads[x].deleted = "no" /\ heads[x].revision = Len(versions[x]) /\ heads[x].revision <= MaxVersion
    BY DEF HeadsCount
  <2>1. heads[x].revision \in {0, 1} /\ heads[x].deleted = "no"
    BY <1>2
  <2>2. QED
    BY <1>10, <2>1, WorkspacesAssumption
<1>13. VersionsRest
  <2> SUFFICES ASSUME NEW x \in Path, NEW r \in DOMAIN versions[x]
               PROVE  /\ IsFiniteSet(versions[x][r]) /\ \A ref \in versions[x][r] : Written(ref)
                      /\ grounds[x][r] = Followed(versions[x][r])
    BY DEF VersionsRest
  <2>1. r = 1 /\ x \in {p, q}
    BY <1>10
  <2>2. IsFiniteSet({a}) /\ IsFiniteSet({b}) /\ <<{a}>>[1] = {a} /\ <<{b}>>[1] = {b}
    BY FS_Singleton, OneElement
  <2>3. CASE x = p
    <3>1. versions[x][r] = {a} /\ grounds[x][r] = {a}
      BY <1>3, <1>4, <2>1, <2>2, <2>3
    <3>2. QED
      BY <3>1, <1>7, <1>9, <2>2
  <2>4. CASE x = q
    <3>1. versions[x][r] = {b} /\ grounds[x][r] = {b, a}
      BY <1>3, <1>4, <2>1, <2>2, <2>4
    <3>2. QED
      BY <3>1, <1>7, <1>9, <2>2
  <2>5. QED
    BY <2>1, <2>3, <2>4
<1>14. GroundsHold
  <2> SUFFICES ASSUME NEW x \in Path, NEW r \in 1..MaxVersion
               PROVE  /\ r > heads[x].revision => grounds[x][r] = {}
                      /\ \A ref \in grounds[x][r] :
                           Written(ref) /\ (ref.source \in Path => grounds[ref.source][ref.revision] \subseteq grounds[x][r])
    BY DEF GroundsHold
  <2>1. CASE r # 1 \/ x \notin {p, q}
    BY <1>4, <2>1
  <2>2. CASE r = 1 /\ x = p
    BY <1>1, <1>2, <1>4, <1>9, <2>2
  <2>3. CASE r = 1 /\ x = q
    BY <1>1, <1>2, <1>4, <1>9, <2>3
  <2>4. QED
    BY <2>1, <2>2, <2>3
<1>15. QED
  BY <1>11, <1>12, <1>13, <1>14

LEMMA NothingHolds ==
  ASSUME NothingWritten
  PROVE  RowsWritten /\ HeadsCount /\ VersionsRest /\ GroundsHold
<1>1. MemoriesTypeOK
  BY NothingKnown DEF NothingWritten
<1>2. [revision |-> 0, deleted |-> "no"] \in HeadRow
  BY WorkspacesAssumption DEF HeadRow
<1>3. RowsWritten
  BY <1>1, <1>2 DEF NothingWritten, RowsWritten
<1>4. HeadsCount /\ VersionsRest /\ GroundsHold
  BY WorkspacesAssumption DEF NothingWritten, HeadsCount, VersionsRest, GroundsHold
<1>5. QED
  BY <1>3, <1>4

LEMMA LineageBegins == WorkspacesInit => LineageInv
<1> SUFFICES ASSUME WorkspacesInit PROVE LineageInv
  OBVIOUS
<1>1. RowsWritten /\ HeadsCount /\ VersionsRest /\ GroundsHold
  <2>1. CASE ChainWritten
    <3>1. PICK k \in MemoryKey, p \in Path, q \in Path : Chain(k, p, q)
      BY <2>1 DEF ChainWritten, Chain
    <3>2. QED
      BY <3>1, ChainHolds
  <2>2. CASE NothingWritten
    BY <2>2, NothingHolds
  <2>3. QED
    BY <2>1, <2>2 DEF WorkspacesInit
<1>2. NoVisit \in Visit
  BY WorkspacesAssumption DEF NoVisit, Visit
<1>3. WorkspaceRows
  BY <1>1, <1>2 DEF WorkspacesInit, WorkspaceRows, RowsWritten
<1>4. \A c \in Reader : visits[c] = NoVisit
  BY DEF WorkspacesInit
<1>5. /\ NoVisit.op = "idle" /\ NoVisit.refs = {} /\ NoVisit.todo = <<>> /\ IsFiniteSet({})
  BY FS_EmptySet DEF NoVisit
<1>6. ASSUME NEW c \in Reader PROVE VisitKnows(c)
  <2>1. visits[c].op = "idle" /\ visits[c].refs = {} /\ IsFiniteSet(visits[c].refs) /\ visits[c].todo = <<>>
    BY <1>4, <1>5
  <2>2. \A i \in DOMAIN visits[c].todo : FALSE
    BY <2>1
  <2>3. QED
    BY <2>1, <2>2 DEF VisitKnows
<1>7. QED
  BY <1>1, <1>3, <1>6 DEF LineageInv

\* What a step does to what others rest on: no revision comes back, a removal is for good,
\* and what is rested on stays.
SourcesGoOn ==
  /\ \A k \in MemoryKey : memories[k].revision \in Nat /\ memories'[k].revision \in Nat /\ MemoryKeeps(k)
  /\ \A p \in Path :
       /\ heads[p].revision \in Nat /\ heads'[p].revision \in Nat
       /\ heads[p].revision <= heads'[p].revision /\ (heads[p].deleted # "no" => heads'[p].deleted # "no")
       /\ \A r \in 1..MaxVersion : grounds[p][r] # {} => grounds'[p][r] = grounds[p][r]
       /\ \A r \in 1..MaxVersion : r <= heads[p].revision => grounds'[p][r] = grounds[p][r]

LEMMA GroundsWritten ==
  ASSUME LineageInv, NEW p \in Path, NEW r \in 1..MaxVersion, NEW ref \in grounds[p][r]
  PROVE  ref \in Reference /\ Written(ref) /\ r <= heads[p].revision
<1>1. grounds[p][r] \in SUBSET Reference /\ heads[p].revision \in Nat
  BY WorkspacesAssumption DEF LineageInv, WorkspaceRows, HeadRow
<1>2. Written(ref) /\ (r > heads[p].revision => grounds[p][r] = {})
  BY DEF LineageInv, GroundsHold
<1>3. QED
  BY <1>1, <1>2

LEMMA WrittenStays ==
  ASSUME SourcesGoOn, LineageInv, NEW ref \in Reference, Written(ref)
  PROVE  /\ Written(ref)'
         /\ Over(ref) => Over(ref)'
         /\ Undone(ref) => Undone(ref)'
         /\ ref.source \in Path => grounds'[ref.source][ref.revision] = grounds[ref.source][ref.revision]
<1>1. Written(ref)'
  BY OneReference DEF SourcesGoOn, MemoryKeeps, Written
<1>2. ASSUME NEW x \in Reference, Written(x), Over(x) PROVE Over(x)'
  <2>1. CASE x.source \in MemoryKey
    BY <1>2, <2>1, OneReference DEF SourcesGoOn, MemoryKeeps, Written, Over
  <2>2. CASE x.source \in Path /\ x.source \notin MemoryKey
    <3>1. PICK p \in Path : p = x.source
      BY <2>2
    <3>2. /\ heads[p].revision \in Nat /\ heads'[p].revision \in Nat /\ heads[p].revision <= heads'[p].revision
          /\ heads[p].deleted # "no" => heads'[p].deleted # "no"
      BY DEF SourcesGoOn
    <3>3. x.revision \in Nat /\ x.revision <= heads[p].revision /\ ~IsHead(p, x.revision)
      BY <1>2, <2>2, <3>1, OneReference DEF Written, Over
    <3>4. ~IsHead(p, x.revision)'
      BY <3>2, <3>3 DEF IsHead
    <3>5. QED
      BY <2>2, <3>1, <3>4 DEF Over
  <2>3. QED
    BY <2>1, <2>2, OneReference
<1>3. ref.source \in Path => grounds'[ref.source][ref.revision] = grounds[ref.source][ref.revision]
  BY DEF SourcesGoOn, Written
<1>4. ASSUME ref.source \in Path, Doomed(ref.source, ref.revision) PROVE Doomed(ref.source, ref.revision)'
  <2>1. PICK x \in grounds[ref.source][ref.revision] : Over(x)
    BY <1>4, DoomedIsOver
  <2>2. x \in Reference /\ Written(x)
    BY <1>4, GroundsWritten DEF Written
  <2>3. Over(x)'
    BY <1>2, <2>1, <2>2
  <2>4. QED
    BY <1>3, <1>4, <2>3 DEF Doomed, Over
<1>5. QED
  BY <1>1, <1>2, <1>3, <1>4 DEF Undone

LEMMA DoomedStays ==
  ASSUME SourcesGoOn, LineageInv, NEW p \in Path, NEW r \in 1..MaxVersion, Doomed(p, r)
  PROVE  Doomed(p, r)'
<1>1. PICK ref \in grounds[p][r] : Over(ref)
  BY DoomedIsOver
<1>2. ref \in Reference /\ Written(ref)
  BY GroundsWritten
<1>3. Over(ref)'
  BY <1>1, <1>2, WrittenStays
<1>4. grounds'[p][r] = grounds[p][r]
  BY DEF SourcesGoOn
<1>5. QED
  BY <1>1, <1>3, <1>4 DEF Doomed, Over

\* What the rows say of one version.
LEMMA VersionOf ==
  ASSUME LineageInv, NEW p \in Path, NEW r \in DOMAIN versions[p]
  PROVE  /\ heads[p].deleted = "no" /\ r \in 1..MaxVersion /\ r <= heads[p].revision
         /\ versions[p][r] \in SUBSET Reference /\ IsFiniteSet(versions[p][r])
         /\ \A ref \in versions[p][r] : Written(ref) /\ ref \in grounds[p][r]
         /\ grounds[p][r] = Followed(versions[p][r])
<1>1. versions[p] \in Seq(SUBSET Reference) /\ heads[p].revision \in Nat /\ heads[p].deleted \in {"no", "yes"}
  BY WorkspacesAssumption DEF LineageInv, WorkspaceRows, HeadRow
<1>2. r \in 1..Len(versions[p]) /\ versions[p][r] \in SUBSET Reference
  BY <1>1
<1>3. heads[p].deleted = "no" /\ heads[p].revision = Len(versions[p]) /\ heads[p].revision <= MaxVersion
  BY <1>1, <1>2 DEF LineageInv, HeadsCount
<1>4. r \in 1..MaxVersion /\ r <= heads[p].revision
  BY <1>1, <1>2, <1>3, WorkspacesAssumption
<1>5. /\ IsFiniteSet(versions[p][r]) /\ \A ref \in versions[p][r] : Written(ref)
      /\ grounds[p][r] = Followed(versions[p][r])
  BY DEF LineageInv, VersionsRest
<1>6. \A ref \in versions[p][r] : ref \in grounds[p][r]
  BY <1>5 DEF Followed
<1>7. QED
  BY <1>2, <1>3, <1>4, <1>5, <1>6

\* A version that rests on something that is over was derived from it, or from one undone.
LEMMA UndoneVersion ==
  ASSUME LineageInv, NEW p \in Path, NEW r \in DOMAIN versions[p], Doomed(p, r)
  PROVE  \E ref \in versions[p][r] : Undone(ref)
<1>1. PICK x \in grounds[p][r] : Over(x)
  BY DoomedIsOver
<1>2. x \in Followed(versions[p][r])
  BY VersionOf
<1>3. CASE x \in versions[p][r]
  BY <1>1, <1>3 DEF Undone
<1>4. CASE x \notin versions[p][r]
  <2>1. PICK ref \in versions[p][r] : ref.source \in Path /\ x \in grounds[ref.source][ref.revision]
    BY <1>2, <1>4 DEF Followed
  <2>2. Doomed(ref.source, ref.revision)
    BY <2>1, <1>1, DoomedIsOver
  <2>3. QED
    BY <2>1, <2>2 DEF Undone
<1>5. QED
  BY <1>3, <1>4

\* The walk through one version.
LEMMA WalkOf ==
  ASSUME LineageInv, NEW p \in Path, NEW r \in DOMAIN versions[p]
  PROVE  LET lineage == SetToSeq(versions[p][r]) IN
           /\ lineage \in Seq(Reference)
           /\ \A i \in DOMAIN lineage : lineage[i] \in Reference /\ Written(lineage[i]) /\ lineage[i] \in grounds[p][r]
           /\ Doomed(p, r) => \E i \in DOMAIN lineage : Undone(lineage[i])
<1> DEFINE refs == versions[p][r]
           lineage == SetToSeq(refs)
<1>1. refs \in SUBSET Reference /\ IsFiniteSet(refs) /\ \A ref \in refs : Written(ref) /\ ref \in grounds[p][r]
  BY VersionOf
<1>2. Doomed(p, r) => \E ref \in refs : Undone(ref)
  BY UndoneVersion
<1> HIDE DEF refs
<1>3. lineage \in Seq(refs) /\ \A x \in refs : \E i \in DOMAIN lineage : lineage[i] = x
  BY <1>1, SeqOfSet
<1> HIDE DEF lineage
<1>4. \A i \in DOMAIN lineage : lineage[i] \in refs
  BY <1>3
<1>5. lineage \in Seq(Reference)
  BY <1>1, <1>3
<1>6. \A i \in DOMAIN lineage : lineage[i] \in Reference /\ Written(lineage[i]) /\ lineage[i] \in grounds[p][r]
  BY <1>1, <1>4
<1>7. Doomed(p, r) => \E i \in DOMAIN lineage : Undone(lineage[i])
  BY <1>2, <1>3
<1>8. QED
  BY <1>5, <1>6, <1>7 DEF lineage, refs

LEMMA RowOfVisit ==
  ASSUME LineageInv, NEW c \in Reader
  PROVE  /\ visits[c] \in Visit /\ visits[c].todo \in Seq(Reference) /\ visits[c].refs \in SUBSET Reference
         /\ visits[c].revision \in Nat /\ visits[c].nodes \in Nat /\ VisitKnows(c)
  BY WorkspacesAssumption DEF LineageInv, WorkspaceRows, Visit

\* Callers that wait know what they knew, whatever the others do.
LEMMA VisitStays ==
  ASSUME LineageInv, SourcesGoOn, NEW c \in Reader, visits'[c] = visits[c]
  PROVE  VisitKnows(c)'
<1> DEFINE visit == visits[c]
<1>1. visit.todo \in Seq(Reference) /\ visit.refs \in SUBSET Reference /\ VisitKnows(c)
  BY RowOfVisit
<1>2. \A i \in DOMAIN visit.todo : visit.todo[i] \in Reference /\ Written(visit.todo[i])
  BY <1>1 DEF VisitKnows
<1>3. \A i \in DOMAIN visit.todo : Written(visit.todo[i])' /\ (Undone(visit.todo[i]) => Undone(visit.todo[i])')
  BY <1>2, WrittenStays
<1>4. \A ref \in visit.refs : Written(ref)'
  BY <1>1, WrittenStays DEF VisitKnows
<1>5. ASSUME visit.op = "purge", NEW i \in DOMAIN visit.todo
      PROVE  visit.revision \in 1..MaxVersion /\ visit.todo[i] \in grounds'[visit.path][visit.revision]
  <2>1. visit.revision \in 1..MaxVersion /\ visit.path \in Path /\ visit.todo[i] \in grounds[visit.path][visit.revision]
    BY <1>1, <1>5 DEF VisitKnows
  <2>2. QED
    BY <2>1 DEF SourcesGoOn
<1>6. visit.op = "remove" => Doomed(visit.path, visit.revision)'
  BY <1>1, DoomedStays DEF VisitKnows
<1>7. QED
  BY <1>1, <1>3, <1>4, <1>5, <1>6 DEF VisitKnows

LEMMA SourcesStand ==
  ASSUME LineageInv, UNCHANGED <<memories, heads, grounds>> PROVE SourcesGoOn
<1>1. \A k \in MemoryKey : memories[k].revision \in Nat
  BY WorkspacesAssumption DEF LineageInv, WorkspaceRows, MemoriesTypeOK
<1>2. \A p \in Path : heads[p].revision \in Nat
  BY WorkspacesAssumption DEF LineageInv, WorkspaceRows, HeadRow
<1>3. \A k \in MemoryKey : MemoryKeeps(k)
  BY <1>1 DEF MemoryKeeps, StatusOf
<1>4. QED
  BY <1>1, <1>2, <1>3 DEF SourcesGoOn

\* What was rested on, and the versions that stand, stay as they were.
LEMMA LineageStays ==
  ASSUME LineageInv, SourcesGoOn, UNCHANGED <<versions, grounds>>, \A p \in Path : heads'[p] = heads[p]
  PROVE  HeadsCount' /\ VersionsRest' /\ GroundsHold'
<1>1. HeadsCount'
  BY DEF LineageInv, HeadsCount
<1>2. ASSUME NEW p \in Path, NEW r \in DOMAIN versions[p]
      PROVE  /\ IsFiniteSet(versions[p][r]) /\ \A ref \in versions[p][r] : Written(ref)'
             /\ grounds[p][r] = Followed(versions[p][r])
  BY VersionOf, WrittenStays
<1>3. ASSUME NEW p \in Path, NEW r \in 1..MaxVersion, NEW ref \in grounds[p][r]
      PROVE  Written(ref)' /\ (ref.source \in Path => grounds[ref.source][ref.revision] \subseteq grounds[p][r])
  <2>1. Written(ref)'
    BY GroundsWritten, WrittenStays
  <2>2. ref.source \in Path => grounds[ref.source][ref.revision] \subseteq grounds[p][r]
    BY DEF LineageInv, GroundsHold
  <2>3. QED
    BY <2>1, <2>2
<1>4. VersionsRest'
  BY <1>2 DEF VersionsRest, Followed
<1>5. ASSUME NEW p \in Path, NEW r \in 1..MaxVersion, r > heads[p].revision PROVE grounds[p][r] = {}
  BY <1>5 DEF LineageInv, GroundsHold
<1>6. GroundsHold'
  BY <1>3, <1>5 DEF GroundsHold
<1>7. QED
  BY <1>1, <1>4, <1>6

\* Only memories change.
LEMMA MemoriesMove ==
  ASSUME LineageInv, MemoriesNext, UNCHANGED <<heads, versions, visits, grounds>>
  PROVE  LineageInv' /\ SourcesGoOn
<1>1. MemoriesTypeOK /\ MemoriesTypeOK' /\ \A k \in MemoryKey : MemoryKeeps(k)
  BY MemoriesGoOn DEF LineageInv, WorkspaceRows
<1>2. \A k \in MemoryKey : memories[k].revision \in Nat /\ memories'[k].revision \in Nat
  BY <1>1, WorkspacesAssumption DEF MemoriesTypeOK
<1>3. \A p \in Path : heads[p].revision \in Nat
  BY WorkspacesAssumption DEF LineageInv, WorkspaceRows, HeadRow
<1>4. SourcesGoOn
  BY <1>1, <1>2, <1>3 DEF SourcesGoOn
<1>5. HeadsCount' /\ VersionsRest' /\ GroundsHold'
  BY <1>4, LineageStays
<1>6. WorkspaceRows'
  BY <1>1 DEF LineageInv, WorkspaceRows
<1>7. \A c \in Reader : VisitKnows(c)'
  BY <1>4, VisitStays
<1>8. QED
  BY <1>4, <1>5, <1>6, <1>7 DEF LineageInv

\* Only one caller goes on.
LEMMA CallerGoesOn ==
  ASSUME LineageInv, NEW c \in Reader, NEW visit \in Visit, VisitBecomes(c, visit),
         UNCHANGED <<memories, imports, heads, versions, grounds>>, VisitKnows(c)'
  PROVE  LineageInv' /\ SourcesGoOn
<1>1. SourcesGoOn
  BY SourcesStand
<1>2. HeadsCount' /\ VersionsRest' /\ GroundsHold'
  BY <1>1, LineageStays
<1>3. visits' \in [Reader -> Visit] /\ \A d \in Reader : d # c => visits'[d] = visits[d]
  BY DEF LineageInv, WorkspaceRows, VisitBecomes
<1>4. WorkspaceRows'
  BY <1>3 DEF LineageInv, WorkspaceRows, MemoriesTypeOK
<1>5. \A d \in Reader : VisitKnows(d)'
  BY <1>1, <1>3, VisitStays
<1>6. QED
  BY <1>1, <1>2, <1>4, <1>5 DEF LineageInv

LEMMA NoVisitKnows ==
  ASSUME NEW c \in Reader, visits \in [Reader -> Visit], VisitBecomes(c, NoVisit)
  PROVE  VisitKnows(c)' /\ NoVisit \in Visit
<1>1. visits'[c] = NoVisit
  BY DEF VisitBecomes
<1>2. /\ NoVisit.op = "idle" /\ NoVisit.refs = {} /\ NoVisit.todo = <<>> /\ IsFiniteSet({})
  BY FS_EmptySet DEF NoVisit
<1>3. \A i \in DOMAIN NoVisit.todo : FALSE
  BY <1>2
<1>4. NoVisit \in Visit
  BY WorkspacesAssumption DEF NoVisit, Visit
<1>5. QED
  BY <1>1, <1>2, <1>3, <1>4 DEF VisitKnows

LEMMA VisitEnds ==
  ASSUME LineageInv, NEW c \in Reader, VisitBecomes(c, NoVisit),
         UNCHANGED <<memories, imports, heads, versions, grounds>>
  PROVE  LineageInv' /\ SourcesGoOn
  BY NoVisitKnows, CallerGoesOn DEF LineageInv, WorkspaceRows

LEMMA NoVisitRow ==
  /\ NoVisit \in Visit /\ NoVisit.op = "idle" /\ NoVisit.refs = {} /\ NoVisit.todo = <<>>
  /\ NoVisit.doomed = "no" /\ IsFiniteSet({})
  BY WorkspacesAssumption, FS_EmptySet DEF NoVisit, Visit

LEMMA ReadStarts ==
  ASSUME LineageInv, NEW c \in Reader, NEW p \in Path, NEW r \in 1..MaxVersion, StartRead(c, p, r)
  PROVE  LineageInv' /\ SourcesGoOn
<1> DEFINE refs == versions[p][r]
           todo == SetToSeq(refs)
           doomed == IF Doomed(p, r) THEN "yes" ELSE "no"
           visit == [NoVisit EXCEPT !.op = "read", !.path = p, !.revision = r, !.todo = todo, !.doomed = doomed]
<1>1. r \in DOMAIN versions[p]
  BY DEF StartRead, VersionExists
<1>2. /\ todo \in Seq(Reference) /\ \A i \in DOMAIN todo : Written(todo[i])
      /\ doomed = "yes" => \E i \in DOMAIN todo : Undone(todo[i])
  BY <1>1, WalkOf
<1>3. VisitBecomes(c, visit) /\ UNCHANGED <<memories, imports, heads, versions, grounds>>
  BY DEF StartRead, BeginsVisit
<1>4. doomed \in {"no", "yes"}
  OBVIOUS
<1> HIDE DEF refs, todo, doomed
<1>5. /\ visit \in Visit /\ visit.op = "read" /\ visit.path = p /\ visit.refs = {}
      /\ visit.todo = todo /\ visit.doomed = doomed
  <2>1. r \in 0..(MaxVersion + 1)
    BY WorkspacesAssumption
  <2>2. QED
    BY <2>1, <1>2, <1>4, NoVisitRow DEF Visit
<1> HIDE DEF visit
<1>6. visits'[c] = visit
  BY <1>3 DEF LineageInv, WorkspaceRows, VisitBecomes
<1>7. \A ref : (Written(ref) <=> Written(ref)') /\ (Undone(ref) <=> Undone(ref)')
  BY <1>3 DEF Written, Undone, Over, Doomed, IsHead, StatusOf
<1>8. VisitKnows(c)'
  BY <1>2, <1>5, <1>6, <1>7, FS_EmptySet DEF VisitKnows
<1>9. QED
  BY <1>3, <1>5, <1>8, CallerGoesOn

LEMMA SourcesSeen ==
  ASSUME LineageInv, NEW ref \in SeenSources PROVE ref \in Reference /\ Written(ref)
<1>1. CASE \E k \in MemoryKey : memories[k].revision > 0 /\ ref = [source |-> k, revision |-> memories[k].revision]
  <2>1. PICK k \in MemoryKey : memories[k].revision > 0 /\ ref = [source |-> k, revision |-> memories[k].revision]
    BY <1>1
  <2>2. memories[k].revision \in 0..MaxRevision
    BY DEF LineageInv, WorkspaceRows, MemoriesTypeOK
  <2>3. memories[k].revision \in 1..(MaxRevision + MaxVersion)
    BY <2>1, <2>2, WorkspacesAssumption
  <2>4. QED
    BY <2>1, <2>3, WorkspacesAssumption DEF Reference, Written
<1>2. CASE \E p \in Path : heads[p].revision \in 1..MaxVersion /\ ref = [source |-> p, revision |-> heads[p].revision]
  <2>1. PICK p \in Path : heads[p].revision \in 1..MaxVersion /\ ref = [source |-> p, revision |-> heads[p].revision]
    BY <1>2
  <2>2. heads[p].revision \in 1..(MaxRevision + MaxVersion)
    BY <2>1, WorkspacesAssumption
  <2>3. QED
    BY <2>1, <2>2, WorkspacesAssumption DEF Reference, Written
<1>3. QED
  BY <1>1, <1>2 DEF SeenSources

LEMMA WriteStarts ==
  ASSUME LineageInv, NEW c \in Reader, NEW p \in Path, NEW expected \in 0..heads[p].revision,
         NEW refs \in SUBSET SeenSources, IsFiniteSet(refs), StartWrite(c, p, expected, refs)
  PROVE  LineageInv' /\ SourcesGoOn
<1> DEFINE todo == SetToSeq(refs)
           visit == [NoVisit EXCEPT !.op = "write", !.path = p, !.revision = expected, !.refs = refs, !.todo = todo]
<1>1. refs \in SUBSET Reference /\ \A ref \in refs : Written(ref)
  BY SourcesSeen
<1>2. todo \in Seq(refs)
  BY SeqOfSet
<1>3. VisitBecomes(c, visit) /\ UNCHANGED <<memories, imports, heads, versions, grounds>>
  BY DEF StartWrite, BeginsVisit
<1>4. expected \in 0..(MaxVersion + 1)
  BY WorkspacesAssumption DEF LineageInv, WorkspaceRows, HeadRow
<1> HIDE DEF todo
<1>5. todo \in Seq(Reference) /\ \A i \in DOMAIN todo : Written(todo[i])
  BY <1>1, <1>2
<1>6. /\ visit \in Visit /\ visit.op = "write" /\ visit.path = p /\ visit.refs = refs /\ visit.todo = todo
  <2>1. expected \in 0..(MaxVersion + 1)
    BY <1>4, WorkspacesAssumption
  <2>2. QED
    BY <2>1, <1>1, <1>4, <1>5, NoVisitRow DEF Visit
<1> HIDE DEF visit
<1>7. visits'[c] = visit
  BY <1>3 DEF LineageInv, WorkspaceRows, VisitBecomes
<1>8. \A ref : Written(ref) <=> Written(ref)'
  BY <1>3 DEF Written
<1>9. VisitKnows(c)'
  BY <1>1, <1>5, <1>6, <1>7, <1>8 DEF VisitKnows
<1>10. QED
  BY <1>3, <1>6, <1>9, CallerGoesOn

LEMMA PurgeStarts ==
  ASSUME LineageInv, NEW c \in Reader, NEW p \in Path, StartPurge(c, p)
  PROVE  LineageInv' /\ SourcesGoOn
<1> DEFINE r == heads[p].revision
           refs == versions[p][r]
           todo == SetToSeq(refs)
           visit == [NoVisit EXCEPT !.op = "purge", !.path = p, !.revision = r, !.todo = todo]
<1>1. r \in DOMAIN versions[p]
  BY DEF StartPurge, VersionExists
<1>2. /\ todo \in Seq(Reference) /\ \A i \in DOMAIN todo : Written(todo[i]) /\ todo[i] \in grounds[p][r]
      /\ r \in 1..MaxVersion
  BY <1>1, WalkOf, VersionOf
<1>3. VisitBecomes(c, visit) /\ UNCHANGED <<memories, imports, heads, versions, grounds>>
  BY DEF StartPurge, BeginsVisit
<1> HIDE DEF refs, todo, r
<1>4. /\ visit \in Visit /\ visit.op = "purge" /\ visit.path = p /\ visit.refs = {}
      /\ visit.todo = todo /\ visit.revision = r
  <2>1. r \in 0..(MaxVersion + 1)
    BY <1>2, WorkspacesAssumption
  <2>2. QED
    BY <2>1, <1>2, NoVisitRow DEF Visit
<1> HIDE DEF visit
<1>5. visits'[c] = visit
  BY <1>3 DEF LineageInv, WorkspaceRows, VisitBecomes
<1>6. \A ref : Written(ref) <=> Written(ref)'
  BY <1>3 DEF Written
<1>7. VisitKnows(c)'
  BY <1>2, <1>3, <1>4, <1>5, <1>6, FS_EmptySet DEF VisitKnows
<1>8. QED
  BY <1>3, <1>4, <1>7, CallerGoesOn

LEMMA TailOf ==
  ASSUME NEW set, NEW s \in Seq(set), s # <<>>
  PROVE  \A j \in DOMAIN Tail(s) : \E i \in DOMAIN s : Tail(s)[j] = s[i]
<1>1. /\ Len(s) \in Nat \ {0} /\ DOMAIN s = 1..Len(s) /\ DOMAIN Tail(s) = 1..(Len(s) - 1)
      /\ \A j \in 1..(Len(s) - 1) : Tail(s)[j] = s[j + 1]
  OBVIOUS
<1>2. ASSUME NEW j \in 1..(Len(s) - 1) PROVE \E i \in DOMAIN s : Tail(s)[j] = s[i]
  <2>1. PICK i \in 1..Len(s) : i = j + 1
    BY <1>1
  <2>2. QED
    BY <1>1, <2>1
<1>3. QED
  BY <1>1, <1>2

\* One reference of a walk is answered, and those of the document come before the rest.
LEMMA TodoBecomes ==
  ASSUME LineageInv, NEW c \in Reader, visits[c].op \in {"read", "write", "purge"}, visits[c].nodes < MaxNodes,
         NEW todo \in Seq(Reference), VisitBecomes(c, [visits[c] EXCEPT !.nodes = @ + 1, !.todo = todo]),
         \A j \in DOMAIN todo : Written(todo[j]),
         visits[c].op = "read" /\ visits[c].doomed = "yes" => \E j \in DOMAIN todo : Undone(todo[j]),
         visits[c].op = "purge" => \A j \in DOMAIN todo : todo[j] \in grounds[visits[c].path][visits[c].revision],
         UNCHANGED <<memories, imports, heads, versions, grounds>>
  PROVE  LineageInv' /\ SourcesGoOn
<1> DEFINE visit == visits[c]
           now == [visit EXCEPT !.nodes = @ + 1, !.todo = todo]
<1>1. visit \in Visit /\ visit.nodes \in Nat /\ VisitKnows(c)
  BY RowOfVisit
<1>2. visit.nodes + 1 \in 0..MaxNodes
  BY <1>1, WorkspacesAssumption
<1>3. /\ now \in Visit /\ now.op = visit.op /\ now.path = visit.path /\ now.revision = visit.revision
      /\ now.refs = visit.refs /\ now.todo = todo /\ now.doomed = visit.doomed
  BY <1>1, <1>2 DEF Visit
<1> HIDE DEF now
<1>4. visits'[c] = now
  BY DEF LineageInv, WorkspaceRows, VisitBecomes, now
<1>5. \A ref : (Written(ref) <=> Written(ref)') /\ (Undone(ref) <=> Undone(ref)')
  BY DEF Written, Undone, Over, Doomed, IsHead, StatusOf
<1>6. VisitKnows(c)'
  BY <1>1, <1>3, <1>4, <1>5 DEF VisitKnows
<1>7. QED
  BY <1>3, <1>6, CallerGoesOn DEF now

LEMMA ReferenceFollowed ==
  ASSUME LineageInv, NEW c \in Reader, FollowReference(c)
  PROVE  LineageInv' /\ SourcesGoOn
<1> DEFINE visit == visits[c]
           ref == Head(visit.todo)
           rest == Tail(visit.todo)
<1>1. /\ visit \in Visit /\ visit.todo \in Seq(Reference) /\ visit.refs \in SUBSET Reference /\ VisitKnows(c)
      /\ visit.op \in {"read", "write", "purge"} /\ visit.todo # <<>>
      /\ UNCHANGED <<memories, imports, heads, versions, grounds>>
  BY RowOfVisit DEF FollowReference
<1>2. /\ ref \in Reference /\ rest \in Seq(Reference) /\ 1 \in DOMAIN visit.todo /\ ref = visit.todo[1]
      /\ \A i \in DOMAIN visit.todo : visit.todo[i] = ref \/ \E j \in DOMAIN rest : rest[j] = visit.todo[i]
  BY <1>1, HeadAndRest
<1>3. \A j \in DOMAIN rest : \E i \in DOMAIN visit.todo : rest[j] = visit.todo[i]
  BY <1>1, TailOf
<1>4. Written(ref) /\ \A j \in DOMAIN rest : Written(rest[j])
  BY <1>1, <1>2, <1>3 DEF VisitKnows
<1>5. /\ visit.path \in Path /\ IsFiniteSet(visit.refs) /\ \A x \in visit.refs : Written(x)
      /\ visit.op = "read" /\ visit.doomed = "yes" => \E i \in DOMAIN visit.todo : Undone(visit.todo[i])
      /\ visit.op = "purge" => /\ visit.revision \in 1..MaxVersion
                              /\ \A i \in DOMAIN visit.todo : visit.todo[i] \in grounds[visit.path][visit.revision]
  BY <1>1 DEF VisitKnows
<1>10. CASE VisitBecomes(c, NoVisit)
  BY <1>1, <1>10, VisitEnds
<1>6. ASSUME visit.nodes < MaxNodes, Live(ref), ref.source \in MemoryKey,
             VisitBecomes(c, [visit EXCEPT !.nodes = @ + 1, !.todo = rest])
      PROVE  LineageInv' /\ SourcesGoOn
  <2>1. ~Undone(ref)
    BY <1>2, <1>6, OneReference DEF Live, Undone, Over
  <2>2. /\ \A j \in DOMAIN rest : Written(rest[j])
        /\ visit.op = "read" /\ visit.doomed = "yes" => \E j \in DOMAIN rest : Undone(rest[j])
        /\ visit.op = "purge" => \A j \in DOMAIN rest : rest[j] \in grounds[visit.path][visit.revision]
    BY <1>1, <1>2, <1>3, <1>4, <2>1 DEF VisitKnows
  <2>3. QED
    BY <1>1, <1>2, <1>6, <2>2, TodoBecomes
<1>7. ASSUME visit.nodes < MaxNodes, Live(ref), ref.source \in Path,
             VisitBecomes(c, [visit EXCEPT !.nodes = @ + 1,
                                           !.todo = SetToSeq(versions[ref.source][ref.revision]) \o rest])
      PROVE  LineageInv' /\ SourcesGoOn
  <2> DEFINE front == SetToSeq(versions[ref.source][ref.revision])
             todo == front \o rest
  <2> HIDE DEF visit, ref, rest
  <2>1. /\ ref.source \notin MemoryKey /\ ref.revision \in DOMAIN versions[ref.source]
        /\ heads[ref.source].deleted = "no" /\ ref.revision \in 1..MaxVersion
    <3>1. /\ ref.source \in Path /\ ref.source \notin MemoryKey /\ ref.revision \in 1..MaxVersion
          /\ heads[ref.source].deleted = "no" /\ heads[ref.source].revision = ref.revision
      BY <1>2, <1>4, <1>7, OneReference DEF Live, IsHead, Written
    <3>2. versions[ref.source] \in Seq(SUBSET Reference) /\ heads[ref.source].revision = Len(versions[ref.source])
      BY <3>1 DEF LineageInv, WorkspaceRows, HeadsCount
    <3>3. QED
      BY <3>1, <3>2
  <2>2. /\ front \in Seq(Reference)
        /\ \A i \in DOMAIN front : Written(front[i]) /\ front[i] \in grounds[ref.source][ref.revision]
        /\ Doomed(ref.source, ref.revision) => \E i \in DOMAIN front : Undone(front[i])
    BY <1>7, <2>1, WalkOf
  <2> HIDE DEF front
  <2>3. todo \in Seq(Reference) /\ \A x : Lists(todo, x) <=> Lists(front, x) \/ Lists(rest, x)
    <3>1. front \in Seq(Reference) /\ rest \in Seq(Reference) /\ todo = front \o rest
      BY <1>2, <2>2
    <3> HIDE DEF todo
    <3>2. QED
      BY <3>1, TodoOf
  <2>4. ~Over(ref)
    BY <1>7, <2>1 DEF Over, Live
  <2> HIDE DEF todo
  <2>5. ASSUME NEW j \in DOMAIN todo
        PROVE  \/ \E i \in DOMAIN front : todo[j] = front[i]
               \/ \E i \in DOMAIN rest : todo[j] = rest[i]
    <3>1. Lists(todo, todo[j])
      BY <2>5 DEF Lists
    <3>2. Lists(front, todo[j]) \/ Lists(rest, todo[j])
      BY <2>3, <3>1
    <3>3. QED
      BY <3>2 DEF Lists
  <2>6. \A j \in DOMAIN todo : Written(todo[j])
    BY <1>4, <2>2, <2>5
  <2>7. visit.op = "read" /\ visit.doomed = "yes" => \E j \in DOMAIN todo : Undone(todo[j])
    <3> SUFFICES ASSUME visit.op = "read", visit.doomed = "yes" PROVE \E j \in DOMAIN todo : Undone(todo[j])
      OBVIOUS
    <3>1. PICK i \in DOMAIN visit.todo : Undone(visit.todo[i])
      BY <1>5
    <3>2. PICK x : Undone(x) /\ (Lists(front, x) \/ Lists(rest, x))
      <4>1. CASE visit.todo[i] = ref
        <5>1. Doomed(ref.source, ref.revision)
          BY <3>1, <4>1, <2>4 DEF Undone
        <5>2. PICK j \in DOMAIN front : Undone(front[j])
          BY <2>2, <5>1
        <5>3. QED
          BY <5>2 DEF Lists
      <4>2. CASE visit.todo[i] # ref
        <5>1. PICK j \in DOMAIN rest : rest[j] = visit.todo[i]
          BY <4>2, <1>2
        <5>2. QED
          BY <5>1, <3>1 DEF Lists
      <4>3. QED
        BY <4>1, <4>2
    <3>3. QED
      BY <2>3, <3>2 DEF Lists
  <2>10. visit.op = "purge" => \A j \in DOMAIN todo : todo[j] \in grounds[visit.path][visit.revision]
    <3> SUFFICES ASSUME visit.op = "purge" PROVE \A j \in DOMAIN todo : todo[j] \in grounds[visit.path][visit.revision]
      OBVIOUS
    <3>1. /\ visit.path \in Path /\ visit.revision \in 1..MaxVersion
          /\ \A i \in DOMAIN visit.todo : visit.todo[i] \in grounds[visit.path][visit.revision]
      BY <1>5
    <3>2. ref \in grounds[visit.path][visit.revision]
      BY <1>2, <3>1
    <3>3. grounds[ref.source][ref.revision] \subseteq grounds[visit.path][visit.revision]
      BY <3>1, <3>2, <1>7 DEF LineageInv, GroundsHold
    <3>4. QED
      BY <3>1, <3>3, <1>3, <2>2, <2>5
  <2>8. VisitBecomes(c, [visit EXCEPT !.nodes = @ + 1, !.todo = todo])
    BY <1>7 DEF todo, front
  <2>9. QED
    BY <1>1, <1>7, <2>3, <2>6, <2>7, <2>8, <2>10, TodoBecomes DEF visit
<1>8. ASSUME ~Live(ref), visit.op = "purge",
             VisitBecomes(c, [visit EXCEPT !.op = "remove", !.todo = <<>>])
      PROVE  LineageInv' /\ SourcesGoOn
  <2> DEFINE now == [visit EXCEPT !.op = "remove", !.todo = <<>>]
  <2> HIDE DEF visit, ref, rest
  <2>1. visit.path \in Path /\ visit.revision \in 1..MaxVersion /\ ref \in grounds[visit.path][visit.revision]
    BY <1>2, <1>5, <1>8
  <2>2. Over(ref)
    <3>1. CASE ref.source \in MemoryKey
      BY <1>8, <3>1 DEF Live, Over
    <3>2. CASE ref.source \in Path /\ ref.source \notin MemoryKey
      <4>1. ref.revision \in 1..MaxVersion /\ ref.revision <= heads[ref.source].revision
        BY <1>4, <3>2 DEF Written
      <4>2. /\ heads[ref.source] \in HeadRow /\ versions[ref.source] \in Seq(SUBSET Reference)
        BY <3>2 DEF LineageInv, WorkspaceRows
      <4>3. heads[ref.source].deleted = "no" => ref.revision \in DOMAIN versions[ref.source]
        BY <3>2, <4>1, <4>2 DEF LineageInv, HeadsCount
      <4>4. QED
        BY <1>8, <3>2, <4>2, <4>3 DEF Live, VersionExists, Over, HeadRow
    <3>3. QED
      BY <3>1, <3>2, <1>2, OneReference
  <2>3. Doomed(visit.path, visit.revision)
    BY <2>1, <2>2, DoomedIsOver
  <2>4. /\ now \in Visit /\ now.op = "remove" /\ now.path = visit.path /\ now.revision = visit.revision
        /\ now.refs = visit.refs /\ now.todo = <<>>
    <3>1. <<>> \in Seq(Reference)
      OBVIOUS
    <3>2. QED
      BY <1>1, <3>1 DEF Visit
  <2> HIDE DEF now
  <2>5. visits'[c] = now
    BY <1>8 DEF LineageInv, WorkspaceRows, VisitBecomes, now
  <2>6. \A x : Written(x) <=> Written(x)'
    BY <1>1 DEF Written
  <2>7. \A p, r : Doomed(p, r) <=> Doomed(p, r)'
    BY <1>1 DEF Doomed, IsHead, StatusOf
  <2>8. VisitKnows(c)'
    <3>1. \A i \in DOMAIN now.todo : FALSE
      BY <2>4
    <3>2. /\ \A x \in now.refs : Written(x)'
          /\ IsFiniteSet(now.refs) /\ now.path \in Path /\ now.revision \in 1..MaxVersion
      BY <1>5, <2>1, <2>4, <2>6
    <3>3. PICK p, r : p = visit.path /\ r = visit.revision
      OBVIOUS
    <3>5. Doomed(p, r)' /\ visits'[c].path = p /\ visits'[c].revision = r
      BY <2>3, <2>4, <2>5, <2>7, <3>3
    <3>4. QED
      BY <2>4, <2>5, <3>1, <3>2, <3>5 DEF VisitKnows
  <2>9. QED
    BY <1>1, <1>8, <2>4, <2>8, CallerGoesOn DEF now
<1>9. QED
  BY <1>2, <1>10, <1>6, <1>7, <1>8, OneReference DEF FollowReference

\* What is followed from references that were written stays what it was.
LEMMA FollowedStays ==
  ASSUME LineageInv, SourcesGoOn, NEW refs \in SUBSET Reference, \A ref \in refs : Written(ref)
  PROVE  Followed(refs)' = Followed(refs)
<1>1. \A ref \in refs : ref.source \in Path => grounds'[ref.source][ref.revision] = grounds[ref.source][ref.revision]
  BY WrittenStays
<1>2. QED
  BY <1>1 DEF Followed

LEMMA FollowedWritten ==
  ASSUME LineageInv, NEW refs \in SUBSET Reference, \A ref \in refs : Written(ref), NEW ref \in Followed(refs)
  PROVE  /\ ref \in Reference /\ Written(ref)
         /\ ref.source \in Path => grounds[ref.source][ref.revision] \subseteq Followed(refs)
<1>1. CASE ref \in refs
  BY <1>1 DEF Followed
<1>2. CASE ref \notin refs
  <2>1. PICK y \in refs : y.source \in Path /\ ref \in grounds[y.source][y.revision]
    BY <1>2 DEF Followed
  <2>2. y.revision \in 1..MaxVersion
    BY <2>1 DEF Written
  <2>3. ref \in Reference /\ Written(ref)
    BY <2>1, <2>2, GroundsWritten
  <2>4. ref.source \in Path => grounds[ref.source][ref.revision] \subseteq grounds[y.source][y.revision]
    BY <2>1, <2>2 DEF LineageInv, GroundsHold
  <2>5. grounds[y.source][y.revision] \subseteq Followed(refs)
    BY <2>1 DEF Followed
  <2>6. QED
    BY <2>3, <2>4, <2>5
<1>3. QED
  BY <1>1, <1>2

\* A version is added under the lock of its path.
LEMMA VersionAdded ==
  ASSUME LineageInv, NEW p \in Path, NEW next \in 1..MaxVersion, NEW refs \in SUBSET Reference,
         IsFiniteSet(refs), \A ref \in refs : Written(ref),
         heads[p].deleted = "no", next = heads[p].revision + 1,
         heads' = [heads EXCEPT ![p].revision = next],
         versions' = [versions EXCEPT ![p] = Append(@, refs)],
         grounds' = [grounds EXCEPT ![p][next] = Followed(refs)],
         UNCHANGED <<memories, imports>>
  PROVE  /\ SourcesGoOn /\ HeadsCount' /\ VersionsRest' /\ GroundsHold'
         /\ heads' \in [Path -> HeadRow] /\ versions' \in [Path -> Seq(SUBSET Reference)]
         /\ grounds' \in [Path -> [1..MaxVersion -> SUBSET Reference]]
<1>1. /\ heads \in [Path -> HeadRow] /\ versions \in [Path -> Seq(SUBSET Reference)]
      /\ grounds \in [Path -> [1..MaxVersion -> SUBSET Reference]]
      /\ \A q \in Path : heads[q].revision \in Nat
      /\ \A k \in MemoryKey : memories[k].revision \in Nat
  BY WorkspacesAssumption DEF LineageInv, WorkspaceRows, HeadRow, MemoriesTypeOK
<1>2. /\ heads[p].revision = Len(versions[p]) /\ versions[p] \in Seq(SUBSET Reference)
      /\ next \in Nat /\ next = Len(versions[p]) + 1
  BY <1>1 DEF LineageInv, HeadsCount
<1> DEFINE row == [heads[p] EXCEPT !.revision = next]
<1>3. row \in HeadRow /\ row.revision = next /\ row.deleted = "no"
  BY <1>1, WorkspacesAssumption DEF HeadRow
<1>4. heads' = [heads EXCEPT ![p] = row]
  OBVIOUS
<1> HIDE DEF row
<1>5. heads' \in [Path -> HeadRow] /\ heads'[p] = row /\ \A q \in Path : q # p => heads'[q] = heads[q]
  BY <1>1, <1>3, <1>4
<1>6. Followed(refs) \in SUBSET Reference
  BY FollowedWritten
<1> DEFINE new == Followed(refs)
<1> HIDE DEF new
<1>7. /\ grounds' \in [Path -> [1..MaxVersion -> SUBSET Reference]] /\ grounds'[p][next] = new
      /\ \A q \in Path, r \in 1..MaxVersion : ~(q = p /\ r = next) => grounds'[q][r] = grounds[q][r]
  BY <1>1, <1>6 DEF new
<1> DEFINE history == Append(versions[p], refs)
<1>8. /\ history \in Seq(SUBSET Reference) /\ Len(history) = next /\ DOMAIN history = 1..next /\ history[next] = refs
      /\ DOMAIN versions[p] = 1..Len(versions[p])
      /\ \A r \in DOMAIN versions[p] : history[r] = versions[p][r]
  BY <1>2
<1>9. versions' = [versions EXCEPT ![p] = history]
  OBVIOUS
<1> HIDE DEF history
<1>10. /\ versions' \in [Path -> Seq(SUBSET Reference)] /\ versions'[p] = history
       /\ \A q \in Path : q # p => versions'[q] = versions[q]
  BY <1>1, <1>8, <1>9
<1>11. grounds[p][next] = {}
  <2>1. next > heads[p].revision
    BY <1>1
  <2>2. \A r \in 1..MaxVersion : r > heads[p].revision => grounds[p][r] = {}
    BY DEF LineageInv, GroundsHold
  <2>3. QED
    BY <2>1, <2>2
<1>12. \A k \in MemoryKey : MemoryKeeps(k)
  BY <1>1 DEF MemoryKeeps, StatusOf
<1>13. SourcesGoOn
  <2>1. ASSUME NEW q \in Path
        PROVE  /\ heads'[q].revision \in Nat /\ heads[q].revision <= heads'[q].revision
               /\ heads[q].deleted = "yes" => heads'[q].deleted = "yes"
    BY <1>1, <1>2, <1>3, <1>5
  <2>2. ASSUME NEW q \in Path, NEW r \in 1..MaxVersion, grounds[q][r] # {} \/ r <= heads[q].revision
        PROVE  grounds'[q][r] = grounds[q][r]
    <3>1. ASSUME q = p, r = next PROVE FALSE
      <4>1. grounds[q][r] = {} /\ heads[q].revision \in Nat /\ r = heads[q].revision + 1
        BY <3>1, <1>1, <1>11
      <4>2. r <= heads[q].revision
        BY <4>1, <2>2
      <4>3. QED
        BY <4>1, <4>2
    <3>2. QED
      BY <3>1, <1>7
  <2>3. QED
    BY <2>1, <2>2, <1>1, <1>12 DEF SourcesGoOn
<1>14. HeadsCount'
  BY <1>1, <1>3, <1>5, <1>8, <1>10 DEF LineageInv, HeadsCount
<1>15. ASSUME NEW q \in Path, NEW r, r \in DOMAIN versions'[q]
       PROVE  /\ IsFiniteSet(versions'[q][r]) /\ \A ref \in versions'[q][r] : Written(ref)'
              /\ grounds'[q][r] = Followed(versions[q][r])'
  <2>1. CASE q = p /\ r = next
    <3>1. versions'[q][r] = refs /\ grounds'[q][r] = Followed(refs)
      BY <2>1, <1>7, <1>8, <1>10 DEF new
    <3>2. Followed(refs)' = Followed(refs) /\ \A ref \in refs : Written(ref)'
      BY <1>13, FollowedStays, WrittenStays
    <3>3. Followed(versions[q][r])' = Followed(refs)'
      BY <3>1 DEF Followed
    <3>4. QED
      BY <3>1, <3>2, <3>3
  <2>2. CASE ~(q = p /\ r = next)
    <3>1. r \in DOMAIN versions[q] /\ versions'[q][r] = versions[q][r]
      BY <2>2, <1>2, <1>8, <1>10, <1>15
    <3>2. PICK kept : kept = versions[q][r]
      OBVIOUS
    <3>3. /\ kept \in SUBSET Reference /\ IsFiniteSet(kept) /\ \A ref \in kept : Written(ref)
          /\ r \in 1..MaxVersion /\ grounds[q][r] = Followed(kept)
      BY <3>1, <3>2, VersionOf
    <3>4. Followed(kept)' = Followed(kept) /\ \A ref \in kept : Written(ref)'
      BY <3>3, <1>13, FollowedStays, WrittenStays
    <3>5. Followed(versions[q][r])' = Followed(kept)'
      BY <3>1, <3>2 DEF Followed
    <3>6. grounds'[q][r] = grounds[q][r]
      BY <2>2, <3>3, <1>7
    <3>7. QED
      BY <3>1, <3>2, <3>3, <3>4, <3>5, <3>6
  <2>3. QED
    BY <2>1, <2>2
<1>16. VersionsRest'
  BY <1>15 DEF VersionsRest
<1>17. ASSUME NEW q \in Path, NEW r \in 1..MaxVersion, NEW ref \in grounds'[q][r]
       PROVE  Written(ref)' /\ (ref.source \in Path => grounds'[ref.source][ref.revision] \subseteq grounds'[q][r])
  <2>1. /\ ref \in Reference /\ Written(ref)
        /\ ref.source \in Path => grounds[ref.source][ref.revision] \subseteq grounds'[q][r]
    <3>1. CASE q = p /\ r = next
      BY <3>1, <1>7, <1>17, FollowedWritten DEF new
    <3>2. CASE ~(q = p /\ r = next)
      <4>1. grounds'[q][r] = grounds[q][r]
        BY <3>2, <1>7
      <4>2. ref \in Reference /\ Written(ref)
        BY <4>1, <1>17, GroundsWritten
      <4>3. ref.source \in Path => grounds[ref.source][ref.revision] \subseteq grounds[q][r]
        BY <4>1, <1>17 DEF LineageInv, GroundsHold
      <4>4. QED
        BY <4>1, <4>2, <4>3
    <3>3. QED
      BY <3>1, <3>2
  <2>2. Written(ref)' /\ (ref.source \in Path => grounds'[ref.source][ref.revision] = grounds[ref.source][ref.revision])
    BY <2>1, <1>13, WrittenStays
  <2>3. QED
    BY <2>1, <2>2
<1>18. ASSUME NEW q \in Path, NEW r \in 1..MaxVersion, r > heads'[q].revision PROVE grounds'[q][r] = {}
  <2>1. r > heads[q].revision /\ ~(q = p /\ r = next)
    BY <1>1, <1>2, <1>3, <1>5, <1>18
  <2>2. grounds[q][r] = {}
    BY <2>1 DEF LineageInv, GroundsHold
  <2>3. QED
    BY <2>1, <2>2, <1>7
<1>19. GroundsHold'
  BY <1>17, <1>18 DEF GroundsHold
<1>20. QED
  BY <1>5, <1>7, <1>10, <1>13, <1>14, <1>16, <1>19

\* All versions of a document go, and what rested on them is undone with them.
LEMMA VersionsGone ==
  ASSUME LineageInv, NEW p \in Path, NEW expected, Removable(p, expected), RemoveVersions(p, expected),
         UNCHANGED <<memories, imports, grounds>>
  PROVE  /\ SourcesGoOn /\ HeadsCount' /\ VersionsRest' /\ GroundsHold'
         /\ heads' \in [Path -> HeadRow] /\ versions' \in [Path -> Seq(SUBSET Reference)]
         /\ \A q \in Path : q # p => heads'[q] = heads[q]
<1>1. /\ heads \in [Path -> HeadRow] /\ versions \in [Path -> Seq(SUBSET Reference)]
      /\ \A q \in Path : heads[q].revision \in Nat
      /\ \A k \in MemoryKey : memories[k].revision \in Nat
  BY WorkspacesAssumption DEF LineageInv, WorkspaceRows, HeadRow, MemoriesTypeOK
<1> DEFINE row == [revision |-> heads[p].revision + 1, deleted |-> "yes"]
<1>2. heads[p].revision <= MaxVersion /\ heads[p].deleted = "no"
  BY DEF Removable, LineageInv, HeadsCount
<1>3. row \in HeadRow /\ row.revision = heads[p].revision + 1 /\ row.deleted = "yes"
  BY <1>1, <1>2, WorkspacesAssumption DEF HeadRow
<1>4. heads' = [heads EXCEPT ![p] = row] /\ versions' = [versions EXCEPT ![p] = <<>>]
  BY DEF RemoveVersions
<1> HIDE DEF row
<1>5. heads' \in [Path -> HeadRow] /\ heads'[p] = row /\ \A q \in Path : q # p => heads'[q] = heads[q]
  BY <1>1, <1>3, <1>4
<1>6. <<>> \in Seq(SUBSET Reference) /\ \A r \in DOMAIN <<>> : FALSE
  OBVIOUS
<1>7. /\ versions' \in [Path -> Seq(SUBSET Reference)] /\ versions'[p] = <<>>
      /\ \A q \in Path : q # p => versions'[q] = versions[q]
  BY <1>1, <1>4, <1>6
<1>8. \A k \in MemoryKey : MemoryKeeps(k)
  BY <1>1 DEF MemoryKeeps, StatusOf
<1>9. SourcesGoOn
  BY <1>1, <1>2, <1>3, <1>5, <1>8 DEF SourcesGoOn
<1>10. HeadsCount'
  BY <1>3, <1>5, <1>7 DEF LineageInv, HeadsCount
<1>11. ASSUME NEW q \in Path, NEW r, r \in DOMAIN versions'[q]
       PROVE  /\ IsFiniteSet(versions'[q][r]) /\ \A ref \in versions'[q][r] : Written(ref)'
              /\ grounds'[q][r] = Followed(versions[q][r])'
  <2>1. q # p /\ r \in DOMAIN versions[q] /\ versions'[q][r] = versions[q][r]
    BY <1>6, <1>7, <1>11
  <2>2. PICK kept : kept = versions[q][r]
    OBVIOUS
  <2>3. /\ kept \in SUBSET Reference /\ IsFiniteSet(kept) /\ \A ref \in kept : Written(ref)
        /\ grounds[q][r] = Followed(kept)
    BY <2>1, <2>2, VersionOf
  <2>4. Followed(kept)' = Followed(kept) /\ \A ref \in kept : Written(ref)'
    BY <2>3, <1>9, FollowedStays, WrittenStays
  <2>5. Followed(versions[q][r])' = Followed(kept)'
    BY <2>1, <2>2 DEF Followed
  <2>6. QED
    BY <2>1, <2>2, <2>3, <2>4, <2>5
<1>12. VersionsRest'
  BY <1>11 DEF VersionsRest
<1>13. ASSUME NEW q \in Path, NEW r \in 1..MaxVersion, NEW ref \in grounds[q][r]
       PROVE  Written(ref)' /\ (ref.source \in Path => grounds[ref.source][ref.revision] \subseteq grounds[q][r])
  <2>1. Written(ref)'
    BY <1>9, GroundsWritten, WrittenStays
  <2>2. ref.source \in Path => grounds[ref.source][ref.revision] \subseteq grounds[q][r]
    BY DEF LineageInv, GroundsHold
  <2>3. QED
    BY <2>1, <2>2
<1>14. ASSUME NEW q \in Path, NEW r \in 1..MaxVersion, r > heads'[q].revision PROVE grounds[q][r] = {}
  <2>1. r > heads[q].revision
    BY <1>1, <1>3, <1>5, <1>14
  <2>2. QED
    BY <2>1 DEF LineageInv, GroundsHold
<1>15. GroundsHold'
  BY <1>13, <1>14 DEF GroundsHold
<1>16. QED
  BY <1>5, <1>7, <1>9, <1>10, <1>12, <1>15

\* Whatever happened to the documents, those who go on know what they knew.
LEMMA RowsGoOn ==
  ASSUME LineageInv, NEW c \in Reader, VisitBecomes(c, NoVisit) \/ UNCHANGED visits, UNCHANGED <<memories, imports>>,
         SourcesGoOn, HeadsCount', VersionsRest', GroundsHold',
         heads' \in [Path -> HeadRow], versions' \in [Path -> Seq(SUBSET Reference)],
         grounds' \in [Path -> [1..MaxVersion -> SUBSET Reference]]
  PROVE  LineageInv'
<1>1. visits \in [Reader -> Visit] /\ MemoriesTypeOK'
  BY DEF LineageInv, WorkspaceRows, MemoriesTypeOK
<1>2. visits' \in [Reader -> Visit]
  BY <1>1, NoVisitRow DEF VisitBecomes
<1>3. ASSUME NEW d \in Reader PROVE VisitKnows(d)'
  <2>1. CASE visits'[d] = visits[d]
    BY <2>1, VisitStays
  <2>2. CASE d = c /\ VisitBecomes(c, NoVisit)
    BY <1>1, <2>2, NoVisitKnows
  <2>3. QED
    BY <1>1, <2>1, <2>2 DEF VisitBecomes
<1>4. WorkspaceRows'
  BY <1>1, <1>2 DEF WorkspaceRows
<1>5. QED
  BY <1>3, <1>4 DEF LineageInv

LEMMA VersionWritten ==
  ASSUME LineageInv, NEW c \in Reader, WriteVersion(c)
  PROVE  LineageInv' /\ SourcesGoOn
<1> DEFINE p == visits[c].path
           next == visits[c].revision + 1
           refs == visits[c].refs
<1>1. /\ p \in Path /\ refs \in SUBSET Reference /\ IsFiniteSet(refs) /\ \A ref \in refs : Written(ref)
      /\ visits[c].revision \in Nat
  BY RowOfVisit DEF WriteVersion, VisitKnows
<1>2. next <= MaxVersion /\ VisitBecomes(c, NoVisit) /\ UNCHANGED <<memories, imports>>
  BY DEF WriteVersion
<1>3. CASE ~Writable(p, visits[c].revision)
  BY <1>2, <1>3, VisitEnds DEF WriteVersion
<1>4. CASE Writable(p, visits[c].revision)
  <2>1. /\ heads' = [heads EXCEPT ![p].revision = next]
        /\ versions' = [versions EXCEPT ![p] = Append(@, refs)]
        /\ grounds' = [grounds EXCEPT ![p][next] = Followed(refs)]
    BY <1>4 DEF WriteVersion
  <2>2. heads[p].deleted = "no" /\ next = heads[p].revision + 1 /\ next \in 1..MaxVersion
    BY <1>1, <1>2, <1>4, WorkspacesAssumption DEF Writable
  <2> HIDE DEF p, next, refs
  <2>3. /\ SourcesGoOn /\ HeadsCount' /\ VersionsRest' /\ GroundsHold'
        /\ heads' \in [Path -> HeadRow] /\ versions' \in [Path -> Seq(SUBSET Reference)]
        /\ grounds' \in [Path -> [1..MaxVersion -> SUBSET Reference]]
    BY <1>1, <1>2, <2>1, <2>2, VersionAdded
  <2>4. QED
    BY <1>2, <2>3, RowsGoOn
<1>5. QED
  BY <1>3, <1>4

\* What a purge or its owner removes.
LEMMA DocumentRemoved ==
  ASSUME LineageInv, NEW c \in Reader, VisitBecomes(c, NoVisit) \/ UNCHANGED visits,
         NEW p \in Path, NEW expected, RemoveVersions(p, expected), Removable(p, expected),
         UNCHANGED <<memories, imports, grounds>>
  PROVE  LineageInv' /\ SourcesGoOn
<1>1. /\ SourcesGoOn /\ HeadsCount' /\ VersionsRest' /\ GroundsHold'
      /\ heads' \in [Path -> HeadRow] /\ versions' \in [Path -> Seq(SUBSET Reference)]
  BY VersionsGone
<1>2. grounds' \in [Path -> [1..MaxVersion -> SUBSET Reference]]
  BY DEF LineageInv, WorkspaceRows
<1>3. QED
  BY <1>1, <1>2, RowsGoOn

LEMMA PurgeDone ==
  ASSUME LineageInv, NEW c \in Reader, PurgeRemoves(c)
  PROVE  LineageInv' /\ SourcesGoOn
<1> DEFINE p == visits[c].path
           expected == visits[c].revision
<1>1. p \in Path /\ RemoveVersions(p, expected) /\ VisitBecomes(c, NoVisit) /\ UNCHANGED <<memories, imports, grounds>>
  BY RowOfVisit DEF PurgeRemoves, VisitKnows
<1> HIDE DEF p, expected
<1>2. CASE Removable(p, expected)
  BY <1>1, <1>2, DocumentRemoved
<1>3. CASE ~Removable(p, expected)
  BY <1>1, <1>3, VisitEnds DEF RemoveVersions
<1>4. QED
  BY <1>2, <1>3

LEMMA OwnerRemoves ==
  ASSUME LineageInv, NEW p \in Path, NEW expected, RemoveDocument(p, expected)
  PROVE  LineageInv' /\ SourcesGoOn
<1>1. /\ Removable(p, expected) /\ RemoveVersions(p, expected)
      /\ UNCHANGED <<memories, imports, visits, grounds>>
  BY DEF RemoveDocument
<1>2. /\ SourcesGoOn /\ HeadsCount' /\ VersionsRest' /\ GroundsHold'
      /\ heads' \in [Path -> HeadRow] /\ versions' \in [Path -> Seq(SUBSET Reference)]
  BY <1>1, VersionsGone
<1>3. ASSUME NEW d \in Reader PROVE VisitKnows(d)'
  BY <1>1, <1>2, VisitStays
<1>4. WorkspaceRows'
  BY <1>1, <1>2 DEF LineageInv, WorkspaceRows, MemoriesTypeOK
<1>5. QED
  BY <1>2, <1>3, <1>4 DEF LineageInv

LEMMA LineageStep ==
  ASSUME LineageInv, [WorkspacesNext]_workspaceVars
  PROVE  LineageInv' /\ SourcesGoOn
<1>1. CASE UNCHANGED workspaceVars
  <2>1. UNCHANGED <<memories, imports, heads, versions, visits, grounds>>
    BY <1>1 DEF workspaceVars
  <2>2. SourcesGoOn
    BY <2>1, SourcesStand
  <2>3. HeadsCount' /\ VersionsRest' /\ GroundsHold'
    BY <2>1, <2>2, LineageStays
  <2>4. WorkspaceRows'
    BY <2>1 DEF LineageInv, WorkspaceRows, MemoriesTypeOK
  <2>5. \A d \in Reader : VisitKnows(d)'
    BY <2>1, <2>2, VisitStays
  <2>6. QED
    BY <2>2, <2>3, <2>4, <2>5 DEF LineageInv
<1>2. CASE MemoriesNext /\ UNCHANGED <<heads, versions, visits, visitsBegun, grounds>>
  BY <1>2, MemoriesMove
<1>3. ASSUME NEW c \in Reader, NEW p \in Path, NEW r \in 1..MaxVersion, StartRead(c, p, r)
      PROVE  LineageInv' /\ SourcesGoOn
  BY <1>3, ReadStarts
<1>4. ASSUME NEW c \in Reader, NEW p \in Path, NEW expected \in 0..heads[p].revision, NEW refs \in SUBSET SeenSources,
             IsFiniteSet(refs), StartWrite(c, p, expected, refs)
      PROVE  LineageInv' /\ SourcesGoOn
  BY <1>4, WriteStarts
<1>5. ASSUME NEW c \in Reader, NEW p \in Path, StartPurge(c, p) PROVE LineageInv' /\ SourcesGoOn
  BY <1>5, PurgeStarts
<1>6. ASSUME NEW c \in Reader, FollowReference(c) PROVE LineageInv' /\ SourcesGoOn
  BY <1>6, ReferenceFollowed
<1>7. ASSUME NEW c \in Reader, AnswersRead(c) \/ PurgeKeeps(c) PROVE LineageInv' /\ SourcesGoOn
  BY <1>7, VisitEnds DEF AnswersRead, PurgeKeeps
<1>8. ASSUME NEW c \in Reader, WriteVersion(c) PROVE LineageInv' /\ SourcesGoOn
  BY <1>8, VersionWritten
<1>9. ASSUME NEW c \in Reader, PurgeRemoves(c) PROVE LineageInv' /\ SourcesGoOn
  BY <1>9, PurgeDone
<1>10. ASSUME NEW p \in Path, NEW expected, RemoveDocument(p, expected) PROVE LineageInv' /\ SourcesGoOn
  BY <1>10, OwnerRemoves
<1>11. QED
  BY <1>1, <1>2, <1>3, <1>4, <1>5, <1>6, <1>7, <1>8, <1>9, <1>10 DEF WorkspacesNext

LEMMA AnswersAreSound ==
  ASSUME LineageInv, NEW c \in Reader, AnswersRead(c) PROVE visits[c].doomed = "no"
<1>1. /\ visits[c].doomed \in {"no", "yes"} /\ VisitKnows(c)
      /\ visits[c].op = "read" /\ visits[c].todo = <<>>
  BY RowOfVisit DEF AnswersRead, Visit
<1>2. \A i \in DOMAIN visits[c].todo : FALSE
  BY <1>1
<1>3. QED
  BY <1>1, <1>2 DEF VisitKnows

\* A step that takes a caller out of a removal, and changes a document, removes it.
LEMMA PurgeIsSound ==
  ASSUME LineageInv, [WorkspacesNext]_workspaceVars, NEW c \in Reader, NEW p \in Path,
         visits[c].op = "remove", visits'[c].op = "idle", heads'[p] # heads[p]
  PROVE  Doomed(p, heads[p].revision)
<1>1. visits \in [Reader -> Visit] /\ heads \in [Path -> HeadRow]
  BY DEF LineageInv, WorkspaceRows
<1>2. ~UNCHANGED heads /\ ~UNCHANGED visits
  BY <1>1
<1>3. ASSUME NEW d \in Reader, WriteVersion(d) PROVE FALSE
  <2>1. visits[d].op = "write" /\ visits' = [visits EXCEPT ![d] = NoVisit]
    BY <1>3 DEF WriteVersion, VisitBecomes
  <2>2. QED
    BY <2>1, <1>1
<1>4. ASSUME NEW d \in Reader, PurgeRemoves(d) PROVE Doomed(p, heads[p].revision)
  <2>1. visits' = [visits EXCEPT ![d] = NoVisit] /\ RemoveVersions(visits[d].path, visits[d].revision)
    BY <1>4 DEF PurgeRemoves, VisitBecomes
  <2>2. d = c
    BY <2>1, <1>1
  <2>3. p = visits[c].path /\ heads[p].revision = visits[c].revision
    BY <2>1, <2>2, <1>1 DEF RemoveVersions, Removable
  <2>4. QED
    BY <2>3, RowOfVisit DEF VisitKnows
<1>5. ASSUME NEW d \in Reader, FollowReference(d) \/ AnswersRead(d) \/ PurgeKeeps(d) PROVE UNCHANGED heads
  BY <1>5 DEF FollowReference, AnswersRead, PurgeKeeps
<1>6. ASSUME NEW d \in Reader, NEW q \in Path,
             \/ \E r \in 1..MaxVersion : StartRead(d, q, r)
             \/ \E expected \in 0..heads[q].revision : \E refs \in SUBSET SeenSources : StartWrite(d, q, expected, refs)
             \/ StartPurge(d, q)
      PROVE  UNCHANGED heads
  BY <1>6 DEF StartRead, StartWrite, StartPurge
<1>7. ASSUME NEW q \in Path, NEW expected, RemoveDocument(q, expected) PROVE UNCHANGED visits
  BY <1>7 DEF RemoveDocument
<1>8. QED
  BY <1>2, <1>3, <1>4, <1>5, <1>6, <1>7 DEF WorkspacesNext, workspaceVars

LEMMA VersionsAreKept ==
  ASSUME LineageInv, [WorkspacesNext]_workspaceVars, NEW p \in Path, NEW r \in DOMAIN versions[p], r \in DOMAIN versions'[p]
  PROVE  versions'[p][r] = versions[p][r]
<1>1. versions \in [Path -> Seq(SUBSET Reference)]
  BY DEF LineageInv, WorkspaceRows
<1>2. CASE UNCHANGED versions
  BY <1>2
<1>3. ASSUME NEW d \in Reader, WriteVersion(d), ~UNCHANGED versions PROVE versions'[p][r] = versions[p][r]
  <2>1. versions' = [versions EXCEPT ![visits[d].path] = Append(@, visits[d].refs)]
    BY <1>3 DEF WriteVersion
  <2>2. CASE p = visits[d].path
    <3>1. versions'[p] = Append(versions[p], visits[d].refs)
      BY <2>1, <2>2, <1>1
    <3>2. r \in 1..Len(versions[p])
      BY <1>1
    <3>3. QED
      BY <3>1, <3>2, <1>1
  <2>3. CASE p # visits[d].path
    BY <2>1, <2>3, <1>1
  <2>4. QED
    BY <2>2, <2>3
<1>4. ASSUME NEW q, NEW expected, RemoveVersions(q, expected), ~UNCHANGED versions PROVE versions'[p][r] = versions[p][r]
  <2>1. versions' = [versions EXCEPT ![q] = <<>>]
    BY <1>4 DEF RemoveVersions
  <2>2. CASE p = q
    <3>1. versions'[p] = <<>>
      BY <2>1, <2>2, <1>1
    <3>2. \A i \in DOMAIN <<>> : FALSE
      OBVIOUS
    <3>3. QED
      BY <3>1, <3>2
  <2>3. CASE p # q
    BY <2>1, <2>3, <1>1
  <2>4. QED
    BY <2>2, <2>3
<1>5. ASSUME NEW d \in Reader, FollowReference(d) \/ AnswersRead(d) \/ PurgeKeeps(d) PROVE UNCHANGED versions
  BY <1>5 DEF FollowReference, AnswersRead, PurgeKeeps
<1>6. ASSUME NEW d \in Reader, NEW q \in Path,
             \/ \E n \in 1..MaxVersion : StartRead(d, q, n)
             \/ \E expected \in 0..heads[q].revision : \E refs \in SUBSET SeenSources : StartWrite(d, q, expected, refs)
             \/ StartPurge(d, q)
      PROVE  UNCHANGED versions
  BY <1>6 DEF StartRead, StartWrite, StartPurge
<1>7. QED
  BY <1>2, <1>3, <1>4, <1>5, <1>6 DEF WorkspacesNext, workspaceVars, PurgeRemoves, RemoveDocument

LEMMA WorkspaceTypes == LineageInv => WorkspacesTypeOK
<1> SUFFICES ASSUME LineageInv PROVE WorkspacesTypeOK
  OBVIOUS
<1>1. ASSUME NEW p \in Path
      PROVE  /\ heads[p].revision \in 0..(MaxVersion + 1) /\ heads[p].deleted \in {"no", "yes"}
             /\ \A r \in 1..MaxVersion : grounds[p][r] \subseteq Reference
             /\ \A r \in DOMAIN versions[p] : versions[p][r] \subseteq Reference
             /\ Len(versions[p]) <= MaxVersion
  <2>1. /\ heads[p] \in HeadRow /\ versions[p] \in Seq(SUBSET Reference)
        /\ grounds[p] \in [1..MaxVersion -> SUBSET Reference]
    BY DEF LineageInv, WorkspaceRows
  <2>2. Len(versions[p]) <= MaxVersion
    <3>1. CASE heads[p].deleted = "no"
      BY <3>1 DEF LineageInv, HeadsCount
    <3>2. CASE heads[p].deleted # "no"
      <4>1. versions[p] = <<>> /\ Len(<<>>) = 0
        BY <3>2 DEF LineageInv, HeadsCount
      <4>2. QED
        BY <4>1, WorkspacesAssumption
    <3>3. QED
      BY <3>1, <3>2
  <2>3. heads[p].revision \in 0..(MaxVersion + 1) /\ heads[p].deleted \in {"no", "yes"}
    BY <2>1 DEF HeadRow
  <2>4. \A r \in 1..MaxVersion : grounds[p][r] \subseteq Reference
    BY <2>1
  <2>5. \A r \in DOMAIN versions[p] : versions[p][r] \subseteq Reference
    BY <2>1
  <2>6. QED
    BY <2>2, <2>3, <2>4, <2>5
<1>2. ASSUME NEW c \in Reader
      PROVE  /\ visits[c] \in Visit
             /\ \A i \in DOMAIN visits[c].todo : visits[c].todo[i] \in Reference
  BY RowOfVisit
<1>3. QED
  BY <1>1, <1>2 DEF LineageInv, WorkspaceRows, WorkspacesTypeOK, Visit

\* What rests on a source ends with it, however the walks of readers, writers and purges
\* interleave with memories that are relearned, disputed, expired and forgotten and with
\* documents written, superseded and removed: no read is answered for a version a source of
\* which had ended or been replaced, a purge removes only what could never be read again, no
\* version is replaced, and what has ended stays ended (provenance/workspace.js:35-40,
\* workspace/service.js:20, memory/store.js:66-67).
THEOREM SourcesDoGovern == RecordsSpec => SourcesGovern
<1>1. RecordsInit => LineageInv
  BY LineageBegins DEF RecordsInit
<1>2. [RecordsNext]_recordsVars => [WorkspacesNext]_workspaceVars
  BY DEF RecordsNext, Only, recordsVars
<1>3. LineageInv /\ [RecordsNext]_recordsVars => LineageInv'
  BY <1>2, LineageStep
<1>4. LineageInv /\ [RecordsNext]_recordsVars =>
        [ /\ \A c \in Reader : AnswersRead(c) => visits[c].doomed = "no"
          /\ \A c \in Reader : \A p \in Path :
               visits[c].op = "remove" /\ visits'[c].op = "idle" /\ heads'[p] # heads[p]
                 => Doomed(p, heads[p].revision)
          /\ \A p \in Path : \A r \in 1..MaxVersion :
               /\ r \in DOMAIN versions[p] /\ r \in DOMAIN versions'[p] => versions'[p][r] = versions[p][r]
               /\ Doomed(p, r) => Doomed(p, r)' ]_workspaceVars
  BY <1>2, LineageStep, AnswersAreSound, PurgeIsSound, VersionsAreKept, DoomedStays
<1>5. QED
  BY <1>1, <1>3, <1>4, PTL DEF RecordsSpec, SourcesGovern
-----------------------------------------------------------------------------
(* The types of the records, with their bounds: what the run checks beyond what the
   theorems above needed, part by part *)

\* A tool that is prepared or, outside a batch, about to be, has its place in the budget.
InHand(job) == IF job.phase = "invoke" \/ (job.phase = "act" /\ job.left = 0) THEN 1 ELSE 0

\* A Task keeps to its budget of tools, its batch and the tool in hand included.
JobWithin(job) ==
  /\ job.at \in 1..7 /\ job.bound \in 0..MaxDefinition /\ job.left \in 0..MaxActions
  /\ job.phase \in {"ask", "answer"} => job.left = 0
  /\ job.done + job.left + InHand(job) <= MaxPerformed

AccessWithin ==
  /\ definition \in 1..MaxDefinition /\ member \in {"yes", "no"} /\ policy \in {"allow", "deny"}
  /\ accessChanges \in 0..MaxAccessChanges
  /\ \A j \in Job : JobWithin(jobs[j])

KeysWithin ==
  /\ \A e \in Entity : rows[e].revision \in 1..MaxRow
  /\ allowed \in {"yes", "no"} /\ callsBegun \in 0..MaxCalls /\ usedRequests \subseteq KeyRequest
  /\ \A k \in PersonalKey : personalKeys[k].root \in 0..MaxKeys
  /\ \A c \in Caller : keyCalls[c].op \in {"issue", "rotate"} => keyCalls[c].request \in KeyRequest

\* A delivery that is about to tell of a question has seen one.
ChannelsWithin ==
  /\ taskQuestion.number \in 1..MaxQuestions /\ rebinds \in 0..MaxRebinds /\ deliveriesBegun \in 0..MaxDeliveries
  /\ \A m \in ChannelMessage : answered[m] \subseteq 1..MaxQuestions
  /\ \A d \in Delivery : /\ deliveries[d].seen \in 0..MaxQuestions
                         /\ deliveries[d].step \in {"rebound", "enqueue"} => deliveries[d].seen # 0
  /\ replies \subseteq [message : ChannelMessage, identity : Identity, seen : 1..MaxQuestions]

\* Only a recoverable adapter admits by activations, and only what was created.
ActivationWithin == activation # NoContainer => adapter = "recoverable" /\ activation.id <= lastContainer

\* The row counts what was installed and erased, and what it shows came from upstream.
KnowledgeWithin ==
  /\ source.revision = Len(ingested) + erasures
  /\ IF Ingested THEN source.revision <= MaxIngested /\ source.chunks.version \in 1..upstream.version
     ELSE source.revision <= MaxIngested + 1
  /\ upstream.version >= 1
  /\ \A p \in Ingestor : ingestions[p] \in ToReplace => ingestions[p].snapshot.version >= 1

PapersWithin ==
  /\ readable \in {"yes", "no"} /\ taskPlan \in 0..MaxPlan /\ paperMishaps \in 0..MaxPaperMishaps
  /\ \A i \in ReviewId : reviews[i].on \in 0..MaxArtifact
  /\ \A p \in Peer : papers[p] \in ReviewCall => papers[p].record.on \in 1..MaxArtifact

\* No process holds a generation that was not started, or reports past the bound.
RegistryWithin ==
  /\ registered \in {NotRegistered} \cup [boundary : Boundary, described : Described, revision : 1..MaxRegistered]
  /\ presence.generation \in 0..MaxGeneration /\ presence.sequence \in 0..MaxReports
  /\ \A p \in Server : serving[p].generation <= presence.generation /\ serving[p].sequence \in 0..MaxReports
  /\ \A report \in reports : report.sequence \in 0..MaxReports

RoutingWithin ==
  /\ deployed \in [Router -> [Profile -> 1..MaxEndpoint]] /\ ownKeys \in [Own -> {"live", "revoked"}]
  /\ selection \in Profile /\ routePolicy \in RoutingPolicy /\ routeMishaps \in 0..MaxRouteMishaps

SubscriptionsWithin ==
  /\ factChanges \in 0..MaxFactChanges
  /\ \A s \in Scope : subscriptions[s].revision \in 0..MaxSubscription
  /\ \A a \in Applier : applying[a] # Unresolved => applying[a].expected < MaxSubscription

ProfilesWithin ==
  /\ \A c \in Context : contexts[c].revision \in 1..MaxContextRevision
  /\ approvals \subseteq profilePlans /\ operating \in {"yes", "no"}

HumanRow == {NoHumanTask} \cup [state : {"open", "claimed", "resolved", "cancelled"}, by : Human \cup {"nobody"}]

\* An endpoint's current grant is its own, and an escalation has its task.
PeersWithin ==
  /\ \A e \in Endpoint : currentGrant[e] # 0 => peerGrants[currentGrant[e]].endpoint = e
  /\ humanTask \in Seq(HumanRow) /\ Len(humanTask) = Len(peerMessages)
  /\ escalated \subseteq {m \in Sent : humanTask[m] # NoHumanTask}
-----------------------------------------------------------------------------
USE AccessAssumption
USE AccessBounds

LEMMA AccessBegins == AccessInit => AccessWithin
<1>1. NoJob.at = 1 /\ NoJob.bound = 0 /\ NoJob.left = 0 /\ NoJob.done = 0 /\ NoJob.phase = "idle"
  BY DEF NoJob
<1>2. JobWithin(NoJob)
  BY <1>1 DEF JobWithin, InHand
<1>3. QED
  BY <1>2 DEF AccessInit, AccessWithin

LEMMA JobGoesOn ==
  ASSUME AccessInv, AccessWithin, NEW j \in Job, NEW row, JobBecomes(j, row), JobWithin(row)
  PROVE  AccessWithin'
<1>1. jobs' = [jobs EXCEPT ![j] = row] /\ UNCHANGED <<definition, member, policy, accessChanges>>
  BY DEF JobBecomes
<1>2. jobs \in [Job -> AccessRow]
  BY DEF AccessInv, AccessRows
<1>3. \A i \in Job : JobWithin(jobs'[i])
  BY <1>1, <1>2 DEF AccessWithin
<1>4. QED
  BY <1>1, <1>3 DEF AccessWithin

\* A row that enters a phase keeps what it counts.
LEMMA EnteredCounts ==
  ASSUME AccessInv, AccessWithin, NEW j \in Job, NEW phase \in DOMAIN Checks
  PROVE  LET row == EntersPhase(j, phase) IN
           /\ row \in AccessRow /\ row.phase = phase /\ row.at = 1 /\ row.bound = jobs[j].bound /\ row.left = jobs[j].left
           /\ row.done = jobs[j].done /\ row.done + row.left <= MaxPerformed
           /\ row.bound \in 0..MaxDefinition /\ row.left \in 0..MaxActions
<1>1. jobs[j] \in AccessRow /\ JobWithin(jobs[j]) /\ AccessRows
  BY DEF AccessInv, AccessRows, AccessWithin
<1>2. EntersPhase(j, phase) \in AccessRow
  BY <1>1, EnteredRow
<1>3. QED
  BY <1>1, <1>2 DEF EntersPhase, JobWithin, InHand, AccessRow

\* Of the phases that are entered, those that prepare a tool or have none in hand.
LEMMA EntersWithin ==
  ASSUME AccessInv, AccessWithin, NEW j \in Job, NEW phase \in DOMAIN Checks \ {"invoke", "act"},
         phase \in {"ask", "answer"} => jobs[j].left = 0
  PROVE  JobWithin(EntersPhase(j, phase))
<1>1. PICK row \in AccessRow : row = EntersPhase(j, phase)
  BY EnteredCounts
<1>2. /\ row.phase = phase /\ row.at = 1 /\ row.left = jobs[j].left
      /\ row.done + row.left <= MaxPerformed
      /\ row.bound \in 0..MaxDefinition /\ row.left \in 0..MaxActions
  BY <1>1, EnteredCounts
<1>3. InHand(row) = 0
  BY <1>2 DEF InHand
<1>4. QED
  BY <1>1, <1>2, <1>3 DEF JobWithin, AccessRow

LEMMA CheckCounts ==
  /\ Len(Checks["admit"]) = 3 /\ Len(Checks["resume"]) = 4 /\ Len(Checks["start"]) = 4 /\ Len(Checks["turn"]) = 4
  /\ Len(Checks["ask"]) = 4 /\ Len(Checks["answer"]) = 4 /\ Len(Checks["act"]) = 6 /\ Len(Checks["invoke"]) = 2
  /\ Len(Checks["ensure"]) = 0 /\ Len(Checks["bind"]) = 0 /\ Len(Checks["insert"]) = 0 /\ Len(Checks["idle"]) = 0
<1>1. /\ Len(Checks.admit) = 3 /\ Len(Checks.resume) = 4 /\ Len(Checks.start) = 4 /\ Len(Checks.turn) = 4
      /\ Len(Checks.ask) = 4 /\ Len(Checks.answer) = 4 /\ Len(Checks.act) = 6 /\ Len(Checks.invoke) = 2
      /\ Len(Checks.ensure) = 0 /\ Len(Checks.bind) = 0 /\ Len(Checks.insert) = 0 /\ Len(Checks.idle) = 0
  BY DEF Checks
<1>2. QED
  BY <1>1

LEMMA CheckWithin ==
  ASSUME AccessInv, AccessWithin, NEW j \in Job, CheckAuthority(j)
  PROVE  AccessWithin'
<1>1. jobs[j] \in AccessRow /\ JobWithin(jobs[j]) /\ jobs[j].phase \in DOMAIN Checks
  BY DEF AccessInv, AccessRows, AccessWithin, AccessRow
<1>2. jobs[j].at <= 6
  <2>1. \A phase \in DOMAIN Checks : Len(Checks[phase]) \in 0..6
    BY PhaseNames, CheckCounts
  <2>2. PICK n \in 0..6 : n = Len(Checks[jobs[j].phase])
    BY <1>1, <2>1
  <2>3. jobs[j].at <= n
    BY <2>2 DEF CheckAuthority
  <2>4. PICK at \in Nat : at = jobs[j].at
    BY <1>1 DEF AccessRow
  <2>5. at <= n
    BY <2>3, <2>4
  <2>6. QED
    BY <2>4, <2>5
<1>3. JobWithin([jobs[j] EXCEPT !.at = @ + 1])
  <2>1. PICK row \in AccessRow : row = jobs[j]
    BY <1>1
  <2>2. JobWithin(row) /\ row.at <= 6 /\ row.at \in Nat
    BY <1>1, <1>2, <2>1 DEF AccessRow
  <2>3. PICK next : next = [row EXCEPT !.at = row.at + 1]
    OBVIOUS
  <2>4. next.at = row.at + 1 /\ next.phase = row.phase /\ next.left = row.left /\ next.done = row.done /\ next.bound = row.bound
    BY <2>3 DEF AccessRow
  <2>5. InHand(next) = InHand(row)
    BY <2>4 DEF InHand
  <2>6. next.at \in 1..7
    BY <2>2, <2>4 DEF JobWithin
  <2>7. JobWithin(next)
    BY <2>2, <2>4, <2>5, <2>6 DEF JobWithin
  <2>8. QED
    BY <2>1, <2>3, <2>7
<1>4. JobWithin(Refused(j))
  <2>1. CASE jobs[j].phase = "admit"
    BY <2>1, AccessBegins DEF Refused, NoJob, JobWithin, InHand
  <2>2. CASE jobs[j].phase = "resume"
    BY <2>2, EntersWithin, PhaseNames DEF Refused
  <2>3. CASE jobs[j].phase = "invoke"
    <3>1. PICK row \in AccessRow : row = EntersPhase(j, "turn")
      BY EnteredCounts, PhaseNames
    <3>2. row.phase = "turn" /\ row.at = 1 /\ row.left = jobs[j].left /\ row.done = jobs[j].done
          /\ row.bound \in 0..MaxDefinition /\ row.left \in 0..MaxActions
      BY <3>1, EnteredCounts, PhaseNames
    <3>3. jobs[j].done + jobs[j].left + 1 <= MaxPerformed /\ jobs[j].done \in Nat /\ jobs[j].left \in Nat
      BY <1>1, <2>3 DEF JobWithin, InHand, AccessRow
    <3>4. JobWithin([row EXCEPT !.done = @ + 1])
      BY <3>2, <3>3 DEF AccessRow, JobWithin, InHand
    <3>5. QED
      BY <2>3, <3>1, <3>4 DEF Refused
  <2>4. CASE jobs[j].phase \notin {"admit", "resume", "invoke"}
    <3>1. PICK row \in AccessRow : row = EntersPhase(j, "idle")
      BY EnteredCounts, PhaseNames
    <3>2. JobWithin(row) /\ row.phase = "idle"
      BY <3>1, EntersWithin, EnteredCounts, PhaseNames
    <3>3. JobWithin([row EXCEPT !.status = "waiting"])
      BY <3>2 DEF AccessRow, JobWithin, InHand
    <3>4. QED
      BY <2>4, <3>1, <3>3 DEF Refused
  <2>5. QED
    BY <2>1, <2>2, <2>3, <2>4
<1>5. PICK row : JobBecomes(j, row) /\ JobWithin(row)
  BY <1>3, <1>4 DEF CheckAuthority
<1>6. QED
  BY <1>5, JobGoesOn

\* A change of one field that is not counted.
LEMMA ChangedWithin ==
  ASSUME AccessInv, AccessWithin, NEW j \in Job, NEW phase \in DOMAIN Checks \ {"invoke", "act", "ask", "answer"},
         NEW status, NEW bound \in 0..MaxDefinition, NEW seen, NEW row, JobBecomes(j, row),
         \/ row = [EntersPhase(j, phase) EXCEPT !.status = status]
         \/ row = [EntersPhase(j, phase) EXCEPT !.bound = bound]
         \/ row = [EntersPhase(j, phase) EXCEPT !.seen = seen]
  PROVE  AccessWithin'
<1>1. PICK old \in AccessRow : old = EntersPhase(j, phase)
  BY EnteredCounts
<1>2. JobWithin(old) /\ old.phase = phase
  BY <1>1, EntersWithin, EnteredCounts
<1>3. JobWithin(row)
  BY <1>1, <1>2 DEF AccessRow, JobWithin, InHand
<1>4. QED
  BY <1>3, JobGoesOn

\* A tool is taken: of the batch, or one call within the budget.
LEMMA TakenWithin ==
  ASSUME AccessInv, AccessWithin, NEW j \in Job, NEW a, JobBecomes(j, [EntersPhase(j, "act") EXCEPT !.tool = a]),
         jobs[j].left > 0 \/ jobs[j].done < MaxPerformed
  PROVE  AccessWithin'
<1>1. PICK row \in AccessRow : row = EntersPhase(j, "act")
  BY EnteredCounts, PhaseNames
<1>2. /\ row.phase = "act" /\ row.at = 1 /\ row.left = jobs[j].left /\ row.done = jobs[j].done
      /\ row.done + row.left <= MaxPerformed
      /\ row.bound \in 0..MaxDefinition /\ row.left \in 0..MaxActions
  BY <1>1, EnteredCounts, PhaseNames
<1>3. JobWithin([row EXCEPT !.tool = a])
  BY <1>2 DEF AccessRow, JobWithin, InHand
<1>4. QED
  BY <1>1, <1>3, JobGoesOn

LEMMA AccessKeepsWithin ==
  ASSUME AccessInv, AccessWithin, [AccessNext]_accessVars
  PROVE  AccessWithin'
<1>0. jobs \in [Job -> AccessRow] /\ AccessRows
  BY DEF AccessInv, AccessRows
<1>1. CASE UNCHANGED accessVars
  BY <1>1 DEF accessVars, AccessWithin
<1>2. ASSUME NEW j \in Job, (\E tools \in SUBSET AgentTool \ {{}} : GrantMandate(j, tools)) \/ EndMandate(j)
      PROVE  AccessWithin'
  BY <1>2 DEF AccessWithin, GrantMandate, EndMandate, AccessChange
<1>3. ASSUME \/ \E state \in {"active", "paused"} : SetAgent(state)
             \/ \E revision \in 1..MaxDefinition : RegisterDefinition(revision)
             \/ ChangeMembership \/ ChangePolicy
      PROVE  AccessWithin'
  BY <1>3 DEF AccessWithin, SetAgent, RegisterDefinition, ChangeMembership, ChangePolicy, AccessChange
<1>4. ASSUME NEW j \in Job, AskAdmission(j) \/ AskResume(j)
      PROVE  AccessWithin'
  BY <1>4, EntersWithin, JobGoesOn, PhaseNames DEF AskAdmission, AskResume
<1>5. ASSUME NEW j \in Job, ReadDefinition(j) \/ EnsureAgent(j)
      PROVE  AccessWithin'
  <2>1. definition \in 0..MaxDefinition
    BY DEF AccessWithin
  <2>2. \/ JobBecomes(j, [EntersPhase(j, "ensure") EXCEPT !.bound = definition])
        \/ JobBecomes(j, [EntersPhase(j, "bind") EXCEPT !.seen = agent'])
    BY <1>5 DEF ReadDefinition, EnsureAgent
  <2>3. QED
    BY <2>1, <2>2, ChangedWithin, PhaseNames
<1>6. ASSUME NEW j \in Job, BindAgent(j)
      PROVE  AccessWithin'
  <2>1. JobWithin(NoJob)
    BY DEF NoJob, JobWithin, InHand
  <2>2. JobWithin(EntersPhase(j, "insert"))
    BY EntersWithin, PhaseNames
  <2>3. JobBecomes(j, EntersPhase(j, "insert")) \/ JobBecomes(j, NoJob)
    BY <1>6 DEF BindAgent
  <2>4. QED
    BY <2>1, <2>2, <2>3, JobGoesOn
<1>7. ASSUME NEW j \in Job, NEW phase \in {"idle", "start"}, NEW status, JobBecomes(j, [EntersPhase(j, phase) EXCEPT !.status = status])
      PROVE  AccessWithin'
  <2>1. 0 \in 0..MaxDefinition /\ phase \in DOMAIN Checks \ {"invoke", "act", "ask", "answer"}
    BY PhaseNames
  <2>2. QED
    BY <1>7, <2>1, ChangedWithin
<1>8. ASSUME NEW j \in Job, InsertJob(j) \/ ResumeJob(j) \/ ClaimJob(j)
      PROVE  AccessWithin'
  BY <1>7, <1>8 DEF InsertJob, ResumeJob, ClaimJob
<1>9. ASSUME NEW j \in Job, NEW phase \in {"turn", "ask", "answer"}, JobBecomes(j, EntersPhase(j, phase)),
             phase # "turn" => jobs[j].left = 0
      PROVE  AccessWithin'
  BY <1>9, EntersWithin, JobGoesOn, PhaseNames
<1>10. ASSUME NEW j \in Job, JobTurn(j)
       PROVE  AccessWithin'
  <2>1. \/ JobBecomes(j, EntersPhase(j, "turn"))
        \/ \E a \in AgentTool : jobs[j].left > 0 /\ JobBecomes(j, [EntersPhase(j, "act") EXCEPT !.tool = a])
        \/ jobs[j].left = 0 /\ JobBecomes(j, EntersPhase(j, "ask"))
        \/ JobBecomes(j, [EntersPhase(j, "idle") EXCEPT !.status = "waiting"])
    BY <1>10 DEF JobTurn
  <2>2. QED
    BY <1>7, <1>9, <2>1, TakenWithin
<1>11. ASSUME NEW j \in Job, ModelAnswers(j)
       PROVE  AccessWithin'
  <2>1. jobs[j].left = 0
    BY <1>11 DEF ModelAnswers, Passed, AccessWithin, JobWithin
  <2>2. ASSUME NEW n \in 2..MaxActions, n <= MaxPerformed - jobs[j].done, JobBecomes(j, [EntersPhase(j, "turn") EXCEPT !.left = n])
        PROVE  AccessWithin'
    <3>1. PICK row \in AccessRow : row = EntersPhase(j, "turn")
      BY EnteredCounts, PhaseNames
    <3>2. row.phase = "turn" /\ row.at = 1 /\ row.done = jobs[j].done /\ row.bound \in 0..MaxDefinition
      BY <3>1, EnteredCounts, PhaseNames
    <3>3. JobWithin([row EXCEPT !.left = n])
      BY <2>2, <3>2 DEF AccessRow, JobWithin, InHand
    <3>4. QED
      BY <2>2, <3>1, <3>3, JobGoesOn
  <2>3. QED
    BY <1>9, <1>11, <2>1, <2>2 DEF ModelAnswers
<1>12. ASSUME NEW j \in Job, CallAnswered(j)
       PROVE  AccessWithin'
  BY <1>12, TakenWithin DEF CallAnswered, MayPerform
<1>13. ASSUME NEW j \in Job, EndJob(j)
       PROVE  AccessWithin'
  BY <1>7, <1>9, <1>13 DEF EndJob
<1>14. ASSUME NEW j \in Job, PrepareTool(j)
       PROVE  AccessWithin'
  <2>1. PICK row \in AccessRow : row = EntersPhase(j, "invoke")
    BY EnteredCounts, PhaseNames
  <2>2. row.phase = "invoke" /\ row.at = 1 /\ row.left = jobs[j].left /\ row.done = jobs[j].done
        /\ row.bound \in 0..MaxDefinition /\ row.left \in 0..MaxActions
    BY <2>1, EnteredCounts, PhaseNames
  <2>3. jobs[j].phase = "act" /\ JobWithin(jobs[j]) /\ JobBecomes(j, [row EXCEPT !.left = IF @ > 0 THEN @ - 1 ELSE 0])
    BY <1>14, <2>1 DEF PrepareTool, Passed, AccessWithin
  <2>4. JobWithin([row EXCEPT !.left = IF @ > 0 THEN @ - 1 ELSE 0])
    BY <2>2, <2>3 DEF AccessRow, JobWithin, InHand
  <2>5. QED
    BY <2>3, <2>4, JobGoesOn
<1>15. ASSUME NEW j \in Job, PerformTool(j)
       PROVE  AccessWithin'
  <2>1. PICK row \in AccessRow : row = EntersPhase(j, "turn")
    BY EnteredCounts, PhaseNames
  <2>2. row.phase = "turn" /\ row.at = 1 /\ row.left = jobs[j].left /\ row.done = jobs[j].done
        /\ row.bound \in 0..MaxDefinition /\ row.left \in 0..MaxActions
    BY <2>1, EnteredCounts, PhaseNames
  <2>3. jobs[j].phase = "invoke" /\ JobWithin(jobs[j]) /\ JobBecomes(j, [row EXCEPT !.done = @ + 1])
    BY <1>15, <2>1 DEF PerformTool, Passed, AccessWithin
  <2>4. JobWithin([row EXCEPT !.done = @ + 1])
    BY <2>2, <2>3 DEF AccessRow, JobWithin, InHand
  <2>5. QED
    BY <2>3, <2>4, JobGoesOn
<1>16. QED
  BY <1>1, <1>2, <1>3, <1>4, <1>5, <1>6, <1>8, <1>10, <1>11, <1>12, <1>13, <1>14, <1>15, CheckWithin DEF AccessNext

LEMMA AccessTypes == AccessInv /\ AccessWithin => AccessTypeOK
<1> SUFFICES ASSUME AccessInv, AccessWithin PROVE AccessTypeOK
  OBVIOUS
<1>1. ASSUME NEW j \in Job PROVE jobs[j] \in AccessRow /\ JobWithin(jobs[j]) /\ jobs[j].done \in 0..MaxPerformed
  BY DEF AccessInv, AccessRows, AccessWithin, AccessRow, JobWithin, InHand
<1>2. QED
  BY <1>1 DEF AccessInv, AccessRows, AccessWithin, AccessRow, JobWithin, AccessTypeOK

HIDE AccessAssumption
HIDE AccessBounds
-----------------------------------------------------------------------------
USE AccountsAssumption
USE AccountsBounds

Requests(c) == keyCalls[c].op \in {"issue", "rotate"} => keyCalls[c].request \in KeyRequest

CarriesKey(call) == call.op \in {"issue", "rotate"} => call.request \in KeyRequest

LEMMA AskedCalls ==
  /\ CarriesKey(NoCall)
  /\ \A e, expected : CarriesKey([NoCall EXCEPT !.op = "put", !.entity = e, !.expected = expected])
  /\ \A r \in KeyRequest : CarriesKey([NoCall EXCEPT !.op = "issue", !.request = r])
  /\ \A k : \A r \in KeyRequest : CarriesKey([NoCall EXCEPT !.op = "rotate", !.key = k, !.request = r])
  /\ \A k : CarriesKey([NoCall EXCEPT !.op = "access", !.key = k])
  /\ \A call \in CallRow : \A step : CarriesKey(call) => CarriesKey([call EXCEPT !.step = step])
  /\ \A call \in CallRow : \A step, known : CarriesKey(call) => CarriesKey([call EXCEPT !.step = step, !.late = known])
<1>1. NoCall \in CallRow /\ NoCall.op = "idle"
  BY NoCallRow
<1>2. QED
  BY <1>1 DEF CarriesKey, CallRow

LEMMA KeysBegin == AccountsInit => KeysWithin
  BY NoCallRow DEF AccountsInit, KeysWithin, NoKey, PersonalKey

LEMMA CallsGoOn ==
  ASSUME KeysInv, KeysWithin, NEW c \in Caller, NEW call, CallBecomes(c, call),
         CarriesKey(call)
  PROVE  \A d \in Caller : Requests(d)'
<1>1. keyCalls' = [keyCalls EXCEPT ![c] = call] /\ keyCalls \in [Caller -> CallRow]
  BY DEF CallBecomes, KeysInv, KeyRows
<1>2. QED
  BY <1>1 DEF KeysWithin, Requests, CarriesKey

LEMMA RowsWithin ==
  ASSUME KeysInv, KeysWithin, NEW e, NEW state, NEW expected \in Nat, PutRow(e, state, expected)
  PROVE  \A x \in Entity : rows'[x].revision \in 1..MaxRow
<1>1. rows \in [Entity -> [state : {"active", "inactive"}, revision : Nat]]
  BY DEF KeysInv, KeyRows
<1>2. CASE UNCHANGED rows
  BY <1>2 DEF KeysWithin
<1>3. CASE expected < MaxRow /\ rows' = [rows EXCEPT ![e] = [state |-> state, revision |-> expected + 1]]
  BY <1>1, <1>3 DEF KeysWithin
<1>4. QED
  BY <1>2, <1>3 DEF PutRow

LEMMA KeysKeepWithin ==
  ASSUME KeysInv, KeysWithin, [AccountsNext]_accountVars
  PROVE  KeysWithin'
<1>0. /\ keyCalls \in [Caller -> CallRow] /\ rows \in [Entity -> [state : {"active", "inactive"}, revision : Nat]]
      /\ personalKeys \in [PersonalKey -> [state : {"absent", "live", "expired", "revoked"}, root : Nat]]
      /\ \A c \in Caller : keyCalls[c] \in CallRow /\ Requests(c)
  BY DEF KeysInv, KeyRows, KeysWithin, Requests
<1>1. CASE UNCHANGED accountVars
  BY <1>1 DEF accountVars, KeysWithin
<1>2. ASSUME NEW c \in Caller, NEW call, BeginsCall(c, call), CarriesKey(call)
      PROVE  KeysWithin'
  <2>1. CallBecomes(c, call) /\ callsBegun < MaxCalls /\ callsBegun' = callsBegun + 1
        /\ UNCHANGED <<rows, allowed, personalKeys, usedRequests>>
    BY <1>2 DEF BeginsCall
  <2>2. QED
    BY <1>2, <2>1, CallsGoOn DEF KeysWithin, Requests
<1>3. ASSUME NEW c \in Caller, \/ \E e \in Entity : \E expected \in 0..rows[e].revision : CallDirectory(c, e, expected)
                               \/ \E r \in KeyRequest : CallIssue(c, r) \/ \E k \in PersonalKey : CallRotate(c, k, r)
                               \/ \E k \in PersonalKey : SignIn(c, k)
      PROVE  KeysWithin'
  <2>1. CASE \E e \in Entity : \E expected \in 0..rows[e].revision : CallDirectory(c, e, expected)
    BY <1>2, <2>1, AskedCalls DEF CallDirectory
  <2>2. CASE \E r \in KeyRequest : CallIssue(c, r)
    BY <1>2, <2>2, AskedCalls DEF CallIssue
  <2>3. CASE \E r \in KeyRequest : \E k \in PersonalKey : CallRotate(c, k, r)
    <3>1. PICK r \in KeyRequest, k \in PersonalKey : CallRotate(c, k, r)
      BY <2>3
    <3>2. BeginsCall(c, [NoCall EXCEPT !.op = "rotate", !.key = k, !.request = r])
      BY <3>1 DEF CallRotate
    <3>3. CarriesKey([NoCall EXCEPT !.op = "rotate", !.key = k, !.request = r])
      BY AskedCalls
    <3>4. QED
      BY <1>2, <3>2, <3>3
  <2>4. CASE \E k \in PersonalKey : SignIn(c, k)
    <3>1. PICK k \in PersonalKey : BeginsCall(c, [NoCall EXCEPT !.op = "access", !.key = k])
      BY <2>4 DEF SignIn
    <3>2. CarriesKey([NoCall EXCEPT !.op = "access", !.key = k])
      BY AskedCalls
    <3>3. QED
      BY <1>2, <3>1, <3>2
  <2>5. QED
    BY <1>3, <2>1, <2>2, <2>3, <2>4
\* A call goes on or ends, and nothing else moves.
<1>4. ASSUME NEW c \in Caller, (\E step : GoesTo(c, step)) \/ EndsCall(c)
      PROVE  \A d \in Caller : Requests(d)'
  <2>1. keyCalls[c] \in CallRow /\ CarriesKey(keyCalls[c])
    BY <1>0 DEF Requests, CarriesKey
  <2>2. CASE EndsCall(c)
    BY <2>2, AskedCalls, CallsGoOn DEF EndsCall
  <2>3. ASSUME NEW step, GoesTo(c, step) PROVE \A d \in Caller : Requests(d)'
    <3>1. CarriesKey([keyCalls[c] EXCEPT !.step = step])
      BY <2>1, AskedCalls
    <3>2. CallBecomes(c, [keyCalls[c] EXCEPT !.step = step])
      BY <2>3 DEF GoesTo
    <3>3. QED
      BY <3>1, <3>2, CallsGoOn
  <2>4. QED
    BY <1>4, <2>2, <2>3
<1>5. ASSUME NEW c \in Caller, (\E step : GoesTo(c, step)) \/ EndsCall(c),
             UNCHANGED <<rows, allowed, personalKeys, usedRequests, callsBegun>>
      PROVE  KeysWithin'
  BY <1>4, <1>5 DEF KeysWithin, Requests
<1>6. ASSUME NEW c \in Caller, Permitted(c) \/ ManageKeys(c) \/ ReadAllowed(c) \/ ReadKey(c) \/ ReadMember(c)
                               \/ ReadAgain(c) \/ Authenticates(c) \/ Rejects(c)
      PROVE  KeysWithin'
  BY <1>5, <1>6 DEF Permitted, ManageKeys, ReadAllowed, ReadKey, ReadMember, ReadAgain, Authenticates, Rejects
<1>7. ASSUME NEW c \in Caller, AskCapabilities(c)
      PROVE  KeysWithin'
  <2>1. UNCHANGED <<rows, allowed, personalKeys, usedRequests, callsBegun>> /\ keyCalls[c].op = "access"
    BY <1>7 DEF AskCapabilities, AtStep
  <2>0. keyCalls[c] \in CallRow /\ CarriesKey(keyCalls[c])
    BY <1>0 DEF Requests, CarriesKey
  <2>2. PICK call : CallBecomes(c, call) /\ CarriesKey(call)
    <3>1. CASE allowed = "yes"
      <4>1. PICK known : CallBecomes(c, [keyCalls[c] EXCEPT !.step = "fresh", !.late = known])
        BY <1>7, <3>1 DEF AskCapabilities
      <4>2. CarriesKey([keyCalls[c] EXCEPT !.step = "fresh", !.late = known])
        BY <2>0, AskedCalls
      <4>3. QED
        BY <4>1, <4>2
    <3>2. CASE allowed # "yes"
      BY <1>7, <3>2, AskedCalls DEF AskCapabilities, EndsCall
    <3>3. QED
      BY <3>1, <3>2
  <2>3. \A d \in Caller : Requests(d)'
    BY <2>2, CallsGoOn
  <2>4. QED
    BY <2>1, <2>3 DEF KeysWithin, Requests
<1>8. ASSUME NEW c \in Caller, PutByMember(c)
      PROVE  KeysWithin'
  <2>1. keyCalls[c].expected \in Nat
    BY <1>0 DEF CallRow
  <2>2. \A e \in Entity : rows'[e].revision \in 1..MaxRow
    BY <1>8, <2>1, RowsWithin DEF PutByMember
  <2>3. \A d \in Caller : Requests(d)'
    BY <1>4, <1>8 DEF PutByMember
  <2>4. QED
    BY <1>8, <2>2, <2>3 DEF PutByMember, KeysWithin, Requests
<1>9. ASSUME NEW e \in Entity, NEW state, PutByHost(e, state)
      PROVE  KeysWithin'
  <2>1. rows[e].revision \in Nat
    BY <1>0
  <2>2. \A x \in Entity : rows'[x].revision \in 1..MaxRow
    BY <1>9, <2>1, RowsWithin DEF PutByHost
  <2>3. QED
    BY <1>9, <2>2 DEF PutByHost, KeysWithin
<1>10. ASSUME NEW c \in Caller, InsertKey(c)
       PROVE  KeysWithin'
  <2>1. keyCalls[c].op \in {"issue", "rotate"} /\ keyCalls[c].request \in KeyRequest
        /\ UNCHANGED <<rows, allowed, callsBegun>>
    BY <1>0, <1>10 DEF InsertKey, Requests
  <2>2. \A d \in Caller : Requests(d)'
    BY <1>4, <1>10 DEF InsertKey
  <2>3. CASE UNCHANGED <<personalKeys, usedRequests>>
    BY <2>1, <2>2, <2>3 DEF KeysWithin, Requests
  <2>4. ASSUME NEW k \in PersonalKey, usedRequests' = usedRequests \cup {keyCalls[c].request},
               personalKeys' = [x \in PersonalKey |->
                    CASE x = k -> [state |-> "live", root |-> IF keyCalls[c].op = "rotate"
                                                                THEN personalKeys[keyCalls[c].key].root
                                                                    ELSE k]
                      [] x # k /\ keyCalls[c].op = "rotate" /\ x = keyCalls[c].key -> [personalKeys[x] EXCEPT !.state = "revoked"]
                      [] OTHER -> personalKeys[x]]
        PROVE  KeysWithin'
    <3>1. keyCalls[c].op = "rotate" => keyCalls[c].key \in PersonalKey
      BY DEF KeysInv, Sign
    <3>2. k \in 0..MaxKeys /\ \A x \in PersonalKey : personalKeys[x].root \in 0..MaxKeys
      BY DEF PersonalKey, KeysWithin
    <3>3. ASSUME NEW x \in PersonalKey PROVE personalKeys'[x].root \in 0..MaxKeys
      <4>1. CASE x = k
        BY <2>1, <2>4, <3>1, <3>2, <4>1
      <4>2. CASE x # k /\ keyCalls[c].op = "rotate" /\ x = keyCalls[c].key
        <5>1. personalKeys'[x] = [personalKeys[x] EXCEPT !.state = "revoked"]
          BY <2>4, <4>2
        <5>2. personalKeys[x] \in [state : {"absent", "live", "expired", "revoked"}, root : Nat]
          BY <1>0
        <5>3. QED
          BY <3>2, <5>1, <5>2
      <4>3. CASE x # k /\ ~(keyCalls[c].op = "rotate" /\ x = keyCalls[c].key)
        BY <2>4, <3>2, <4>3
      <4>4. QED
        BY <4>1, <4>2, <4>3
    <3>4. QED
      BY <2>1, <2>2, <2>4, <3>3 DEF KeysWithin, Requests
  <2>5. QED
    BY <1>10, <2>3, <2>4 DEF InsertKey
<1>11. ASSUME NEW k \in PersonalKey, RevokeKey(k) \/ KeyExpires(k)
       PROVE  KeysWithin'
  <2>1. UNCHANGED <<rows, allowed, usedRequests, keyCalls, callsBegun>>
    BY <1>11 DEF RevokeKey, KeyExpires
  <2>2. PICK state : personalKeys' = [personalKeys EXCEPT ![k].state = state]
    BY <1>11 DEF RevokeKey, KeyExpires
  <2>3. \A x \in PersonalKey : personalKeys'[x].root = personalKeys[x].root
    BY <1>0, <2>2
  <2>4. QED
    BY <2>1, <2>3 DEF KeysWithin
<1>12. CASE PolicyChanges
  BY <1>12 DEF PolicyChanges, KeysWithin
<1>13. QED
  BY <1>1, <1>3, <1>6, <1>7, <1>8, <1>9, <1>10, <1>11, <1>12 DEF AccountsNext

LEMMA AccountTypes == KeysInv /\ KeysWithin => AccountsTypeOK
<1> SUFFICES ASSUME KeysInv, KeysWithin PROVE AccountsTypeOK
  OBVIOUS
<1>1. rows \in [Entity -> [state : {"active", "inactive"}, revision : 1..MaxRow]]
  <2>1. \A e \in Entity : rows[e] \in [state : {"active", "inactive"}, revision : 1..MaxRow]
    BY DEF KeysInv, KeyRows, KeysWithin
  <2>2. QED
    BY <2>1 DEF KeysInv, KeyRows
<1>2. personalKeys \in [PersonalKey -> [state : {"absent", "live", "expired", "revoked"}, root : 0..MaxKeys]]
  <2>1. \A k \in PersonalKey : personalKeys[k] \in [state : {"absent", "live", "expired", "revoked"}, root : 0..MaxKeys]
    BY DEF KeysInv, KeyRows, KeysWithin
  <2>2. QED
    BY <2>1 DEF KeysInv, KeyRows
<1>3. \A c \in Caller : keyCalls[c] \in CallRow
  BY DEF KeysInv, KeyRows
<1>4. QED
  BY <1>1, <1>2, <1>3 DEF CallRow, KeysWithin, AccountsTypeOK

HIDE AccountsAssumption
HIDE AccountsBounds
-----------------------------------------------------------------------------
USE ChannelsBounds

LEMMA ChannelsBegin == ChannelsInit => ChannelsWithin
  BY NoDeliveryRow DEF ChannelsInit, ChannelsWithin, NoDelivery

\* What a delivery has seen of the question.
SeenWithin(at) == at.seen \in 0..MaxQuestions /\ (at.step \in {"rebound", "enqueue"} => at.seen # 0)

LEMMA DeliveryWithin ==
  ASSUME ChannelInv, ChannelsWithin, NEW d \in Delivery, NEW at, DeliveryBecomes(d, at), SeenWithin(at)
  PROVE  /\ \A other \in Delivery : SeenWithin(deliveries'[other])
         /\ UNCHANGED <<boundTo, taskQuestion, rebinds>>
<1>1. deliveries' = [deliveries EXCEPT ![d] = at] /\ deliveries \in [Delivery -> DeliveryPosition]
  BY DEF DeliveryBecomes, ChannelInv, ChannelRows
<1>2. QED
  BY <1>1 DEF DeliveryBecomes, ChannelsWithin, SeenWithin

\* A delivery moves, and neither answers nor replies.
LEMMA DeliveryKeeps ==
  ASSUME ChannelInv, ChannelsWithin, NEW d \in Delivery, NEW at, DeliveryBecomes(d, at), SeenWithin(at),
         UNCHANGED <<answered, replies>>, deliveriesBegun' \in 0..MaxDeliveries
  PROVE  ChannelsWithin'
  BY DeliveryWithin DEF ChannelsWithin, SeenWithin

LEMMA ChannelsKeepWithin ==
  ASSUME ChannelInv, ChannelsWithin, [ChannelsNext]_channelVars
  PROVE  ChannelsWithin'
<1>0. /\ ChannelRows /\ deliveriesBegun \in 0..MaxDeliveries
      /\ \A d \in Delivery : deliveries[d] \in DeliveryPosition /\ SeenWithin(deliveries[d])
  BY DEF ChannelInv, ChannelRows, ChannelsWithin, SeenWithin
<1>1. CASE UNCHANGED channelVars
  BY <1>1 DEF channelVars, ChannelsWithin
<1>2. ASSUME NEW i, Rebind(i) PROVE ChannelsWithin'
  BY <1>2 DEF Rebind, ChannelsWithin
<1>3. CASE AsksAgain
  <2>1. taskQuestion.number < MaxQuestions /\ taskQuestion'.number = taskQuestion.number + 1
    BY <1>3 DEF AsksAgain
  <2>2. QED
    BY <1>3, <2>1 DEF AsksAgain, ChannelsWithin
<1>4. SeenWithin(NoDelivery)
  BY DEF NoDelivery, SeenWithin
<1>5. ASSUME NEW d \in Delivery, DeliveryBecomes(d, NoDelivery) \/ \E step \in {"execute", "invoke", "complete", "publish"} : DeliveryStep(d, step),
             UNCHANGED <<answered, replies>>, UNCHANGED deliveriesBegun
      PROVE  ChannelsWithin'
  <2>1. \A step \in {"execute", "invoke", "complete", "publish"} : SeenWithin([deliveries[d] EXCEPT !.step = step])
    BY <1>0 DEF SeenWithin, DeliveryPosition
  <2>2. QED
    BY <1>0, <1>4, <1>5, <2>1, DeliveryKeeps DEF DeliveryStep
<1>6. ASSUME NEW d \in Delivery, NEW m \in ChannelMessage, ReceiveMessage(d, m) \/ PublishAgain(d, m) PROVE ChannelsWithin'
  <2>1. \/ DeliveryBecomes(d, [NoDelivery EXCEPT !.step = "record", !.message = m, !.identity = boundTo])
        \/ DeliveryBecomes(d, [NoDelivery EXCEPT !.step = "publish", !.message = m])
    BY <1>6 DEF ReceiveMessage, PublishAgain
  <2>2. /\ SeenWithin([NoDelivery EXCEPT !.step = "record", !.message = m, !.identity = boundTo])
        /\ SeenWithin([NoDelivery EXCEPT !.step = "publish", !.message = m])
    BY DEF NoDelivery, SeenWithin
  <2>3. UNCHANGED <<answered, replies>> /\ deliveriesBegun' \in 0..MaxDeliveries
    BY <1>0, <1>6 DEF ReceiveMessage, PublishAgain
  <2>4. QED
    BY <2>1, <2>2, <2>3, DeliveryKeeps
<1>7. ASSUME NEW d \in Delivery, RecordEvent(d) \/ BindAgain(d) \/ InvokeWork(d) \/ CompleteEvent(d) \/ DeliveryFails(d)
      PROVE  ChannelsWithin'
  <2>1. UNCHANGED <<answered, replies>> /\ UNCHANGED deliveriesBegun
    BY <1>7 DEF RecordEvent, BindAgain, InvokeWork, CompleteEvent, DeliveryFails
  <2>2. DeliveryBecomes(d, NoDelivery) \/ \E step \in {"execute", "invoke", "complete", "publish"} : DeliveryStep(d, step)
    BY <1>7 DEF RecordEvent, BindAgain, InvokeWork, CompleteEvent, DeliveryFails
  <2>3. QED
    BY <1>5, <2>1, <2>2
<1>8. ASSUME NEW d \in Delivery, BindForPublish(d) \/ ReadForPublish(d) \/ BindToSend(d) PROVE ChannelsWithin'
  <2>1. UNCHANGED <<answered, replies>> /\ UNCHANGED deliveriesBegun
    BY <1>8 DEF BindForPublish, ReadForPublish, BindToSend
  <2>2. PICK at : DeliveryBecomes(d, at) /\ SeenWithin(at)
    <3>1. CASE BindForPublish(d)
      <4>1. SeenWithin([deliveries[d] EXCEPT !.step = "read", !.identity = boundTo])
        BY <1>0 DEF SeenWithin, DeliveryPosition
      <4>2. QED
        BY <1>4, <3>1, <4>1 DEF BindForPublish
    <3>2. CASE ReadForPublish(d)
      <4>1. taskQuestion.number \in 1..MaxQuestions
        BY DEF ChannelsWithin
      <4>2. SeenWithin([deliveries[d] EXCEPT !.step = "rebound", !.seen = taskQuestion.number])
        BY <1>0, <4>1 DEF SeenWithin, DeliveryPosition
      <4>3. QED
        BY <1>4, <3>2, <4>2 DEF ReadForPublish
    <3>3. CASE BindToSend(d)
      <4>1. SeenWithin([deliveries[d] EXCEPT !.step = "enqueue"])
        BY <1>0, <3>3 DEF SeenWithin, DeliveryPosition, BindToSend, AtDelivery
      <4>2. QED
        BY <1>4, <3>3, <4>1 DEF BindToSend, DeliveryStep
    <3>4. QED
      BY <1>8, <3>1, <3>2, <3>3
  <2>3. QED
    BY <1>0, <2>1, <2>2, DeliveryKeeps
<1>9. ASSUME NEW d \in Delivery, InvokeReply(d) PROVE ChannelsWithin'
  <2>1. deliveries' = [deliveries EXCEPT ![d].step = "complete"] /\ UNCHANGED <<boundTo, replies, rebinds, deliveriesBegun>>
    BY <1>9 DEF InvokeReply
  <2>2. \A other \in Delivery : SeenWithin(deliveries'[other])
    BY <1>0, <2>1 DEF SeenWithin, DeliveryPosition, ChannelRows
  <2>3. taskQuestion \in [number : Nat, state : {"asked", "answered"}] /\ taskQuestion.number \in 1..MaxQuestions
    BY <1>0 DEF ChannelRows, ChannelsWithin
  <2>4. taskQuestion'.number = taskQuestion.number
    BY <1>9, <2>3 DEF InvokeReply
  <2>5. \A m \in ChannelMessage : answered'[m] \subseteq 1..MaxQuestions
    BY <1>0, <1>9, <2>3 DEF InvokeReply, ChannelRows, ChannelsWithin
  <2>6. QED
    BY <2>1, <2>2, <2>4, <2>5 DEF ChannelsWithin, SeenWithin
<1>10. ASSUME NEW d \in Delivery, EnqueueReply(d) PROVE ChannelsWithin'
  <2>1. UNCHANGED <<answered, deliveriesBegun>> /\ DeliveryBecomes(d, NoDelivery)
    BY <1>10 DEF EnqueueReply
  <2>2. deliveries[d].step = "enqueue" /\ DeliveryStands(d) /\ SeenWithin(deliveries[d]) /\ deliveries[d] \in DeliveryPosition
    BY <1>0, <1>10 DEF EnqueueReply, AtDelivery, ChannelInv
  <2>3. PICK m \in ChannelMessage : m = deliveries[d].message
    BY <2>2 DEF DeliveryStands, DeliveryGoes
  <2>4. channelInbox[m].identity = deliveries[d].identity /\ channelInbox[m].result = "task" /\ EventStands(m)
    BY <2>2, <2>3 DEF DeliveryStands, DeliveryGoes, ChannelInv
  <2>5. deliveries[d].identity \in Identity /\ deliveries[d].seen \in 1..MaxQuestions
    BY <2>2, <2>4 DEF EventStands, EventWorks, DeliveryPosition, SeenWithin
  <2>6. replies' \subseteq [message : ChannelMessage, identity : Identity, seen : 1..MaxQuestions]
    BY <1>10, <2>3, <2>5 DEF EnqueueReply, ChannelsWithin
  <2>7. QED
    BY <1>4, <2>1, <2>6, DeliveryWithin DEF ChannelsWithin, SeenWithin
<1>11. QED
  BY <1>1, <1>2, <1>3, <1>6, <1>7, <1>8, <1>9, <1>10 DEF ChannelsNext

LEMMA ChannelTypes == ChannelInv /\ ChannelsWithin => ChannelsTypeOK
<1> SUFFICES ASSUME ChannelInv, ChannelsWithin PROVE ChannelsTypeOK
  OBVIOUS
<1>1. answered \in [ChannelMessage -> SUBSET (1..MaxQuestions)]
  BY DEF ChannelInv, ChannelRows, ChannelsWithin
<1>2. taskQuestion \in [number : 1..MaxQuestions, state : {"asked", "answered"}]
  BY DEF ChannelInv, ChannelRows, ChannelsWithin
<1>3. \A d \in Delivery : deliveries[d] \in DeliveryPosition
  BY DEF ChannelInv, ChannelRows
<1>4. QED
  BY <1>1, <1>2, <1>3 DEF ChannelInv, ChannelRows, ChannelsWithin, DeliveryPosition, ChannelsTypeOK

HIDE ChannelsBounds
-----------------------------------------------------------------------------
LEMMA DeploymentsBegin == DeploymentsInit => ActivationWithin
  BY DEF DeploymentsInit, ActivationWithin

LEMMA ActivationKeeps ==
  ASSUME DeployInv, ActivationWithin, [DeploymentsNext]_deploymentVars
  PROVE  ActivationWithin'
<1>0. DeployRows /\ lastContainer \in Nat /\ (activation # NoContainer => activation.id \in Nat)
  BY DeploymentsAssumption DEF DeployInv, DeployRows, ActivationRow, ContainerId
<1>1. ASSUME UNCHANGED <<adapter, activation>>, lastContainer' \in {lastContainer, lastContainer + 1}
      PROVE  ActivationWithin'
  BY <1>0, <1>1 DEF ActivationWithin
<1>2. CASE UNCHANGED deploymentVars
  BY <1>1, <1>2 DEF deploymentVars
<1>3. CASE RemoveContainer
  BY <1>1, <1>3 DEF RemoveContainer
<1>4. ASSUME NEW p \in Deployer,
             \/ \E build \in Build : BeginDeploy(p, build)
             \/ Inspect(p) \/ ReadActivation(p) \/ LookForPrior(p) \/ CreateContainer(p) \/ ConfirmCreated(p)
             \/ InspectAgain(p) \/ StartContainer(p) \/ StopDeployment(p) \/ DeployBreaks(p)
      PROVE  ActivationWithin'
  <2>1. UNCHANGED <<adapter, activation>> /\ lastContainer' \in {lastContainer, lastContainer + 1}
    BY <1>4 DEF BeginDeploy, Inspect, ReadActivation, LookForPrior, CreateContainer, ConfirmCreated, InspectAgain,
         StartContainer, StopDeployment, DeployBreaks, CallOnly, DockerOnly
  <2>2. QED
    BY <1>1, <2>1
<1>5. ASSUME NEW p \in Deployer, ClaimActivation(p) PROVE ActivationWithin'
  <2>1. deployers[p].step = "claim" /\ UNCHANGED <<adapter, lastContainer>>
    BY <1>5 DEF ClaimActivation
  <2>2. deployers[p] # NoDeploy
    BY <2>1, NoDeployRow
  <2>3. adapter = "recoverable" /\ deployers[p].receipt # NoContainer
    BY <1>0, <2>1, <2>2 DEF DeployInv, DeployRows, StepsFit, StandsAt
  <2>4. deployers[p].receipt.id <= lastContainer
    BY <2>2, <2>3 DEF DeployInv, ContainersInOrder
  <2>5. activation' = activation \/ activation' = [id |-> deployers[p].receipt.id, build |-> deployers[p].build]
    BY <1>5 DEF ClaimActivation
  <2>6. QED
    BY <2>1, <2>3, <2>4, <2>5 DEF ActivationWithin
<1>6. QED
  BY <1>2, <1>3, <1>4, <1>5 DEF DeploymentsNext

LEMMA DeploymentTypes == DeployInv /\ ActivationWithin => DeploymentsTypeOK
  BY DeploymentsAssumption DEF DeployInv, DeployRows, ContainersInOrder, ActivationWithin, ContainerRow, ActivationRow,
       DeployerRow, ContainerId, DeploymentsTypeOK
-----------------------------------------------------------------------------
LEMMA EvaluationTypes == EvaluationInv => EvaluationsTypeOK
<1> SUFFICES ASSUME EvaluationInv PROVE EvaluationsTypeOK
  OBVIOUS
<1>1. ASSUME NEW c \in Case, runRecords[c] # NoRecord PROVE runRecords[c].score \in 0..MaxScore
  BY <1>1 DEF EvaluationInv, EvaluationRows, GradeRow
<1>2. QED
  BY <1>1 DEF EvaluationInv, EvaluationRows, EvaluationsTypeOK
-----------------------------------------------------------------------------
USE KnowledgeAssumption
USE KnowledgeBounds

LEMMA KnowledgeBegins == KnowledgeInit => KnowledgeWithin
  BY NoIngestionRow DEF KnowledgeInit, KnowledgeWithin, Ingested, IngestionRow

\* What is being replaced with was read upstream.
Genuine(p) == ingestions[p] \in ToReplace => ingestions[p].snapshot.version >= 1

LEMMA IngestionKeeps ==
  ASSUME KnowledgeInv, KnowledgeWithin, NEW p \in Ingestor, NEW call, IngestionBecomes(p, call),
         call \in ToReplace => call.snapshot.version >= 1
  PROVE  upstream' = upstream /\ \A q \in Ingestor : Genuine(q)'
<1>1. ingestions' = [ingestions EXCEPT ![p] = call] /\ ingestions \in [Ingestor -> IngestionRow] /\ upstream' = upstream
  BY DEF IngestionBecomes, KnowledgeInv, KnowledgeRows
<1>2. QED
  BY <1>1 DEF KnowledgeWithin, Genuine

\* Erased: the row has a revision more and shows nothing.
LEMMA ErasedKeeps ==
  ASSUME KnowledgeInv, KnowledgeWithin, Ingested, source' = Erased, erasures' = erasures + 1,
         UNCHANGED <<ingested, upstream>>, \A q \in Ingestor : Genuine(q)'
  PROVE  KnowledgeWithin'
<1>1. KnowledgeRows /\ source.revision \in Nat /\ source.revision <= MaxIngested /\ erasures \in Nat /\ Len(ingested) \in Nat
      /\ source.revision = Len(ingested) + erasures
  BY DEF KnowledgeInv, KnowledgeRows, KnowledgeWithin, SourceRow
<1>2. source'.revision = source.revision + 1 /\ ~Ingested'
  BY DEF Erased, Ingested
<1>3. QED
  BY <1>1, <1>2 DEF KnowledgeWithin, Genuine

LEMMA KnowledgeKeepsWithin ==
  ASSUME KnowledgeInv, KnowledgeWithin, [KnowledgeNext]_knowledgeVars
  PROVE  KnowledgeWithin'
<1>0. /\ KnowledgeRows /\ upstream \in Snapshot /\ source \in SourceRow /\ erasures \in Nat /\ Len(ingested) \in Nat
      /\ \A q \in Ingestor : Genuine(q) /\ ingestions[q] \in IngestionRow
  BY DEF KnowledgeInv, KnowledgeRows, KnowledgeWithin, Genuine
<1>1. CASE UNCHANGED knowledgeVars
  BY <1>1 DEF knowledgeVars, KnowledgeWithin, Ingested
<1>2. CASE UpstreamChanges
  <2>1. upstream'.version \in {upstream.version, upstream.version + 1} /\ UNCHANGED <<source, ingestions, erasures, ingested>>
    BY <1>0, <1>2 DEF UpstreamChanges, Snapshot
  <2>2. upstream.version \in Nat /\ (Ingested => source.chunks.version \in Nat)
    BY <1>0 DEF Snapshot, SourceRow, Ingested
  <2>3. QED
    BY <2>1, <2>2 DEF KnowledgeWithin, Ingested
<1>3. CASE WithdrawSource
  <2>1. \A q \in Ingestor : Genuine(q)'
    BY <1>0, <1>3 DEF WithdrawSource, Genuine
  <2>2. QED
    BY <1>3, <2>1, ErasedKeeps DEF WithdrawSource
<1>4. CASE ExpiryPasses
  <2>1. source'.revision = source.revision /\ source'.chunks = source.chunks
    BY <1>0, <1>4 DEF ExpiryPasses, SourceRow
  <2>2. QED
    BY <1>4, <2>1 DEF ExpiryPasses, KnowledgeWithin, Ingested
<1>5. ASSUME NEW p \in Ingestor, NEW call, IngestionBecomes(p, call), call \in ToReplace => call.snapshot.version >= 1,
             UNCHANGED <<source, erasures, ingested>>
      PROVE  KnowledgeWithin'
  BY <1>5, IngestionKeeps DEF KnowledgeWithin, Ingested, Genuine
<1>6. ASSUME NEW p \in Ingestor, BeginSync(p) \/ ListExpired(p) \/ IngestionBreaks(p) PROVE KnowledgeWithin'
  <2>1. PICK call : IngestionBecomes(p, call) /\ call.step \in {"resolve", "expire", "idle"}
    <3>1. CASE BeginSync(p)
      BY <3>1 DEF BeginSync, IngestBegins
    <3>2. CASE ListExpired(p)
      BY <3>2 DEF ListExpired, IngestBegins
    <3>3. CASE IngestionBreaks(p)
      BY <3>3 DEF IngestionBreaks, IngestionOnly, NoIngestion
    <3>4. QED
      BY <1>6, <3>1, <3>2, <3>3
  <2>2. call \notin ToReplace
    BY <2>1 DEF ToReplace
  <2>3. UNCHANGED <<source, erasures, ingested>>
    BY <1>6 DEF BeginSync, ListExpired, IngestionBreaks, IngestBegins, IngestionOnly
  <2>4. QED
    BY <1>5, <2>1, <2>2, <2>3
<1>7. ASSUME NEW p \in Ingestor, ResolveUpstream(p) PROVE KnowledgeWithin'
  <2>1. upstream.version >= 1
    BY DEF KnowledgeWithin
  <2>2. PICK call : IngestionBecomes(p, call) /\ call.snapshot = upstream
    BY <1>7 DEF ResolveUpstream, IngestionOnly
  <2>3. UNCHANGED <<source, erasures, ingested>>
    BY <1>7 DEF ResolveUpstream, IngestionOnly
  <2>4. QED
    BY <1>5, <2>1, <2>2, <2>3
<1>8. NoIngestion \notin ToReplace
  BY NoIngestionRow
<1>9. ASSUME NEW p \in Ingestor, ReplaceSource(p) PROVE KnowledgeWithin'
  <2>1. IngestionBecomes(p, NoIngestion) /\ UNCHANGED erasures
    BY <1>9 DEF ReplaceSource
  <2>2. CASE UNCHANGED <<source, ingested>>
    BY <1>5, <1>8, <2>1, <2>2
  <2>3. CASE ~UNCHANGED <<source, ingested>>
    <3>1. PICK call \in IngestionRow : call = ingestions[p]
      BY <1>0
    <3>2. call.step = "replace"
      BY <1>9, <3>1 DEF ReplaceSource
    <3>3. call \in ToReplace
      BY <3>1, <3>2 DEF IngestionRow, NoIngestion, ToResolve, ToExpire
    <3>4. call.snapshot.version >= 1 /\ call.snapshot.version <= upstream.version /\ call.snapshot \in Snapshot
      BY <1>0, <3>1, <3>3 DEF Genuine, KnowledgeInv, Fits, CallFits, ToReplace
    <3>5. PICK install : /\ source' = [revision |-> source.revision + 1, chunks |-> call.snapshot, due |-> "no"]
                         /\ ingested' = Append(ingested, install) /\ source.revision < MaxIngested
      <4>1. DEFINE row == [revision |-> source.revision + 1, chunks |-> ingestions[p].snapshot, due |-> "no"]
                   entry == [of |-> ingestions[p].snapshot, since |-> ingestions[p].since, after |-> erasures]
      <4>2. \/ UNCHANGED <<source, ingested>>
            \/ source' = row /\ ingested' = Append(ingested, entry) /\ ~(source.revision >= MaxIngested)
        BY <1>9 DEF ReplaceSource
      <4>3. source.revision \in Nat /\ MaxIngested \in Nat
        BY <1>0 DEF SourceRow
      <4> HIDE DEF entry
      <4>4. QED
        BY <2>3, <3>1, <4>2, <4>3
    <3>6. Len(ingested') = Len(ingested) + 1
      BY <1>0, <3>5 DEF KnowledgeRows
    <3>7. source'.revision = source.revision + 1 /\ source'.chunks = call.snapshot
      BY <3>5
    <3>8. upstream' = upstream /\ \A q \in Ingestor : Genuine(q)'
      BY <1>8, <2>1, IngestionKeeps
    <3>9. source.revision \in Nat /\ source.revision = Len(ingested) + erasures /\ upstream.version >= 1
          /\ upstream.version \in Nat /\ call.snapshot.version \in Nat
      BY <1>0, <3>4 DEF SourceRow, KnowledgeWithin, Snapshot
    <3>10. call.snapshot # NoChunks
      BY <3>4, KnowledgeAssumption DEF Snapshot
    <3>11. QED
      BY <1>0, <2>1, <3>4, <3>5, <3>6, <3>7, <3>8, <3>9, <3>10 DEF KnowledgeWithin, Ingested, Genuine
  <2>4. QED
    BY <2>2, <2>3
<1>10. ASSUME NEW p \in Ingestor, ExpireSource(p) PROVE KnowledgeWithin'
  <2>1. IngestionBecomes(p, NoIngestion) /\ UNCHANGED ingested
    BY <1>10 DEF ExpireSource
  <2>2. CASE UNCHANGED <<source, erasures>>
    BY <1>5, <1>8, <2>1, <2>2
  <2>3. CASE Ingested /\ source' = Erased /\ erasures' = erasures + 1
    <3>1. upstream' = upstream /\ \A q \in Ingestor : Genuine(q)'
      BY <1>8, <2>1, IngestionKeeps
    <3>2. QED
      BY <2>1, <2>3, <3>1, ErasedKeeps
  <2>4. QED
    BY <1>10, <2>2, <2>3 DEF ExpireSource
<1>11. QED
  BY <1>1, <1>2, <1>3, <1>4, <1>6, <1>7, <1>9, <1>10 DEF KnowledgeNext

LEMMA KnowledgeTypes == KnowledgeInv /\ KnowledgeWithin => KnowledgeTypeOK
<1> SUFFICES ASSUME KnowledgeInv, KnowledgeWithin PROVE KnowledgeTypeOK
  OBVIOUS
<1>1. source.revision \in 0..(MaxIngested + 1)
  BY DEF KnowledgeInv, KnowledgeRows, KnowledgeWithin, SourceRow
<1>2. ASSUME NEW p \in Ingestor PROVE ingestions[p].step \in {"idle", "resolve", "replace", "expire"}
  <2>1. ingestions[p] \in IngestionRow
    BY DEF KnowledgeInv, KnowledgeRows
  <2>2. QED
    BY <2>1 DEF IngestionRow, NoIngestion, ToResolve, ToReplace, ToExpire
<1>3. QED
  BY <1>1, <1>2 DEF KnowledgeWithin, KnowledgeTypeOK

HIDE KnowledgeAssumption
HIDE KnowledgeBounds
-----------------------------------------------------------------------------
USE PapersAssumption
USE PapersBounds

LEMMA PapersBegin == PapersInit => PapersWithin
  BY PaperKinds DEF PapersInit, PapersWithin, NoDocument

PaperWithin(paper) == paper \in ReviewCall => paper.record.on \in 1..MaxArtifact

\* A call moves to another step with the record it has, or ends.
LEMMA PaperKeeps ==
  ASSUME PapersInv, PapersWithin, NEW p \in Peer, NEW paper, PaperBecomes(p, paper), PaperWithin(paper)
  PROVE  readable' = readable /\ \A q \in Peer : PaperWithin(papers'[q])
<1>1. papers' = [papers EXCEPT ![p] = paper] /\ papers \in [Peer -> {NoPaper} \cup ReviewCall \cup PlanCall]
      /\ readable' = readable
  BY DEF PaperBecomes, PapersInv, PaperRows
<1>2. QED
  BY <1>1 DEF PapersWithin, PaperWithin

LEMMA PaperSteps ==
  ASSUME PapersInv, PapersWithin, NEW p \in Peer, RefusesPaper(p) \/ \E step : PaperStep(p, step)
  PROVE  readable' = readable /\ \A q \in Peer : PaperWithin(papers'[q])
<1>1. PICK old \in {NoPaper} \cup ReviewCall \cup PlanCall : old = papers[p] /\ PaperWithin(old)
  BY DEF PapersInv, PaperRows, PapersWithin, PaperWithin
<1>2. CASE RefusesPaper(p)
  BY <1>2, PaperKinds, PaperKeeps DEF RefusesPaper, PaperWithin
<1>3. ASSUME NEW step, PaperStep(p, step)
      PROVE  readable' = readable /\ \A q \in Peer : PaperWithin(papers'[q])
  <2> DEFINE next == [old EXCEPT !.step = step]
  <2>1. PaperBecomes(p, next)
    BY <1>1, <1>3 DEF PaperStep
  <2>2. PaperWithin(next)
    <3>1. CASE old \in ReviewCall
      BY <1>1, <3>1 DEF PaperWithin, ReviewCall
    <3>2. CASE old \in PlanCall \cup {NoPaper}
      <4>1. DOMAIN next = DOMAIN old /\ "id" \notin DOMAIN old
        BY <3>2 DEF PlanCall, NoPaper
      <4>2. next \notin ReviewCall
        BY <4>1 DEF ReviewCall
      <4>3. QED
        BY <4>2 DEF PaperWithin
    <3>3. QED
      BY <1>1, <3>1, <3>2
  <2> HIDE DEF next
  <2>3. QED
    BY <2>1, <2>2, PaperKeeps
<1>4. QED
  BY <1>2, <1>3

LEMMA PapersKeepWithin ==
  ASSUME PapersInv, PapersWithin, [PapersNext]_paperVars
  PROVE  PapersWithin'
<1>0. taskPlan \in Nat /\ \A q \in Peer : PaperWithin(papers[q])
  BY DEF PapersInv, PaperRows, PapersWithin, PaperWithin
<1>1. CASE UNCHANGED paperVars
  BY <1>1 DEF paperVars, PapersWithin
<1>2. CASE PolicyFlips \/ PlannedTaskEnds
  BY <1>2 DEF PolicyFlips, PlannedTaskEnds, PaperMishap, PapersWithin
<1>3. ASSUME NEW p \in Peer, NEW paper, BeginPaper(p, paper), PaperWithin(paper) PROVE PapersWithin'
  <2>1. PaperBecomes(p, paper) /\ UNCHANGED <<reviews, taskPlan, paperMishaps>>
    BY <1>3 DEF BeginPaper
  <2>2. QED
    BY <1>3, <2>1, PaperKeeps DEF PapersWithin, PaperWithin
<1>4. ASSUME NEW p \in Peer, NEW i \in ReviewId, NEW on \in 1..MaxArtifact, NEW says \in Findings,
             NEW previous \in ReviewId \cup {NoReview}, BeginReview(p, i, on, says, previous)
      PROVE  PapersWithin'
  BY <1>3, <1>4 DEF BeginReview, PaperWithin
<1>5. ASSUME NEW p \in Peer, NEW expected \in 0..MaxPlan, BeginPlan(p, expected) PROVE PapersWithin'
  <2>1. [step |-> "preflight", expected |-> expected] \notin ReviewCall
    BY DEF ReviewCall
  <2>2. QED
    BY <1>3, <1>5, <2>1 DEF BeginPlan, PaperWithin
\* Steps that write neither a review nor the plan.
<1>6. ASSUME NEW p \in Peer, BreaksPaper(p) \/ ReadTarget(p) \/ ReadPrevious(p) \/ AnswerReview(p) \/ Preflight(p) \/ CheckPlan(p)
      PROVE  PapersWithin'
  <2>1. RefusesPaper(p) \/ \E step : PaperStep(p, step)
    BY <1>6 DEF BreaksPaper, ReadTarget, ReadPrevious, AnswerReview, Preflight, CheckPlan
  <2>2. UNCHANGED <<reviews, taskPlan>> /\ (UNCHANGED paperMishaps \/ PaperMishap)
    BY <1>6 DEF BreaksPaper, ReadTarget, ReadPrevious, AnswerReview, Preflight, CheckPlan, PapersSteady
  <2>3. readable' = readable /\ \A q \in Peer : PaperWithin(papers'[q])
    BY <2>1, PaperSteps
  <2>4. QED
    BY <2>2, <2>3 DEF PapersWithin, PaperMishap, PaperWithin
<1>7. ASSUME NEW p \in Peer, PutReview(p) PROVE PapersWithin'
  <2>1. RefusesPaper(p) \/ \E step : PaperStep(p, step)
    BY <1>7 DEF PutReview
  <2>2. readable' = readable /\ \A q \in Peer : PaperWithin(papers'[q])
    BY <2>1, PaperSteps
  <2>3. PICK paper \in {NoPaper} \cup ReviewCall \cup PlanCall : paper = papers[p] /\ PaperWithin(paper)
    BY <1>0 DEF PapersInv, PaperRows
  <2>4. paper.step = "write" /\ (UNCHANGED reviews \/ reviews' = [reviews EXCEPT ![paper.id] = paper.record])
    BY <1>7, <2>3 DEF PutReview
  <2>5. paper \in ReviewCall
    BY <2>3, <2>4 DEF NoPaper, PlanCall
  <2>6. paper.record.on \in 0..MaxArtifact
    BY <2>3, <2>5 DEF PaperWithin
  <2>7. reviews \in [ReviewId -> {NoDocument} \cup ReviewRecord]
    BY DEF PapersInv, PaperRows
  <2>8. \A i \in ReviewId : reviews'[i].on \in 0..MaxArtifact
    BY <2>4, <2>6, <2>7 DEF PapersWithin
  <2>9. QED
    BY <1>7, <2>2, <2>8 DEF PutReview, PapersWithin, PaperWithin
<1>8. ASSUME NEW p \in Peer, WritePlan(p) PROVE PapersWithin'
  <2>1. readable' = readable /\ \A q \in Peer : PaperWithin(papers'[q])
    BY <1>8, PaperSteps DEF WritePlan
  <2>2. QED
    BY <1>0, <1>8, <2>1 DEF WritePlan, PapersWithin, PaperWithin
<1>9. QED
  BY <1>1, <1>2, <1>4, <1>5, <1>6, <1>7, <1>8 DEF PapersNext

LEMMA PaperTypes == PapersInv /\ PapersWithin => PapersTypeOK
<1> SUFFICES ASSUME PapersInv, PapersWithin PROVE PapersTypeOK
  OBVIOUS
<1>1. ASSUME NEW p \in Peer
      PROVE  papers[p].step \in {"idle", "target", "previous", "write", "answer", "preflight", "check", "replace"}
  <2>1. papers[p] \in {NoPaper} \cup ReviewCall \cup PlanCall
    BY DEF PapersInv, PaperRows
  <2>2. QED
    BY <2>1 DEF NoPaper, ReviewCall, PlanCall
<1>2. ASSUME NEW i \in ReviewId PROVE reviews[i].reviewer \in Peer \cup {Author}
  <2>1. reviews[i] \in {NoDocument} \cup ReviewRecord
    BY DEF PapersInv, PaperRows
  <2>2. QED
    BY <2>1 DEF NoDocument, ReviewRecord
<1>3. QED
  BY <1>1, <1>2 DEF PapersInv, PaperRows, PapersWithin, PapersTypeOK

HIDE PapersAssumption
HIDE PapersBounds
-----------------------------------------------------------------------------
USE RegistryBounds

LEMMA RegistryBegins == RegistryInit => RegistryWithin
  BY DEF RegistryInit, RegistryWithin, Silence

LEMMA RegistryKeepsWithin ==
  ASSUME RegistryInv, RegistryWithin, [RegistryNext]_registryVars
  PROVE  RegistryWithin'
<1>0. presence \in Signal /\ serving \in [Server -> [generation : Nat, sequence : Nat]] /\ reports \subseteq Report
  BY DEF RegistryInv, RegistryRows
<1>1. CASE UNCHANGED registryVars
  BY <1>1 DEF registryVars, RegistryWithin
<1>2. ASSUME NEW boundary \in Boundary, NEW described \in Described, Register(boundary, described) PROVE RegistryWithin'
  <2>1. UNCHANGED <<presence, serving, reports>>
    BY <1>2 DEF Register
  <2>2. CASE registered = NotRegistered
    BY <1>2, <2>1, <2>2 DEF Register, RegistryWithin
  <2>3. CASE registered # NotRegistered
    <3>1. PICK row \in [boundary : Boundary, described : Described, revision : 1..MaxRegistered] : row = registered
      BY <2>3 DEF RegistryWithin
    <3>2. registered' = [row EXCEPT !.described = described, !.revision = row.revision + 1] /\ row.revision < MaxRegistered
      <4>1. /\ registered' = [registered EXCEPT !.described = described, !.revision = registered.revision + 1]
            /\ registered.revision < MaxRegistered
        BY <1>2, <2>3 DEF Register
      <4>2. QED
        BY <3>1, <4>1
    <3>3. row.revision + 1 \in 1..MaxRegistered
      BY <3>2
    <3>4. registered' \in [boundary : Boundary, described : Described, revision : 1..MaxRegistered]
      BY <3>2, <3>3
    <3>5. QED
      BY <2>1, <3>4 DEF RegistryWithin
  <2>4. QED
    BY <2>2, <2>3
<1>3. ASSUME NEW p \in Server, StartExecutor(p) PROVE RegistryWithin'
  <2>1. presence.generation < MaxGeneration /\ UNCHANGED <<registered, reports>>
        /\ presence' = [generation |-> presence.generation + 1, sequence |-> 0, state |-> "unknown", valid |-> "never"]
        /\ serving' \in {serving, [serving EXCEPT ![p] = [generation |-> presence.generation + 1, sequence |-> 0]]}
    BY <1>3 DEF StartExecutor
  <2>2. presence.generation \in Nat /\ presence'.generation = presence.generation + 1 /\ presence'.sequence = 0
    BY <1>0, <2>1 DEF Signal
  <2>3. ASSUME NEW q \in Server PROVE serving'[q].generation <= presence'.generation /\ serving'[q].sequence \in 0..MaxReports
    <3>1. serving[q].generation <= presence.generation /\ serving[q].generation \in Nat /\ serving[q].sequence \in 0..MaxReports
      BY <1>0 DEF RegistryWithin
    <3>2. serving'[q] = serving[q] \/ serving'[q] = [generation |-> presence.generation + 1, sequence |-> 0]
      BY <1>0, <2>1
    <3>3. QED
      BY <2>2, <3>1, <3>2
  <2>4. QED
    BY <2>1, <2>2, <2>3 DEF RegistryWithin
<1>4. ASSUME NEW p \in Server, NEW state \in ReportState, SendReport(p, state) PROVE RegistryWithin'
  <2>1. PICK held \in [generation : Nat, sequence : Nat] : held = serving[p]
    BY <1>0
  <2>2. /\ held.sequence < MaxReports /\ UNCHANGED <<registered, presence>>
        /\ serving' = [serving EXCEPT ![p] = [held EXCEPT !.sequence = held.sequence + 1]]
        /\ reports' = reports \cup {[generation |-> held.generation, sequence |-> held.sequence + 1, state |-> state]}
    BY <1>0, <1>4, <2>1 DEF SendReport
  <2>3. ASSUME NEW q \in Server PROVE serving'[q].generation <= presence.generation /\ serving'[q].sequence \in 0..MaxReports
    <3>1. serving[q].generation <= presence.generation /\ serving[q].sequence \in 0..MaxReports
      BY DEF RegistryWithin
    <3>2. CASE q = p
      BY <1>0, <2>1, <2>2, <3>1, <3>2
    <3>3. CASE q # p
      BY <1>0, <2>2, <3>1, <3>3
    <3>4. QED
      BY <3>2, <3>3
  <2>4. \A report \in reports' : report.sequence \in 0..MaxReports
    BY <2>1, <2>2 DEF RegistryWithin
  <2>5. QED
    BY <2>2, <2>3, <2>4 DEF RegistryWithin
<1>5. ASSUME NEW report \in reports, Heartbeat(report) PROVE RegistryWithin'
  <2>1. /\ report.generation = presence.generation /\ UNCHANGED <<registered, serving, reports>>
        /\ presence' = [generation |-> report.generation, sequence |-> report.sequence, state |-> report.state, valid |-> "yes"]
    BY <1>5 DEF Heartbeat, Succeeds
  <2>2. presence'.generation = presence.generation /\ presence'.sequence \in 0..MaxReports
    BY <2>1 DEF RegistryWithin
  <2>3. QED
    BY <2>1, <2>2 DEF RegistryWithin
<1>6. CASE PresenceLapses
  <2>1. presence'.generation = presence.generation /\ presence'.sequence = presence.sequence /\ UNCHANGED <<registered, serving, reports>>
    BY <1>0, <1>6 DEF PresenceLapses, Lapsed, Signal
  <2>2. QED
    BY <2>1 DEF RegistryWithin
<1>7. CASE LookAges \/ GatherSignals \/ TellHealth
  <2>1. UNCHANGED <<registered, presence, serving, reports>>
    BY <1>7 DEF LookAges, GatherSignals, TellHealth, Looks
  <2>2. QED
    BY <2>1 DEF RegistryWithin
<1>8. QED
  BY <1>1, <1>2, <1>3, <1>4, <1>5, <1>6, <1>7 DEF RegistryNext

LEMMA RegistryTypes == RegistryInv /\ RegistryWithin => RegistryTypeOK
  BY DEF RegistryWithin, RegistryTypeOK

HIDE RegistryBounds
-----------------------------------------------------------------------------
USE RoutingBounds

LEMMA RoutesBegin == RoutingInit => RoutingWithin
  BY DEF RoutingInit, RoutingWithin

LEMMA RoutesKeepWithin ==
  ASSUME RouteInv, RoutingWithin, [RoutingNext]_routingVars
  PROVE  RoutingWithin'
<1>1. CASE UNCHANGED routingVars
  BY <1>1 DEF routingVars, RoutingWithin
<1>2. ASSUME NEW w \in Router, NEW p \in Profile, SelectProfile(w, p) PROVE RoutingWithin'
  BY <1>2 DEF SelectProfile, RouteMishap, RoutingWithin
<1>3. ASSUME NEW w \in Router, NEW p \in Profile, NEW revision \in 1..MaxEndpoint, RestartHost(w, p, revision)
      PROVE RoutingWithin'
  BY <1>3 DEF RestartHost, RouteMishap, RoutingWithin
<1>4. ASSUME NEW p \in Own, RevokeOwn(p) PROVE RoutingWithin'
  BY <1>4 DEF RevokeOwn, RouteMishap, RoutingWithin
<1>5. ASSUME NEW order \in RoutingPolicy, ChangeRoutePolicy(order) PROVE RoutingWithin'
  BY <1>5 DEF ChangeRoutePolicy, RouteMishap, RoutingWithin
<1>6. ASSUME NEW w \in Router, NEW route, RouteBecomes(w, route) PROVE RoutingWithin'
  BY <1>6 DEF RouteBecomes, RoutingWithin
<1>7. ASSUME NEW t \in RoutedTask,
             \/ RecoverRouted(t) \/ ResumeRouted(t)
             \/ \E model \in [id : Profile, revision : 1..MaxEndpoint] : SwitchModel(t, model)
      PROVE  RoutingWithin'
  BY <1>7 DEF RecoverRouted, ResumeRouted, TaskBecomesState, SwitchModel, RouteMishap, RoutingWithin
<1>8. ASSUME NEW w \in Router, NEW t \in RoutedTask, ResolveRoute(w, t) \/ TakeTask(w, t)
      PROVE  RoutingWithin'
  <2>1. PICK route : RouteBecomes(w, route)
    BY <1>8 DEF ResolveRoute, TakeTask
  <2>2. QED
    BY <1>6, <2>1
<1>9. ASSUME NEW w \in Router,
             \/ LoseRouteSession(w) \/ ReadPolicy(w) \/ ReadProfiles(w) \/ ProbeProfile(w) \/ BuildGateway(w)
             \/ CheckProfiles(w) \/ AdmitTask(w) \/ BeginCall(w) \/ ReadOwnKey(w) \/ CallProvider(w) \/ DropsGateway(w)
      PROVE  RoutingWithin'
  <2>1. ASSUME LoseRouteSession(w) PROVE RoutingWithin'
    BY <2>1 DEF LoseRouteSession, RouteMishap, RoutingWithin
  <2>2. ASSUME ReadPolicy(w) PROVE RoutingWithin'
    <3>1. PICK route : RouteBecomes(w, route)
      BY <2>2 DEF ReadPolicy
    <3>2. QED
      BY <1>6, <3>1
  <2>3. ASSUME GivesRoute(w) \/ (\E state : GivesRouteFor(w, state)) \/ (\E step : RouteStep(w, step))
        PROVE RoutingWithin'
    BY <1>6, <2>3 DEF GivesRoute, GivesRouteFor, RouteStep
  <2>4. CASE BuildGateway(w) \/ CheckProfiles(w) \/ BeginCall(w) \/ ReadOwnKey(w) \/ CallProvider(w) \/ DropsGateway(w)
    BY <2>3, <2>4 DEF BuildGateway, CheckProfiles, BeginCall, ReadOwnKey, CallProvider, DropsGateway
  <2>5. CASE ReadProfiles(w) \/ ProbeProfile(w) \/ AdmitTask(w)
    BY <1>6, <2>3, <2>5 DEF ReadProfiles, ProbeProfile, AdmitTask
  <2>6. QED
    BY <1>9, <2>1, <2>2, <2>4, <2>5
<1>10. QED
  BY <1>1, <1>2, <1>3, <1>4, <1>5, <1>7, <1>8, <1>9 DEF RoutingNext

LEMMA RouteTypes == RouteInv /\ RoutingWithin => RoutingTypeOK
<1> SUFFICES ASSUME RouteInv, RoutingWithin PROVE RoutingTypeOK
  OBVIOUS
<1>1. ASSUME NEW w \in Router
      PROVE  routes[w] \in RouteRow /\ holding[w] \subseteq {"policy", "key", "model"}
  BY DEF RouteInv, RouteRows, RouteSound, Held
<1>2. ASSUME NEW t \in RoutedTask
      PROVE  identities[t] \in ModelRow /\ taskStates[t] \in RoutedStates
  BY DEF RouteInv, RouteRows
<1>3. QED
  BY <1>1, <1>2 DEF RouteRow, ModelRow, RouteSteps, RoutedStates, RoutingWithin, RoutingTypeOK

HIDE RoutingBounds
-----------------------------------------------------------------------------
USE SubscriptionsBounds

LEMMA SubscriptionsBegin == SubscriptionsInit => SubscriptionsWithin
  BY DEF SubscriptionsInit, SubscriptionsWithin, NoSubscription

LEMMA SubscriptionsKeepWithin ==
  ASSUME SubscriptionInv, SubscriptionsWithin, [SubscriptionsNext]_subscriptionVars
  PROVE  SubscriptionsWithin'
<1>0. subscriptions \in [Scope -> SubscriptionRow] /\ applying \in [Applier -> {Unresolved} \cup Application]
  BY DEF SubscriptionInv, SubscriptionRows
<1>1. CASE UNCHANGED subscriptionVars
  BY <1>1 DEF subscriptionVars, SubscriptionsWithin
<1>2. ASSUME NEW o \in SourceEvent, NEW restated \in SourceFacts, FactsChange(o, restated) PROVE SubscriptionsWithin'
  BY <1>2 DEF FactsChange, SubscriptionsWithin
<1>3. ASSUME NEW a \in Applier, NEW o \in SourceEvent, NEW expected \in 0..subscriptions[sourceFacts[o].scope].revision,
             expected < MaxSubscription, ResolveSource(a, o, expected)
      PROVE  SubscriptionsWithin'
  <2>1. PICK call : call.expected = expected /\ applying' = [applying EXCEPT ![a] = call]
    BY <1>3 DEF ResolveSource
  <2>2. \A b \in Applier : applying'[b] # Unresolved => applying'[b].expected < MaxSubscription
    BY <1>0, <1>3, <2>1 DEF SubscriptionsWithin
  <2>3. UNCHANGED <<subscriptions, factChanges>>
    BY <1>3 DEF ResolveSource
  <2>4. QED
    BY <2>2, <2>3 DEF SubscriptionsWithin
\* A call ends.
<1>4. ASSUME NEW a \in Applier, GivesUp(a) \/ InstallSubscription(a)
      PROVE  \A b \in Applier : applying'[b] # Unresolved => applying'[b].expected < MaxSubscription
  <2>1. applying' = [applying EXCEPT ![a] = Unresolved]
    BY <1>4 DEF GivesUp, InstallSubscription
  <2>2. QED
    BY <1>0, <2>1 DEF SubscriptionsWithin
<1>5. ASSUME NEW a \in Applier, GivesUp(a) PROVE SubscriptionsWithin'
  BY <1>4, <1>5 DEF GivesUp, SubscriptionsWithin
<1>6. ASSUME NEW a \in Applier, InstallSubscription(a) PROVE SubscriptionsWithin'
  <2>1. PICK call \in Application : call = applying[a] /\ call.expected < MaxSubscription
    BY <1>0, <1>6 DEF InstallSubscription, SubscriptionsWithin
  <2>2. PICK next : next.revision = call.expected + 1 /\ (\/ UNCHANGED subscriptions
                                                          \/ subscriptions' = [subscriptions EXCEPT ![call.payload.scope] = next])
    BY <1>6, <2>1 DEF InstallSubscription
  <2>3. call.expected \in Nat
    BY DEF Application
  <2>4. \A s \in Scope : subscriptions'[s].revision \in 0..MaxSubscription
    BY <1>0, <2>1, <2>2, <2>3 DEF SubscriptionsWithin
  <2>5. QED
    BY <1>4, <1>6, <2>4 DEF InstallSubscription, SubscriptionsWithin
<1>7. QED
  BY <1>1, <1>2, <1>3, <1>5, <1>6 DEF SubscriptionsNext

LEMMA SubscriptionTypes == SubscriptionInv /\ SubscriptionsWithin => SubscriptionsTypeOK
  BY DEF SubscriptionInv, SubscriptionRows, Application, SubscriptionsWithin, SubscriptionsTypeOK

HIDE SubscriptionsBounds
-----------------------------------------------------------------------------
USE ProfilesBounds

LEMMA ProfilesBegin == ProfilesInit => ProfilesWithin
  BY DEF ProfilesInit, ProfilesWithin

LEMMA ProfilesKeepWithin ==
  ASSUME ProfilesInv, ProfilesWithin, [ProfilesNext]_profileVars
  PROVE  ProfilesWithin'
<1>0. contexts \in [Context -> ContextRow]
  BY DEF ProfilesInv, ProfileRows
<1>1. CASE UNCHANGED profileVars
  BY <1>1 DEF profileVars, ProfilesWithin
\* A Context has one revision more.
<1>2. ASSUME NEW c \in Context, NEW row, contexts' = [contexts EXCEPT ![c] = row], row.revision = contexts[c].revision + 1,
             contexts[c].revision < MaxContextRevision
      PROVE  \A x \in Context : contexts'[x].revision \in 1..MaxContextRevision
  <2>1. contexts[c].revision \in 1..MaxContextRevision
    BY DEF ProfilesWithin
  <2>2. row.revision \in 1..MaxContextRevision
    BY <1>2, <2>1
  <2>3. QED
    BY <1>0, <1>2, <2>2 DEF ProfilesWithin
<1>3. ASSUME NEW c \in Context, NEW grant \in SUBSET Permission, NEW denied \in SUBSET Permission, ContextChanges(c, grant, denied)
      PROVE  ProfilesWithin'
  <2>1. PICK row : /\ contexts' = [contexts EXCEPT ![c] = row] /\ row.revision = contexts[c].revision + 1
                   /\ contexts[c].revision < MaxContextRevision
    BY <1>3 DEF ContextChanges
  <2>2. \A x \in Context : contexts'[x].revision \in 1..MaxContextRevision
    BY <1>2, <2>1
  <2>3. UNCHANGED <<profilePlans, approvals, operating>>
    BY <1>3 DEF ContextChanges
  <2>4. QED
    BY <2>2, <2>3 DEF ProfilesWithin
<1>4. ASSUME NEW request \in appendsSent, AppendCommits(request) PROVE ProfilesWithin'
  <2>1. request.context \in Context
    BY DEF ProfilesInv, ProfileRows
  <2>2. PICK c \in Context, before \in ContextRow : \E version :
          /\ contexts[c] = before /\ before.revision < MaxContextRevision
          /\ contexts' = [contexts EXCEPT ![c] = ContextAfter(before, version)]
    BY <1>0, <1>4, <2>1 DEF AppendCommits
  <2>3. PICK version : contexts' = [contexts EXCEPT ![c] = ContextAfter(before, version)]
    BY <2>2
  <2>4. ContextAfter(before, version).revision = contexts[c].revision + 1
    BY <2>2 DEF ContextAfter, ContextRow
  <2>5. \A x \in Context : contexts'[x].revision \in 1..MaxContextRevision
    BY <1>2, <2>2, <2>3, <2>4
  <2>6. UNCHANGED <<profilePlans, approvals, operating>>
    BY <1>4 DEF AppendCommits
  <2>7. QED
    BY <2>5, <2>6 DEF ProfilesWithin
<1>5. ASSUME NEW plan \in profilePlans, ApprovePlan(plan) \/ WithdrawApproval(plan) PROVE ProfilesWithin'
  BY <1>5 DEF ApprovePlan, WithdrawApproval, ProfilesWithin
<1>6. CASE ChangeOperator
  BY <1>6 DEF ChangeOperator, ProfilesWithin
<1>7. ASSUME NEW o \in Operator, EndPreview(o) PROVE ProfilesWithin'
  <2>1. profilePlans \subseteq profilePlans' /\ UNCHANGED <<contexts, approvals, operating>>
    BY <1>7 DEF EndPreview
  <2>2. QED
    BY <2>1 DEF ProfilesWithin
<1>8. ASSUME NEW o \in Operator,
             \/ \E version \in ProfileVersion : BeginPreview(o, version)
             \/ \E plan \in profilePlans : BeginApply(o, plan)
             \/ \E c \in Context : PreviewContext(o, c) \/ NextContext(o, c)
             \/ EndApply(o) \/ CheckAllowed(o) \/ FindReceipt(o) \/ CompareContext(o) \/ ApproveAgain(o)
             \/ AppendRevision(o) \/ AppendAnswered(o) \/ LookAgain(o) \/ TellApplied(o) \/ PortFails(o) \/ OperatorStops(o)
      PROVE  ProfilesWithin'
  <2>1. UNCHANGED <<contexts, profilePlans, approvals, operating>>
    BY <1>8 DEF BeginPreview, BeginApply, PreviewContext, NextContext, EndApply, CheckAllowed, FindReceipt, CompareContext,
       ApproveAgain, AppendRevision, AppendAnswered, LookAgain, TellApplied, PortFails, OperatorStops, KeptButRuns
  <2>2. QED
    BY <2>1 DEF ProfilesWithin
<1>9. QED
  BY <1>1, <1>3, <1>4, <1>5, <1>6, <1>7, <1>8 DEF ProfilesNext

LEMMA ProfileTypes == ProfilesInv /\ ProfilesWithin => ProfilesTypeOK
<1> SUFFICES ASSUME ProfilesInv, ProfilesWithin PROVE ProfilesTypeOK
  OBVIOUS
<1>1. \A r \in appended : r.plan \in profilePlans /\ r.context \in Context
  BY DEF ProfilesInv, ProfileRows, Receipt
<1>2. ASSUME NEW o \in Operator PROVE profileRuns[o].step \in {"idle", "preview"} \cup ApplyStep
  <2>1. profileRuns[o] \in {NoRun} \cup PreviewRun \cup ApplyRun(profilePlans)
    BY DEF ProfilesInv, ProfileRows
  <2>2. QED
    BY <2>1 DEF NoRun, PreviewRun, ApplyRun
<1>3. QED
  BY <1>1, <1>2 DEF ProfilesWithin, ProfilesTypeOK, ApplyStep

HIDE ProfilesBounds
-----------------------------------------------------------------------------
LEMMA PeersBegin == PeersInit => PeersWithin
<1> SUFFICES ASSUME PeersInit PROVE PeersWithin
  OBVIOUS
<1>1. humanTask = <<>> /\ peerMessages = <<>> /\ escalated = {} /\ \A e \in Endpoint : currentGrant[e] = 0
  BY DEF PeersInit
<1>2. QED
  BY <1>1 DEF PeersWithin

\* The current grants, and the tasks of humans: the two halves move apart.
GrantsOwn == \A e \in Endpoint : currentGrant[e] # 0 => peerGrants[currentGrant[e]].endpoint = e
TasksTrue ==
  /\ humanTask \in Seq(HumanRow) /\ Len(humanTask) = Len(peerMessages)
  /\ escalated \subseteq {m \in Sent : humanTask[m] # NoHumanTask}

LEMMA ControlsKeepWithin ==
  ASSUME PeerInv, PeerTermsInv, PeersWithin,
         \/ \E e \in Endpoint : IssuePeerGrant(e) \/ (\E status \in {"active", "suspended", "revoked"} : SetEndpoint(e, status))
         \/ \E state \in {"active", "suspended", "closing", "closed"} : TransitionChannel(state)
         \/ (\E subject \in {1, 2} : ChangeSubject(subject)) \/ ChannelExpires
         \/ \E g \in DOMAIN peerGrants : RevokePeerGrant(g)
  PROVE  PeersWithin'
<1>0. /\ peerGrants \in Seq(PeerGrant) /\ currentGrant \in [Endpoint -> Nat] /\ Len(peerGrants) \in Nat
      /\ \A e \in Endpoint : currentGrant[e] \in {0} \cup 1..Len(peerGrants)
      /\ GrantsOwn /\ TasksTrue
  BY DEF PeerInv, PeerControlRows, PeerTermsInv, PeerTermRows, GrantNumbers, PeersWithin, GrantsOwn, TasksTrue
<1>1. UNCHANGED <<peerMessages, humanTask, escalated>>
  BY DEF IssuePeerGrant, SetEndpoint, TransitionChannel, ChangeSubject, ChannelExpires, RevokePeerGrant, Controls, ControlsOnly,
     messageVars, humanVars
<1>2. TasksTrue'
  BY <1>0, <1>1 DEF TasksTrue, Sent
<1>3. ASSUME NEW e \in Endpoint, IssuePeerGrant(e) PROVE GrantsOwn'
  <2>1. PICK granted \in PeerGrant : /\ granted.endpoint = e /\ peerGrants' = Append(peerGrants, granted)
                                     /\ currentGrant' = [currentGrant EXCEPT ![e] = Len(peerGrants) + 1]
    BY <1>3 DEF IssuePeerGrant, PeerGrant
  <2>2. peerGrants'[Len(peerGrants) + 1] = granted /\ \A n \in 1..Len(peerGrants) : peerGrants'[n] = peerGrants[n]
    BY <1>0, <2>1
  <2>3. ASSUME NEW f \in Endpoint, currentGrant'[f] # 0 PROVE peerGrants'[currentGrant'[f]].endpoint = f
    BY <1>0, <2>1, <2>2, <2>3 DEF GrantsOwn
  <2>4. QED
    BY <2>3 DEF GrantsOwn
<1>4. ASSUME NEW g \in DOMAIN peerGrants, RevokePeerGrant(g) PROVE GrantsOwn'
  <2>1. peerGrants' = [peerGrants EXCEPT ![g].revoked = "yes"] /\ UNCHANGED currentGrant
    BY <1>4 DEF RevokePeerGrant
  <2>2. \A n \in 1..Len(peerGrants) : peerGrants'[n].endpoint = peerGrants[n].endpoint
    <3>1. \A n \in 1..Len(peerGrants) : peerGrants[n] \in PeerGrant
      BY <1>0
    <3>2. QED
      BY <1>0, <2>1, <3>1 DEF PeerGrant
  <2>3. ASSUME NEW f \in Endpoint, currentGrant'[f] # 0 PROVE peerGrants'[currentGrant'[f]].endpoint = f
    BY <1>0, <2>1, <2>2, <2>3 DEF GrantsOwn
  <2>4. QED
    BY <2>3 DEF GrantsOwn
<1>5. ASSUME UNCHANGED <<peerGrants, currentGrant>> PROVE GrantsOwn'
  <2>1. peerGrants' = peerGrants /\ currentGrant' = currentGrant
    BY <1>5
  <2>2. GrantsOwn
    BY <1>0
  <2>3. QED
    BY <2>1, <2>2 DEF GrantsOwn
<1>6. GrantsOwn'
  <2>1. CASE \E e \in Endpoint : IssuePeerGrant(e)
    BY <1>3, <2>1
  <2>2. CASE \E g \in DOMAIN peerGrants : RevokePeerGrant(g)
    BY <1>4, <2>2
  <2>3. CASE \E e \in Endpoint : \E status \in {"active", "suspended", "revoked"} : SetEndpoint(e, status)
    BY <1>5, <2>3 DEF SetEndpoint
  <2>4. CASE \E state \in {"active", "suspended", "closing", "closed"} : TransitionChannel(state)
    BY <1>5, <2>4 DEF TransitionChannel
  <2>5. CASE (\E subject \in {1, 2} : ChangeSubject(subject)) \/ ChannelExpires
    BY <1>5, <2>5 DEF ChangeSubject, ChannelExpires
  <2>6. QED
    BY <2>1, <2>2, <2>3, <2>4, <2>5
<1>7. QED
  BY <1>2, <1>6 DEF PeersWithin, GrantsOwn, TasksTrue

LEMMA PeersKeepWithin ==
  ASSUME PeerInv, PeerTermsInv, PeersWithin, [PeersNext]_peerVars
  PROVE  PeersWithin'
<1>0. GrantsOwn /\ TasksTrue /\ peerMessages \in Seq(PeerMessage) /\ Sent = 1..Len(peerMessages) /\ Len(peerMessages) \in Nat
  BY DEF PeerInv, PeerMessageRows, PeersWithin, GrantsOwn, TasksTrue, Sent
<1>1. ASSUME UNCHANGED <<controlVars, peerMessages, humanVars>> PROVE PeersWithin'
  BY <1>1 DEF controlVars, humanVars, PeersWithin, Sent
<1>2. CASE UNCHANGED peerVars
  BY <1>1, <1>2 DEF peerVars, messageVars
<1>3. ASSUME UNCHANGED controlVars, TasksTrue' PROVE PeersWithin'
  BY <1>0, <1>3 DEF controlVars, PeersWithin, GrantsOwn, TasksTrue
<1>4. ASSUME \E e \in Endpoint : \E key \in PeerKey : Ask(e, key) PROVE PeersWithin'
  BY <1>1, <1>4 DEF Ask
<1>5. ASSUME NEW r \in asked, SendPeerMessage(r) PROVE PeersWithin'
  <2>1. PICK message : peerMessages' = Append(peerMessages, message)
    BY <1>5 DEF SendPeerMessage
  <2>2. humanTask' = Append(humanTask, NoHumanTask) /\ UNCHANGED <<controlVars, escalated>>
    BY <1>5 DEF SendPeerMessage
  <2>3. humanTask \in Seq(HumanRow) /\ NoHumanTask \in HumanRow /\ Len(humanTask) = Len(peerMessages)
    BY <1>0 DEF TasksTrue, HumanRow
  <2>4. humanTask' \in Seq(HumanRow) /\ Len(humanTask') = Len(peerMessages) + 1
        /\ \A m \in 1..Len(peerMessages) : humanTask'[m] = humanTask[m]
    BY <1>0, <2>2, <2>3
  <2>5. Len(peerMessages') = Len(peerMessages) + 1 /\ Sent' = 1..(Len(peerMessages) + 1)
    BY <1>0, <2>1 DEF Sent
  <2>6. TasksTrue'
    BY <1>0, <2>2, <2>4, <2>5 DEF TasksTrue
  <2>7. QED
    BY <1>3, <2>2, <2>6
<1>6. ASSUME NEW m \in Sent, \E position : Delivers(m, position) PROVE PeersWithin'
  BY <1>1, <1>6 DEF Delivers, messageVars
<1>7. ASSUME NEW m \in Sent, \/ ClaimDelivery(m) \/ CheckDelivery(m) \/ Transport(m) \/ DeliveryUnknown(m)
                             \/ ReconcileDelivery(m) \/ AdmitRetry(m) \/ RetryDelivery(m)
      PROVE  PeersWithin'
  BY <1>6, <1>7 DEF ClaimDelivery, CheckDelivery, Transport, DeliveryUnknown, ReconcileDelivery, AdmitRetry, RetryDelivery
<1>8. ASSUME NEW m \in Sent, NEW task \in HumanRow \ {NoHumanTask}, TaskBecomes(m, task) PROVE PeersWithin'
  <2>1. humanTask' = [humanTask EXCEPT ![m] = task] /\ UNCHANGED <<escalated, controlVars, peerMessages>>
    BY <1>8 DEF TaskBecomes, HumansDo, messageVars
  <2>2. humanTask \in Seq(HumanRow) /\ Len(humanTask) = Len(peerMessages)
    BY <1>0 DEF TasksTrue
  <2>3. humanTask' \in Seq(HumanRow) /\ Len(humanTask') = Len(humanTask)
        /\ \A n \in Sent : humanTask'[n] = (IF n = m THEN task ELSE humanTask[n])
    BY <1>0, <2>1, <2>2
  <2>4. TasksTrue'
    BY <1>0, <2>1, <2>2, <2>3 DEF TasksTrue, Sent
  <2>5. QED
    BY <1>3, <2>1, <2>4
<1>9. ASSUME NEW m \in Sent, EscalateDelivery(m) PROVE PeersWithin'
  <2>1. [state |-> "open", by |-> "nobody"] \in HumanRow \ {NoHumanTask}
    BY DEF HumanRow, NoHumanTask
  <2>2. QED
    BY <1>8, <1>9, <2>1 DEF EscalateDelivery
<1>10. ASSUME NEW m \in Sent, NEW human \in Human, ActOnTask(m, human) PROVE PeersWithin'
  <2>1. humanTask[m] \in HumanRow
    BY <1>0 DEF TasksTrue
  <2>2. ASSUME NEW state \in {"claimed", "resolved"} PROVE [state |-> state, by |-> human] \in HumanRow \ {NoHumanTask}
    BY DEF HumanRow, NoHumanTask
  <2>3. ASSUME humanTask[m].state \in {"open", "claimed"}
        PROVE  [humanTask[m] EXCEPT !.state = "cancelled"] \in HumanRow \ {NoHumanTask}
    BY <2>1, <2>3 DEF HumanRow, NoHumanTask
  <2>4. QED
    BY <1>8, <1>10, <2>2, <2>3 DEF ActOnTask
<1>11. ASSUME NEW m \in Sent, RecordEscalation(m) PROVE PeersWithin'
  <2>1. escalated' = escalated \cup {m} /\ humanTask[m] # NoHumanTask /\ UNCHANGED <<humanTask, controlVars, peerMessages>>
    BY <1>11 DEF RecordEscalation, HumansDo, messageVars
  <2>2. TasksTrue'
    BY <1>0, <2>1 DEF TasksTrue, Sent
  <2>3. QED
    BY <1>3, <2>1, <2>2
<1>12. ASSUME NEW receipt, NEW run, FormalBecomes(receipt, run) PROVE PeersWithin'
  BY <1>1, <1>12 DEF FormalBecomes, messageVars
<1>13. CASE (\E m \in Sent : \E e \in Endpoint : SubmitFormal(e, m)) \/ PerformFormal \/ FinishFormal \/ FormalCallerDies
            \/ QueryFormal \/ RecordQuery
  BY <1>12, <1>13 DEF SubmitFormal, PerformFormal, FinishFormal, FormalCallerDies, QueryFormal, RecordQuery
<1>14. QED
  BY <1>2, <1>4, <1>5, <1>7, <1>9, <1>10, <1>11, <1>13, ControlsKeepWithin DEF PeersNext

LEMMA PeerTypes == PeerInv /\ PeerTermsInv /\ PeersWithin => PeersTypeOK
<1> SUFFICES ASSUME PeerInv, PeerTermsInv, PeersWithin PROVE PeersTypeOK
  OBVIOUS
<1>1. peerChannel.state \in DOMAIN Transitions /\ Len(delivery) = Len(peerMessages)
  BY DEF PeerInv, PeerControlRows, PeerMessageRows, Transitions
<1>2. \A m \in Sent : delivery[m].row \in {"pending", "sending", "delivered", "failed", "unknown"}
  BY MessagesNumbered DEF PeerInv, PeerDelivery
<1>3. ASSUME NEW m \in escalated PROVE m \in Sent /\ humanTask[m].state # "none"
  <2>1. m \in Sent /\ humanTask[m] # NoHumanTask
    BY DEF PeersWithin
  <2>2. m \in 1..Len(humanTask) /\ humanTask \in Seq(HumanRow)
    BY <2>1 DEF PeerInv, PeerMessageRows, Sent, PeersWithin
  <2>3. QED
    BY <2>1, <2>2 DEF HumanRow
<1>4. QED
  BY <1>1, <1>2, <1>3 DEF PeersTypeOK, PeersWithin
-----------------------------------------------------------------------------
(* The records together *)

\* What is inductive of each part: its invariant, and its types with their bounds.
RecordsInv ==
  /\ focus \in Part
  /\ LineageInv
  /\ KeysInv /\ KeysWithin
  /\ AccessInv /\ AccessWithin
  /\ SubscriptionInv /\ SubscriptionsWithin
  /\ SessionInv
  /\ ChannelInv /\ ChannelsWithin
  /\ ConversationInv
  /\ FeedbackInv
  /\ ProfilesInv /\ ProfilesWithin
  /\ RouteInv /\ RoutingWithin
  /\ PapersInv /\ PapersWithin
  /\ KnowledgeInv /\ KnowledgeWithin
  /\ RegistryInv /\ RegistryWithin
  /\ DeployInv /\ ActivationWithin
  /\ EvaluationInv
  /\ PageInv /\ ProgressInv
  /\ PeerInv /\ PeerTermsInv /\ PeersWithin

LEMMA RecordsBegin == RecordsInit => RecordsInv
<1> SUFFICES ASSUME RecordsInit PROVE RecordsInv
  OBVIOUS
<1>1. /\ focus \in Part
      /\ WorkspacesInit
      /\ AccountsInit
      /\ AccessInit
      /\ SubscriptionsInit
      /\ SessionsInit
      /\ ChannelsInit
      /\ ConversationsInit
      /\ FeedbackInit
      /\ ProfilesInit
      /\ RoutingInit
      /\ PapersInit
      /\ KnowledgeInit
      /\ RegistryInit
      /\ DeploymentsInit
      /\ EvaluationsInit
      /\ ViewsInit
      /\ PeersInit
  BY DEF RecordsInit
<1>2. LineageInv
  BY <1>1, LineageBegins
<1>3. KeysInv /\ KeysWithin
  BY <1>1, InitiallyNoKeys, KeysBegin
<1>4. AccessInv /\ AccessWithin
  BY <1>1, InitiallyAllowed, AccessBegins
<1>5. SubscriptionInv /\ SubscriptionsWithin
  BY <1>1, FreshSubscriptions, SubscriptionsBegin
<1>6. SessionInv
  BY <1>1, NothingSaid
<1>7. ChannelInv /\ ChannelsWithin
  BY <1>1, NoMessages, ChannelsBegin
<1>8. ConversationInv
  BY <1>1, NothingReported
<1>9. FeedbackInv
  BY <1>1, NothingReportedYet
<1>10. ProfilesInv /\ ProfilesWithin
  BY <1>1, NoProfileRuns, ProfilesBegin
<1>11. RouteInv /\ RoutingWithin
  BY <1>1, InitiallyRouted, RoutesBegin
<1>12. PapersInv /\ PapersWithin
  BY <1>1, NoPapers, PapersBegin
<1>13. KnowledgeInv /\ KnowledgeWithin
  BY <1>1, NothingIngested, KnowledgeBegins
<1>14. RegistryInv /\ RegistryWithin
  BY <1>1, NobodyPresent, RegistryBegins
<1>15. DeployInv /\ ActivationWithin
  BY <1>1, NothingDeployed, DeploymentsBegin
<1>16. EvaluationInv
  BY <1>1, NothingEvaluated
<1>17. PageInv /\ ProgressInv
  BY <1>1, NothingListed, NothingDelegated
<1>18. PeerInv /\ PeerTermsInv /\ PeersWithin
  BY <1>1, NothingSent, NoTerms, PeersBegin
<1>19. QED
  BY <1>1, <1>2, <1>3, <1>4, <1>5, <1>6, <1>7, <1>8, <1>9, <1>10, <1>11, <1>12, <1>13, <1>14, <1>15, <1>16, <1>17, <1>18 DEF RecordsInv

\* A step is one part's, and leaves the others alone.
LEMMA RecordsStep == RecordsInv /\ [RecordsNext]_recordsVars => RecordsInv'
<1> SUFFICES ASSUME RecordsInv, [RecordsNext]_recordsVars PROVE RecordsInv'
  OBVIOUS
<1>1. /\ focus \in Part
      /\ LineageInv
      /\ KeysInv /\ KeysWithin
      /\ AccessInv /\ AccessWithin
      /\ SubscriptionInv /\ SubscriptionsWithin
      /\ SessionInv
      /\ ChannelInv /\ ChannelsWithin
      /\ ConversationInv
      /\ FeedbackInv
      /\ ProfilesInv /\ ProfilesWithin
      /\ RouteInv /\ RoutingWithin
      /\ PapersInv /\ PapersWithin
      /\ KnowledgeInv /\ KnowledgeWithin
      /\ RegistryInv /\ RegistryWithin
      /\ DeployInv /\ ActivationWithin
      /\ EvaluationInv
      /\ PageInv /\ ProgressInv
      /\ PeerInv /\ PeerTermsInv /\ PeersWithin
  BY DEF RecordsInv
<1>2. UNCHANGED focus
  BY DEF RecordsNext, Only, recordsVars
<1>3. LineageInv'
  <2>1. [WorkspacesNext]_workspaceVars
    BY DEF RecordsNext, Only, recordsVars
  <2>2. QED
    BY <1>1, <2>1, LineageStep
<1>4. KeysInv' /\ KeysWithin'
  <2>1. [AccountsNext]_accountVars
    BY DEF RecordsNext, Only, recordsVars
  <2>2. QED
    BY <1>1, <2>1, KeysStep, KeysKeepWithin
<1>5. AccessInv' /\ AccessWithin'
  <2>1. [AccessNext]_accessVars
    BY DEF RecordsNext, Only, recordsVars
  <2>2. QED
    BY <1>1, <2>1, AllowedStep, AccessKeepsWithin
<1>6. SubscriptionInv' /\ SubscriptionsWithin'
  <2>1. [SubscriptionsNext]_subscriptionVars
    BY DEF RecordsNext, Only, recordsVars
  <2>2. QED
    BY <1>1, <2>1, SubscriptionsStep, SubscriptionsKeepWithin
<1>7. SessionInv'
  <2>1. [SessionsNext]_sessionVars
    BY DEF RecordsNext, Only, recordsVars
  <2>2. QED
    BY <1>1, <2>1, SessionsStep
<1>8. ChannelInv' /\ ChannelsWithin'
  <2>1. [ChannelsNext]_channelVars
    BY DEF RecordsNext, Only, recordsVars
  <2>2. QED
    BY <1>1, <2>1, ChannelsStep, ChannelsKeepWithin
<1>9. ConversationInv'
  <2>1. [ConversationsNext]_conversationVars
    BY DEF RecordsNext, Only, recordsVars
  <2>2. QED
    BY <1>1, <2>1, ConversationsStep
<1>10. FeedbackInv'
  <2>1. [FeedbackNext]_feedbackVars
    BY DEF RecordsNext, Only, recordsVars
  <2>2. QED
    BY <1>1, <2>1, FeedbackStep
<1>11. ProfilesInv' /\ ProfilesWithin'
  <2>1. [ProfilesNext]_profileVars
    BY DEF RecordsNext, Only, recordsVars
  <2>2. QED
    BY <1>1, <2>1, ProfilesStep, ProfilesKeepWithin
<1>12. RouteInv' /\ RoutingWithin'
  <2>1. [RoutingNext]_routingVars
    BY DEF RecordsNext, Only, recordsVars
  <2>2. QED
    BY <1>1, <2>1, RouteInvStep, RoutesKeepWithin
<1>13. PapersInv' /\ PapersWithin'
  <2>1. [PapersNext]_paperVars
    BY DEF RecordsNext, Only, recordsVars
  <2>2. QED
    BY <1>1, <2>1, PapersStep, PapersKeepWithin
<1>14. KnowledgeInv' /\ KnowledgeWithin'
  <2>1. [KnowledgeNext]_knowledgeVars
    BY DEF RecordsNext, Only, recordsVars
  <2>2. QED
    BY <1>1, <2>1, KnowledgeStep, KnowledgeKeepsWithin
<1>15. RegistryInv' /\ RegistryWithin'
  <2>1. [RegistryNext]_registryVars
    BY DEF RecordsNext, Only, recordsVars
  <2>2. QED
    BY <1>1, <2>1, RegistryStep, RegistryKeepsWithin
<1>16. DeployInv' /\ ActivationWithin'
  <2>1. [DeploymentsNext]_deploymentVars
    BY DEF RecordsNext, Only, recordsVars
  <2>2. QED
    BY <1>1, <2>1, DeploymentsStep, ActivationKeeps
<1>17. EvaluationInv'
  <2>1. [EvaluationsNext]_evaluationVars
    BY DEF RecordsNext, Only, recordsVars
  <2>2. QED
    BY <1>1, <2>1, EvaluationsStep
<1>18. PageInv' /\ ProgressInv'
  <2>1. [ViewsNext]_viewVars
    BY DEF RecordsNext, Only, recordsVars
  <2>2. QED
    BY <1>1, <2>1, PagesStep, ProgressStep
<1>19. PeerInv' /\ PeerTermsInv' /\ PeersWithin'
  <2>1. [PeersNext]_peerVars
    BY DEF RecordsNext, Only, recordsVars
  <2>2. QED
    BY <1>1, <2>1, PeersStep, PeerTermsStep, PeersKeepWithin
<1>20. QED
  BY <1>1, <1>2, <1>3, <1>4, <1>5, <1>6, <1>7, <1>8, <1>9, <1>10, <1>11, <1>12, <1>13, <1>14, <1>15, <1>16, <1>17, <1>18, <1>19 DEF RecordsInv

\* Every table and process of every part keeps to the states it can be in, and every count to
\* its bound: no Task performs more tools than it has left, no revision passes the last.
THEOREM RecordsTypeCorrect == RecordsSpec => []RecordsTypeOK
<1>1. RecordsInv => RecordsTypeOK
  <2> SUFFICES ASSUME RecordsInv PROVE RecordsTypeOK
    OBVIOUS
  <2>1. /\ focus \in Part
        /\ LineageInv
        /\ KeysInv /\ KeysWithin
        /\ AccessInv /\ AccessWithin
        /\ SubscriptionInv /\ SubscriptionsWithin
        /\ SessionInv
        /\ ChannelInv /\ ChannelsWithin
        /\ ConversationInv
        /\ FeedbackInv
        /\ ProfilesInv /\ ProfilesWithin
        /\ RouteInv /\ RoutingWithin
        /\ PapersInv /\ PapersWithin
        /\ KnowledgeInv /\ KnowledgeWithin
        /\ RegistryInv /\ RegistryWithin
        /\ DeployInv /\ ActivationWithin
        /\ EvaluationInv
        /\ PageInv /\ ProgressInv
        /\ PeerInv /\ PeerTermsInv /\ PeersWithin
    BY DEF RecordsInv
  <2>2. WorkspacesTypeOK
    BY <2>1, WorkspaceTypes
  <2>3. AccountsTypeOK
    BY <2>1, AccountTypes
  <2>4. AccessTypeOK
    BY <2>1, AccessTypes
  <2>5. SubscriptionsTypeOK
    BY <2>1, SubscriptionTypes
  <2>6. SessionsTypeOK
    BY <2>1, TimelineIsHonest
  <2>7. ChannelsTypeOK
    BY <2>1, ChannelTypes
  <2>8. ConversationsTypeOK
    BY <2>1, ConversationsDoAddUp
  <2>9. FeedbackTypeOK
    BY <2>1, FeedbackTypes
  <2>10. ProfilesTypeOK
    BY <2>1, ProfileTypes
  <2>11. RoutingTypeOK
    BY <2>1, RouteTypes
  <2>12. PapersTypeOK
    BY <2>1, PaperTypes
  <2>13. KnowledgeTypeOK
    BY <2>1, KnowledgeTypes
  <2>14. RegistryTypeOK
    BY <2>1, RegistryTypes
  <2>15. DeploymentsTypeOK
    BY <2>1, DeploymentTypes
  <2>16. EvaluationsTypeOK
    BY <2>1, EvaluationTypes
  <2>17. ViewsTypeOK
    BY <2>1, ViewTypes
  <2>18. PeersTypeOK
    BY <2>1, PeerTypes
  <2>19. QED
    BY <2>1, <2>2, <2>3, <2>4, <2>5, <2>6, <2>7, <2>8, <2>9, <2>10, <2>11, <2>12, <2>13, <2>14, <2>15, <2>16, <2>17, <2>18 DEF RecordsTypeOK
<1>2. QED
  BY <1>1, RecordsBegin, RecordsStep, PTL DEF RecordsSpec
====
