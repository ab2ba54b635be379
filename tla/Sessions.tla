------------------------------ MODULE Sessions ------------------------------
(***************************************************************************)
(* A Session: the append-only timeline of one conversation.  Messages and   *)
(* state changes name the sequence their author read; Tasks start under a   *)
(* pinned snapshot of the timeline and are linked to it afterwards, in a    *)
(* composition of three calls that has no transaction of its own.           *)
(***************************************************************************)
EXTENDS Naturals, FiniteSets

CONSTANTS
  EntryKey,          \* request keys of messages and state changes
  TaskStart,         \* stable request keys of startSessionTask
  MaxTimeline,       \* bound: events of the Session
  MaxSessionMishaps  \* bound: crashes, re-used keys, changes of access

\* Keys are told apart by their prefixes, message: and state: or task:.
ASSUME SessionsAssumption ==
  EntryKey \cap TaskStart = {} /\ MaxTimeline \in Nat /\ MaxSessionMishaps \in Nat

VARIABLES
  session,        \* iaic_sessions: sequence and state
  timeline,       \* iaic_session_events
  entryRequests,  \* what each request key was last sent with
  sessionAccess,  \* what resolveScope and the Task view answer: "yes" or "no"
  sessionTasks,   \* the Tasks of the starts, with the snapshot they are pinned to
  starts,         \* where each start is
  sessionMishaps

sessionVars == <<session, timeline, entryRequests, sessionAccess, sessionTasks, starts, sessionMishaps>>

NoRequest == [kind |-> "none", expected |-> 0]
NoTask == [through |-> 0, pinned |-> {}, made |-> "no"]
NotStarted == [step |-> "idle", through |-> 0]

SessionsInit ==
  /\ session = [sequence |-> 0, state |-> "open"] /\ timeline = {}
  /\ entryRequests = [k \in EntryKey |-> NoRequest] /\ sessionAccess = "yes"
  /\ sessionTasks = [s \in TaskStart |-> NoTask] /\ starts = [s \in TaskStart |-> NotStarted]
  /\ sessionMishaps = 0

TimelineThrough(n) == {e \in timeline : e.sequence <= n}

SessionMishap == sessionMishaps < MaxSessionMishaps /\ sessionMishaps' = sessionMishaps + 1

SessionAccessChanges ==
  /\ SessionMishap /\ sessionAccess' = IF sessionAccess = "yes" THEN "no" ELSE "yes"
  /\ UNCHANGED <<session, timeline, entryRequests, sessionTasks, starts>>
-----------------------------------------------------------------------------
(* append: one transaction under the row of the Session *)

RecordedMut(key) == FALSE

Recorded(key) == \E e \in timeline : e.key = key

Acceptable(kind, expected) ==
  /\ kind = "message" => session.state = "open"
  /\ kind \in {"open", "closed"} => session.state # kind
  /\ kind # "task" => session.sequence = expected

EntryAppended(key, kind, expected) ==
  /\ session' = [sequence |-> session.sequence + 1, state |-> IF kind \in {"open", "closed"} THEN kind
         ELSE session.state]
  /\ timeline' = timeline \cup {[sequence |-> session.sequence + 1, key |-> key, kind |-> kind, expected |-> expected]}

\* An author reads the Session and forms a request; a key that is formed again
\* with another input is a mistake the store must refuse.
FormEntry(k, kind) ==
  /\ IF entryRequests[k] = NoRequest THEN UNCHANGED sessionMishaps ELSE SessionMishap
  /\ entryRequests' = [entryRequests EXCEPT ![k] = [kind |-> kind, expected |-> session.sequence]]
  /\ UNCHANGED <<session, timeline, sessionAccess, sessionTasks, starts>>

\* appendMessage and setState, sent as often as the answer is lost: a recorded key
\* is answered with its event or refused, and changes nothing.
SendEntry(k) ==
  /\ entryRequests[k] # NoRequest /\ sessionAccess = "yes" /\ session.sequence < MaxTimeline
  /\ ~Recorded(k) /\ Acceptable(entryRequests[k].kind, entryRequests[k].expected)
  /\ EntryAppended(k, entryRequests[k].kind, entryRequests[k].expected)
  /\ UNCHANGED <<entryRequests, sessionAccess, sessionTasks, starts, sessionMishaps>>
-----------------------------------------------------------------------------
(* startSessionTask, and the recovery of its receipt *)

StartStep(s, step) == starts' = [starts EXCEPT ![s].step = step]

\* The caller pins the sequence it has read; the identical input is retried.
PinSnapshot(s) ==
  /\ starts[s] = NotStarted
  /\ starts' = [starts EXCEPT ![s] = [step |-> "pinned", through |-> session.sequence]]
  /\ UNCHANGED <<session, timeline, entryRequests, sessionAccess, sessionTasks, sessionMishaps>>

ValidateStart(s) ==
  /\ starts[s].step = "pinned" /\ sessionAccess = "yes" /\ starts[s].through <= session.sequence
  /\ StartStep(s, "valid")
  /\ UNCHANGED <<session, timeline, entryRequests, sessionAccess, sessionTasks, sessionMishaps>>

\* The dispatcher answers an existing Task under the same key.
StartSessionTask(s) ==
  /\ starts[s].step = "valid"
  /\ sessionTasks' = IF sessionTasks[s] = NoTask
                THEN [sessionTasks EXCEPT ![s] = [through |-> starts[s].through, pinned |-> TimelineThrough(starts[s].through), made |-> "yes"]]
                ELSE sessionTasks
  /\ StartStep(s, "started")
  /\ UNCHANGED <<session, timeline, entryRequests, sessionAccess, sessionMishaps>>

LinkAppended(s) == IF Recorded(s) THEN UNCHANGED <<session, timeline>> ELSE EntryAppended(s, "task", 0)

\* linkTask: the Task must be readable, and belong to this Session.
LinkTask(s) ==
  /\ starts[s].step = "started" /\ sessionAccess = "yes" /\ session.sequence < MaxTimeline
  /\ LinkAppended(s) /\ StartStep(s, "linked")
  /\ UNCHANGED <<entryRequests, sessionAccess, sessionTasks, sessionMishaps>>

\* findTask of a deferred start: an existing Task proves the admission; the link
\* is repaired where access allows it, and never waited for.
FindStarted(s) ==
  /\ starts[s].step = "pinned" /\ sessionTasks[s] # NoTask
  /\ IF sessionAccess = "yes" /\ session.sequence < MaxTimeline
       THEN LinkAppended(s) /\ StartStep(s, "linked")
       ELSE UNCHANGED <<session, timeline>> /\ StartStep(s, "found")
  /\ UNCHANGED <<entryRequests, sessionAccess, sessionTasks, sessionMishaps>>

\* A crash, a refusal or a lost answer: the caller begins the same start again.
BeginAgain(s) ==
  /\ SessionMishap /\ starts[s].step \in {"valid", "started", "linked", "found"}
  /\ StartStep(s, "pinned")
  /\ UNCHANGED <<session, timeline, entryRequests, sessionAccess, sessionTasks>>

SessionsNext ==
  \/ SessionAccessChanges
  \/ \E k \in EntryKey : SendEntry(k) \/ \E kind \in {"message", "open", "closed"} : FormEntry(k, kind)
  \/ \E s \in TaskStart : \/ PinSnapshot(s) \/ ValidateStart(s) \/ StartSessionTask(s) \/ LinkTask(s)
                      \/ FindStarted(s) \/ BeginAgain(s)
-----------------------------------------------------------------------------
SessionsTypeOK ==
  /\ session \in [sequence : 0..MaxTimeline, state : {"open", "closed"}]
  /\ timeline \subseteq [sequence : 1..MaxTimeline, key : EntryKey \cup TaskStart,
                         kind : {"message", "open", "closed", "task"}, expected : 0..MaxTimeline]
  /\ \A k \in EntryKey : entryRequests[k].kind \in {"none", "message", "open", "closed"} /\ entryRequests[k].expected \in 0..MaxTimeline
  /\ sessionAccess \in {"yes", "no"} /\ sessionMishaps \in 0..MaxSessionMishaps
  /\ \A s \in TaskStart :
       /\ sessionTasks[s].through \in 0..MaxTimeline /\ sessionTasks[s].pinned \subseteq timeline /\ sessionTasks[s].made \in {"no", "yes"}
       /\ starts[s] \in [step : {"idle", "pinned", "valid", "started", "linked", "found"}, through : 0..MaxTimeline]

\* The state changes up to a sequence, and the last of them.
ClosedAt(n) ==
  \E e \in TimelineThrough(n) : e.kind = "closed" /\ \A f \in TimelineThrough(n) : f.kind = "open" => f.sequence < e.sequence

\* However often calls are repeated and in whatever order they arrive, the timeline
\* has no gap and no event twice; no message stands where the Session was closed,
\* and none whose author had not read all that stands before it; a Task reads the
\* same snapshot for ever; and a start that was answered as linked has one Task
\* with one link, after the snapshot it rests on (sessions/store.js:36-44,
\* sessions/service.js:42-48).
TimelineHonest ==
  /\ {e.sequence : e \in timeline} = 1..session.sequence
  /\ \A e, f \in timeline : e.sequence = f.sequence \/ e.key = f.key => e = f
  /\ session.state = "closed" <=> ClosedAt(session.sequence)
  /\ \A e \in timeline : e.kind = "message" => e.expected = e.sequence - 1 /\ ~ClosedAt(e.expected)
  /\ \A s \in TaskStart :
       /\ TimelineThrough(sessionTasks[s].through) = sessionTasks[s].pinned
       /\ starts[s].step = "linked" => \E e \in timeline : e.key = s
       /\ \A e \in timeline : e.key = s => e.sequence > sessionTasks[s].through /\ sessionTasks[s].made = "yes"
=============================================================================
