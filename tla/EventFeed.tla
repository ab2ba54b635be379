------------------------------ MODULE EventFeed ------------------------------
(***************************************************************************)
(* events/store.js, events/subscriptions.js and events/tasks.js: publishers *)
(* append immutable events to the feed of one scope; a subscription keeps a *)
(* cursor into the feed; workers turn the events behind the cursor into     *)
(* deferred intents and move the cursor over them.                          *)
(*                                                                         *)
(* A publication is a transaction: it takes the lock of the scope, gets a   *)
(* sequence number and commits or rolls back.  The database gives numbers   *)
(* in the order in which they are asked for, whatever commits first.  Each  *)
(* action is one statement, or a transaction's end.                         *)
(*                                                                         *)
(* Event data, digests and prefixes are left out: a key that belongs to     *)
(* other data rolls back, and every event matches the subscription.         *)
(*                                                                         *)
(* Operators ending in Mut are altered forms of the definition below them. *)
(* No action uses them; they show that a property can fail.                *)
(***************************************************************************)
EXTENDS Naturals, FiniteSets

CONSTANTS
  EventKey, Publisher, Worker,
  PageLimit,       \* limit of a page
  MaxFeedMishaps   \* bound: rollbacks and crashes

ASSUME EventFeedAssumption ==
  IsFiniteSet(EventKey) /\ PageLimit \in Nat \ {0} /\ MaxFeedMishaps \in Nat

VARIABLES
  events,      \* iaic_events: sequence number of each committed key, or 0
  allocated,   \* sequence numbers given out so far
  publisher,   \* transaction of each publisher
  cursor,      \* iaic_event_subscriptions
  scheduled,   \* keys of events that have a deferred intent
  tick,        \* position of each worker
  feedMishaps

feedVars == <<events, allocated, publisher, cursor, scheduled, tick, feedMishaps>>

NoTransaction == [step |-> "idle"]
Rest == [step |-> "rest"]

FeedTypeOK ==
  /\ events \in [EventKey -> Nat] /\ allocated \in Nat
  /\ publisher \in [Publisher -> {NoTransaction} \cup [step : {"locked", "inserted"}, key : EventKey, seq : Nat]]
  /\ cursor \in Nat
  /\ scheduled \subseteq {k \in EventKey : events[k] # 0}
  /\ tick \in [Worker -> {Rest} \cup [step : {"list", "event", "acknowledge"}, at : Nat, page : SUBSET EventKey]]
  /\ feedMishaps \in Nat

FeedInit ==
  /\ events = [k \in EventKey |-> 0] /\ allocated = 0
  /\ publisher = [p \in Publisher |-> NoTransaction]
  /\ cursor = 0 /\ scheduled = {}
  /\ tick = [w \in Worker |-> Rest]
  /\ feedMishaps = 0
-----------------------------------------------------------------------------
FeedMishap == feedMishaps < MaxFeedMishaps /\ feedMishaps' = feedMishaps + 1

(* EventStore.publish *)

LockFreeMut == TRUE

\* The lock of the scope is held until the transaction ends.
LockFree == \A p \in Publisher : publisher[p] = NoTransaction

Lock(p, k) ==
  /\ publisher[p] = NoTransaction /\ LockFree
  /\ publisher' = [publisher EXCEPT ![p] = [step |-> "locked", key |-> k, seq |-> 0]]
  /\ UNCHANGED <<events, allocated, cursor, scheduled, tick, feedMishaps>>

\* INSERT: a number is drawn even when the key turns out to be taken.
Allocate(p) ==
  /\ publisher[p].step = "locked" /\ allocated < Cardinality(EventKey) + MaxFeedMishaps
  /\ allocated' = allocated + 1
  /\ publisher' = [publisher EXCEPT ![p] = [step |-> "inserted", key |-> publisher[p].key, seq |-> allocated + 1]]
  /\ UNCHANGED <<events, cursor, scheduled, tick, feedMishaps>>

Commit(p) ==
  /\ publisher[p].step = "inserted"
  /\ events' = [events EXCEPT ![publisher[p].key] = IF @ = 0 THEN publisher[p].seq ELSE @]
  /\ publisher' = [publisher EXCEPT ![p] = NoTransaction]
  /\ UNCHANGED <<allocated, cursor, scheduled, tick, feedMishaps>>

Rollback(p) ==
  /\ publisher[p] # NoTransaction /\ FeedMishap
  /\ publisher' = [publisher EXCEPT ![p] = NoTransaction]
  /\ UNCHANGED <<events, allocated, cursor, scheduled, tick>>

(* EventTaskSubscriptions.tick *)

\* EventSubscriptions.read looks up the cursor, then lists a page behind it.
ReadCursor(w) ==
  /\ tick[w] = Rest
  /\ tick' = [tick EXCEPT ![w] = [step |-> "list", at |-> cursor, page |-> {}]]
  /\ UNCHANGED <<events, allocated, publisher, cursor, scheduled, feedMishaps>>

Before(k, n) == Cardinality({e \in EventKey : events[e] > n /\ events[e] < events[k]})

\* EventStore.list
PageAfter(n) == {k \in EventKey : events[k] > n /\ Before(k, n) < PageLimit}

First(page) == CHOOSE k \in page : \A e \in page : events[k] <= events[e]

List(w) ==
  /\ tick[w].step = "list"
  /\ LET page == PageAfter(tick[w].at)
     IN  tick' = [tick EXCEPT ![w] = IF page = {} THEN Rest
                                     ELSE [step |-> "event", at |-> tick[w].at, page |-> page]]
  /\ UNCHANGED <<events, allocated, publisher, cursor, scheduled, feedMishaps>>

\* findRequest, or buildTask and schedule under a key made of the event.
ScheduleEvent(w) ==
  /\ tick[w].step = "event"
  /\ scheduled' = scheduled \cup {First(tick[w].page)}
  /\ tick' = [tick EXCEPT ![w] = [@ EXCEPT !.step = "acknowledge"]]
  /\ UNCHANGED <<events, allocated, publisher, cursor, feedMishaps>>

\* advance: a comparison with the cursor this worker knows; an acknowledgement
\* that another worker has overtaken counts as made.
Acknowledge(w) ==
  /\ tick[w].step = "acknowledge"
  /\ LET k == First(tick[w].page)
         rest == tick[w].page \ {k}
         onward == IF rest = {} THEN Rest ELSE [step |-> "event", at |-> events[k], page |-> rest]
     IN  /\ cursor' = IF cursor = tick[w].at THEN events[k] ELSE cursor
         /\ tick' = [tick EXCEPT ![w] = IF cursor' >= events[k] THEN onward ELSE Rest]
  /\ UNCHANGED <<events, allocated, publisher, scheduled, feedMishaps>>

\* A crash, a stop, or a port that refuses the event for now.
AbandonTick(w) ==
  /\ tick[w] # Rest /\ FeedMishap
  /\ tick' = [tick EXCEPT ![w] = Rest]
  /\ UNCHANGED <<events, allocated, publisher, cursor, scheduled>>

Tick(w) == ReadCursor(w) \/ List(w) \/ ScheduleEvent(w) \/ Acknowledge(w)

FeedNext ==
  \/ \E p \in Publisher : \/ Allocate(p) \/ Commit(p) \/ Rollback(p)
                          \/ \E k \in EventKey : Lock(p, k)
  \/ \E w \in Worker : Tick(w) \/ AbandonTick(w)

FeedSpec == FeedInit /\ [][FeedNext]_feedVars
-----------------------------------------------------------------------------
(* Property *)

\* Every event that the cursor has passed has its intent: no late commit hides
\* behind the cursor, and no worker moves the cursor over what it has not
\* scheduled (events/store.js:19-20, events/tasks.js:14-28,
\* subscriptions.js:16-23).
NoEventSkipped == \A k \in EventKey : events[k] # 0 /\ events[k] <= cursor => k \in scheduled
=============================================================================
