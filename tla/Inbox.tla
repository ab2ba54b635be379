-------------------------------- MODULE Inbox --------------------------------
(***************************************************************************)
(* inbox/: store.js and service.js, for one scope.  Producers receive       *)
(* items, the recipient pages through the list from the newest item down,   *)
(* and workers project items into a conversation or a Task through an       *)
(* adapter of the host.                                                    *)
(*                                                                         *)
(* A transaction takes the lock of the scope, draws a number and commits or *)
(* rolls back; numbers are given in the order in which they are asked for,  *)
(* whatever commits first.  Content and read marks are left out.           *)
(*                                                                         *)
(* The adapter is external and keeps its contract (inbox/README.md,         *)
(* Projection and recovery): the id of a projection is its idempotency key, *)
(* and "not_sent" proves that no send that was begun can still arrive.  A   *)
(* send may begin later than its lease: nothing checks the lease again.     *)
(* Each store call of a projection is one step.  The items exist before     *)
(* anybody projects them, and nothing deletes them; authority is a choice,  *)
(* and attempts are numbered in their order.                               *)
(*                                                                         *)
(* Operators ending in Mut are altered forms of the definition below them. *)
(* No action uses them; they show that a property can fail.                *)
(***************************************************************************)
EXTENDS Naturals, FiniteSets

CONSTANTS
  Item, Producer,
  InboxLimit,        \* limit of a page
  MaxInboxMishaps    \* bound: rollbacks

ASSUME InboxAssumption == IsFiniteSet(Item) /\ InboxLimit \in Nat \ {0} /\ MaxInboxMishaps \in Nat

VARIABLES
  sequence,     \* iaic_inbox: sequence of each committed item, or 0
  drawn,        \* sequence numbers given out so far
  archived,     \* items with archived_at
  producer,     \* transaction of each producer
  listing,      \* what the recipient saw, its cursor, and whether that is all
  inboxMishaps

inboxVars == <<sequence, drawn, archived, producer, listing, inboxMishaps>>

NoReceive == [item |-> "none"]
NotListed == [seen |-> {}, before |-> 0, more |-> "unknown"]

InboxTypeOK ==
  /\ sequence \in [Item -> Nat] /\ drawn \in Nat /\ archived \subseteq Item
  /\ producer \in [Producer -> {NoReceive} \cup [item : Item, sequence : Nat]]
  /\ listing \in [seen : SUBSET Item, before : Nat, more : {"unknown", "yes", "no"}]
  /\ inboxMishaps \in Nat

InboxInit ==
  /\ sequence = [m \in Item |-> 0] /\ drawn = 0 /\ archived = {}
  /\ producer = [p \in Producer |-> NoReceive]
  /\ listing = NotListed
  /\ inboxMishaps = 0
-----------------------------------------------------------------------------
InboxMishap == inboxMishaps < MaxInboxMishaps /\ inboxMishaps' = inboxMishaps + 1

(* receive: the lock of the scope is held from the INSERT to the end *)

ScopeFreeMut == TRUE

ScopeFree == \A p \in Producer : producer[p] = NoReceive

InsertItem(p, m) ==
  /\ producer[p] = NoReceive /\ ScopeFree
  /\ drawn < Cardinality(Item) + MaxInboxMishaps
  /\ drawn' = drawn + 1
  /\ producer' = [producer EXCEPT ![p] = [item |-> m, sequence |-> drawn + 1]]
  /\ UNCHANGED <<sequence, archived, listing, inboxMishaps>>

\* A key that exists already keeps its row.
CommitItem(p) ==
  /\ producer[p] # NoReceive
  /\ sequence' = [sequence EXCEPT ![producer[p].item] = IF @ = 0 THEN producer[p].sequence ELSE @]
  /\ producer' = [producer EXCEPT ![p] = NoReceive]
  /\ UNCHANGED <<drawn, archived, listing, inboxMishaps>>

RollbackItem(p) ==
  /\ producer[p] # NoReceive /\ InboxMishap
  /\ producer' = [producer EXCEPT ![p] = NoReceive]
  /\ UNCHANGED <<sequence, drawn, archived, listing>>

(* list: from the newest item, or before the last one seen *)

Listable == {m \in Item : sequence[m] # 0 /\ m \notin archived
                          /\ (listing.before # 0 => sequence[m] < listing.before)}

ListPage ==
  /\ listing.more # "no"
  /\ LET page == {m \in Listable : Cardinality({n \in Listable : sequence[n] > sequence[m]}) < InboxLimit}
         oldest == CHOOSE m \in page : \A n \in page : sequence[m] <= sequence[n]
     IN  IF page = {} THEN listing' = [listing EXCEPT !.more = "no"]
         ELSE listing' = [seen |-> listing.seen \cup page, before |-> sequence[oldest],
                          more |-> IF page = Listable THEN "no" ELSE "yes"]
  /\ UNCHANGED <<sequence, drawn, archived, producer, inboxMishaps>>

ListAgain ==
  /\ listing # NotListed /\ listing' = NotListed
  /\ UNCHANGED <<sequence, drawn, archived, producer, inboxMishaps>>

Archive(m) ==
  /\ sequence[m] # 0 /\ archived' = archived \cup {m}
  /\ UNCHANGED <<sequence, drawn, producer, listing, inboxMishaps>>

InboxNext ==
  \/ \E p \in Producer : CommitItem(p) \/ RollbackItem(p) \/ (\E m \in Item : InsertItem(p, m))
  \/ ListPage \/ ListAgain
  \/ \E m \in Item : Archive(m)

InboxSpec == InboxInit /\ [][InboxNext]_inboxVars
-----------------------------------------------------------------------------
(* Property *)

\* A recipient who pages down the list misses no active item between those it
\* saw, nor below them once there is no next page: no older sequence commits
\* late (inbox/store.js:24-28, 36-47).
ListHidesNothing ==
  \A m \in Item :
    /\ sequence[m] # 0 /\ m \notin archived
    /\ sequence[m] >= listing.before \/ listing.more = "no"
    /\ \E n \in listing.seen : sequence[m] < sequence[n]
    => m \in listing.seen
-----------------------------------------------------------------------------
(* Projections of items: iaic_inbox_projections and its history *)

CONSTANTS
  Projected,              \* items of the Inbox that somebody projects
  Projector,
  MaxProjectionAttempts,  \* bound: claims of one projection
  MaxProjectionMishaps    \* bound: crashes, leases lost by a worker that goes on

ASSUME ProjectionAssumption == MaxProjectionAttempts \in Nat /\ MaxProjectionMishaps \in Nat

VARIABLES
  projections,  \* iaic_inbox_projections
  settled,      \* iaic_inbox_projection_history: items with a delivered row
  projected,    \* items that the adapter delivered
  projector,    \* position of each worker
  projectionMishaps

projectionVars == <<projections, settled, projected, projector, projectionMishaps>>

NoProjection == [step |-> "idle"]

ProjectionTypeOK ==
  /\ settled \subseteq Projected /\ projected \subseteq Projected
  /\ projections \in [Projected -> [state : {"absent", "sending", "delivered", "not_sent", "unknown"},
                                    attempt : 0..MaxProjectionAttempts, lease : {"live", "expired"}]]
  /\ projector \in [Projector -> {NoProjection} \cup
       [step : {"claimed", "unclaimed", "send", "query", "finish"}, item : Projected,
        attempt : 1..MaxProjectionAttempts, status : {"delivered", "not_sent", "unknown"}]]
  /\ projectionMishaps \in Nat

ProjectionInit ==
  /\ projections = [m \in Projected |-> [state |-> "absent", attempt |-> 0, lease |-> "expired"]]
  /\ settled = {} /\ projected = {}
  /\ projector = [p \in Projector |-> NoProjection]
  /\ projectionMishaps = 0
-----------------------------------------------------------------------------
ProjectionMishap ==
  projectionMishaps < MaxProjectionMishaps /\ projectionMishaps' = projectionMishaps + 1

Projecting(p, step, m, attempt, status) ==
  projector' = [projector EXCEPT ![p] = [step |-> step, item |-> m, attempt |-> attempt, status |-> status]]

\* claim: a new attempt, or an unknown one to ask about.
ClaimProjection(p, m) ==
  /\ projector[p] = NoProjection
  /\ LET row == projections[m]
     IN  \/ /\ row.state \in {"absent", "not_sent"} /\ row.attempt < MaxProjectionAttempts
            /\ projections' = [projections EXCEPT ![m] =
                 [state |-> "sending", attempt |-> row.attempt + 1, lease |-> "live"]]
            /\ Projecting(p, "claimed", m, row.attempt + 1, "unknown")
         \/ /\ row.state = "unknown" \/ (row.state = "sending" /\ row.lease = "expired")
            /\ projections' = [projections EXCEPT ![m] = [@ EXCEPT !.state = "unknown"]]
            /\ Projecting(p, "unclaimed", m, row.attempt, "unknown")
  /\ UNCHANGED <<settled, projected, projectionMishaps>>

\* Authority is read again before the effect.
RecheckProjection(p) ==
  /\ LET job == projector[p]
     IN  \/ /\ job.step = "claimed"
            /\ \/ Projecting(p, "send", job.item, job.attempt, "unknown")
               \/ Projecting(p, "finish", job.item, job.attempt, "not_sent")
         \/ /\ job.step = "unclaimed"
            /\ \/ Projecting(p, "query", job.item, job.attempt, "unknown")
               \/ projector' = [projector EXCEPT ![p] = NoProjection]
  /\ UNCHANGED <<projections, settled, projected, projectionMishaps>>

AlsoSends(p, m) == \E q \in Projector \ {p} : projector[q].step = "send" /\ projector[q].item = m

SendProjection(p) ==
  /\ projector[p].step = "send"
  /\ LET m == projector[p].item
     IN  \/ /\ projected' = projected \cup {m}
            /\ \E status \in {"delivered", "unknown"} : Projecting(p, "finish", m, projector[p].attempt, status)
         \/ /\ UNCHANGED projected
            /\ \E status \in {"not_sent", "unknown"} :
                 /\ status = "not_sent" => m \notin projected /\ ~AlsoSends(p, m)
                 /\ Projecting(p, "finish", m, projector[p].attempt, status)
  /\ UNCHANGED <<projections, settled, projectionMishaps>>

QueryProjection(p) ==
  /\ projector[p].step = "query"
  /\ LET m == projector[p].item
         proof == IF m \in projected THEN "delivered" ELSE IF AlsoSends(p, m) THEN "unknown" ELSE "not_sent"
     IN  \E status \in {proof, "unknown"} : Projecting(p, "finish", m, projector[p].attempt, status)
  /\ UNCHANGED <<projections, settled, projected, projectionMishaps>>

UnsettledMut(m, attempt) == projections[m].attempt = attempt

Unsettled(m, attempt) == projections[m].attempt = attempt /\ projections[m].state \in {"sending", "unknown"}

FinishProjection(p) ==
  /\ projector[p].step = "finish"
  /\ LET m == projector[p].item
         status == projector[p].status
     IN  IF Unsettled(m, projector[p].attempt)
         THEN /\ projections' = [projections EXCEPT ![m] = [@ EXCEPT !.state = status, !.lease = "expired"]]
              /\ settled' = IF status = "delivered" THEN settled \cup {m} ELSE settled
         ELSE UNCHANGED <<projections, settled>>
  /\ projector' = [projector EXCEPT ![p] = NoProjection]
  /\ UNCHANGED <<projected, projectionMishaps>>

LeaseRunsOut(m) ==
  /\ projections[m].lease = "live"
  /\ IF \E p \in Projector : projector[p] # NoProjection /\ projector[p].item = m
     THEN ProjectionMishap ELSE UNCHANGED projectionMishaps
  /\ projections' = [projections EXCEPT ![m] = [@ EXCEPT !.lease = "expired"]]
  /\ UNCHANGED <<settled, projected, projector>>

ProjectorDies(p) ==
  /\ projector[p] # NoProjection /\ ProjectionMishap
  /\ projector' = [projector EXCEPT ![p] = NoProjection]
  /\ UNCHANGED <<projections, settled, projected>>

ProjectionNext ==
  \/ \E m \in Projected : LeaseRunsOut(m) \/ (\E p \in Projector : ClaimProjection(p, m))
  \/ \E p \in Projector : \/ RecheckProjection(p) \/ SendProjection(p) \/ QueryProjection(p)
                          \/ FinishProjection(p) \/ ProjectorDies(p)

ProjectionSpec == ProjectionInit /\ [][ProjectionNext]_projectionVars
-----------------------------------------------------------------------------
(* Property *)

\* A projection that its history calls delivered was delivered, and stays so
\* although an earlier worker answers after it (inbox/store.js:78-88,
\* service.js:38-47).
DeliveredStays == \A m \in settled : projections[m].state = "delivered" /\ m \in projected
=============================================================================
