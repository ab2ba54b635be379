------------------------------- MODULE Outbox -------------------------------
(***************************************************************************)
(* notifications/: store.js, service.js and task-wake.js.  Workers claim    *)
(* notifications with a lease, send them through a channel, and record what *)
(* the channel says; a pump recovers the wakes of one channel by queries    *)
(* and bounded retries.                                                    *)
(*                                                                         *)
(* The channel is external and keeps its contract (notifications/README.md):*)
(* the id of a notification is its idempotency key, and "not_sent" proves   *)
(* that nothing arrived and no send that was begun can still arrive.  For a *)
(* wake, what arrives is the Task with its binding.  Each store call is one *)
(* statement and one step; a worker does one thing between two of them.     *)
(*                                                                         *)
(* Content, recipients and authority are left out: what they refuse is a    *)
(* delivery that is not resolved.  Attempts are numbered in their order.    *)
(*                                                                         *)
(* Operators ending in Mut are altered forms of the definition below them. *)
(* No action uses them; they show that a property can fail.                *)
(***************************************************************************)
EXTENDS Naturals

CONSTANTS
  Note, Wake,        \* notifications, and those that are wakes of Tasks
  Sender,            \* workers: tick, reconcile and pump
  MaxWakeAttempts,   \* maxAttempts of TaskWake
  MaxRetries,        \* bound: explicit retries of one notification
  MaxSendMishaps     \* bound: leases lost by a worker that goes on, and crashes

ASSUME OutboxAssumption ==
  /\ Wake \subseteq Note
  /\ MaxWakeAttempts \in Nat \ {0} /\ MaxRetries \in Nat /\ MaxSendMishaps \in Nat

VARIABLES
  notes,     \* iaic_notifications
  attempts,  \* rows in iaic_notification_attempts of each notification
  arrived,   \* notifications that reached their recipient
  sender,    \* position of each worker
  retries, sendMishaps

outboxVars == <<notes, attempts, arrived, sender, retries, sendMishaps>>

NoJob == [step |-> "idle"]
Status == {"delivered", "not_sent", "unknown"}

OutboxTypeOK ==
  /\ notes \in [Note -> [state : {"absent", "pending", "sending", "delivered", "unknown", "failed", "cancelled"},
                         attempt : Nat, lease : {"live", "expired"}]]
  /\ attempts \in [Note -> Nat]
  /\ arrived \in SUBSET Note
  /\ sender \in [Sender -> {NoJob} \cup [step : {"claimed", "resolved", "sending", "query", "finish", "retry", "tick"},
                                         note : Note, attempt : Nat, status : Status]]
  /\ retries \in [Note -> Nat] /\ sendMishaps \in Nat

OutboxInit ==
  /\ notes = [n \in Note |-> [state |-> "absent", attempt |-> 0, lease |-> "expired"]]
  /\ attempts = [n \in Note |-> 0]
  /\ arrived = {}
  /\ sender = [s \in Sender |-> NoJob]
  /\ retries = [n \in Note |-> 0] /\ sendMishaps = 0
-----------------------------------------------------------------------------
SendMishap == sendMishaps < MaxSendMishaps /\ sendMishaps' = sendMishaps + 1

Job(s, step, n, attempt, status) ==
  sender' = [sender EXCEPT ![s] = [step |-> step, note |-> n, attempt |-> attempt, status |-> status]]

Onward(s, step) == sender' = [sender EXCEPT ![s] = [@ EXCEPT !.step = step]]

Drops(s) == sender' = [sender EXCEPT ![s] = NoJob]

Enqueue(n) ==
  /\ notes[n].state = "absent"
  /\ notes' = [notes EXCEPT ![n] = [@ EXCEPT !.state = "pending"]]
  /\ UNCHANGED <<attempts, arrived, sender, retries, sendMishaps>>

\* claim: a new attempt, which the history records.
ClaimNote(s, n) ==
  /\ sender[s] = NoJob \/ (sender[s].step = "tick" /\ sender[s].note = n)
  /\ notes[n].state = "pending"
  /\ attempts' = [attempts EXCEPT ![n] = @ + 1]
  /\ notes' = [notes EXCEPT ![n] = [state |-> "sending", attempt |-> attempts[n] + 1, lease |-> "live"]]
  /\ Job(s, "claimed", n, attempts[n] + 1, "unknown")
  /\ UNCHANGED <<arrived, retries, sendMishaps>>

\* Another worker took what this one was about to claim.
NothingToClaim(s) ==
  /\ sender[s].step = "tick" /\ notes[sender[s].note].state # "pending"
  /\ Drops(s)
  /\ UNCHANGED <<notes, attempts, arrived, retries, sendMishaps>>

\* Delivery is resolved, or the worker stops or is refused before it sends.
ResolveDelivery(s) ==
  /\ sender[s].step = "claimed"
  /\ \/ Onward(s, "resolved")
     \/ Job(s, "finish", sender[s].note, sender[s].attempt, "not_sent")
  /\ UNCHANGED <<notes, attempts, arrived, retries, sendMishaps>>

CanSendMut(n, attempt) == TRUE

CanSend(n, attempt) ==
  notes[n].attempt = attempt /\ notes[n].state = "sending" /\ notes[n].lease = "live"

CheckLease(s) ==
  /\ sender[s].step = "resolved"
  /\ IF CanSend(sender[s].note, sender[s].attempt) THEN Onward(s, "sending") ELSE Drops(s)
  /\ UNCHANGED <<notes, attempts, arrived, retries, sendMishaps>>

Outstanding(n) == \E s \in Sender : sender[s].step = "sending" /\ sender[s].note = n

\* send: it arrives or not; the answer may be lost either way.
SendNote(s) ==
  /\ sender[s].step = "sending"
  /\ LET n == sender[s].note
         others == \E q \in Sender \ {s} : sender[q].step = "sending" /\ sender[q].note = n
     IN  \/ /\ arrived' = arrived \cup {n}
            /\ \E status \in {"delivered", "unknown"} : Job(s, "finish", n, sender[s].attempt, status)
         \/ /\ UNCHANGED arrived
            /\ \E status \in {"not_sent", "unknown"} :
                 /\ status = "not_sent" => n \notin arrived /\ ~others
                 /\ Job(s, "finish", n, sender[s].attempt, status)
  /\ UNCHANGED <<notes, attempts, retries, sendMishaps>>

\* finish: the attempt still owns the row, and nothing is settled yet.
Finishes(n, attempt) == notes[n].attempt = attempt /\ notes[n].state \in {"sending", "unknown"}

Finish(s) ==
  /\ sender[s].step = "finish"
  /\ LET n == sender[s].note
         state == IF sender[s].status = "not_sent" THEN "failed" ELSE sender[s].status
     IN  notes' = IF Finishes(n, sender[s].attempt)
                  THEN [notes EXCEPT ![n] = [@ EXCEPT !.state = state, !.lease = "expired"]] ELSE notes
  /\ Drops(s)
  /\ UNCHANGED <<attempts, arrived, retries, sendMishaps>>

\* recoverExpired, by the next tick of any worker.
RecoverExpired(n) ==
  /\ notes[n].state = "sending" /\ notes[n].lease = "expired"
  /\ notes' = [notes EXCEPT ![n] = [@ EXCEPT !.state = "unknown"]]
  /\ UNCHANGED <<attempts, arrived, sender, retries, sendMishaps>>

\* reconcile, or the pump at an unknown wake.
Reconcile(s, n) ==
  /\ sender[s] = NoJob /\ notes[n].state = "unknown"
  /\ Job(s, "query", n, notes[n].attempt, "unknown")
  /\ UNCHANGED <<notes, attempts, arrived, retries, sendMishaps>>

QueryChannel(s) ==
  /\ sender[s].step = "query"
  /\ LET n == sender[s].note
         proof == IF n \in arrived THEN "delivered" ELSE IF Outstanding(n) THEN "unknown" ELSE "not_sent"
     IN  \E status \in {proof, "unknown"} : Job(s, "finish", n, sender[s].attempt, status)
  /\ UNCHANGED <<notes, attempts, arrived, retries, sendMishaps>>

(* control: retry and cancel by the owner *)

Retriable(n) == notes[n].state = "failed"

Requeued(n) == [notes EXCEPT ![n] = [state |-> "pending", attempt |-> 0, lease |-> "expired"]]

RetryNote(n) ==
  /\ n \notin Wake /\ Retriable(n) /\ retries[n] < MaxRetries
  /\ notes' = Requeued(n) /\ retries' = [retries EXCEPT ![n] = @ + 1]
  /\ UNCHANGED <<attempts, arrived, sender, sendMishaps>>

CancelNote(n) ==
  /\ n \notin Wake /\ notes[n].state = "pending"
  /\ notes' = [notes EXCEPT ![n] = [@ EXCEPT !.state = "cancelled"]]
  /\ UNCHANGED <<attempts, arrived, sender, retries, sendMishaps>>

(* TaskWake.recover of a failed wake: look at the history, then retry and tick *)

LookAtHistory(s, n) ==
  /\ n \in Wake /\ sender[s] = NoJob
  /\ notes[n].state = "failed" /\ attempts[n] < MaxWakeAttempts
  /\ Job(s, "retry", n, notes[n].attempt, "unknown")
  /\ UNCHANGED <<notes, attempts, arrived, retries, sendMishaps>>

RetryWake(s) ==
  /\ sender[s].step = "retry"
  /\ IF Retriable(sender[s].note) THEN notes' = Requeued(sender[s].note) /\ Onward(s, "tick")
     ELSE Drops(s) /\ UNCHANGED notes
  /\ UNCHANGED <<attempts, arrived, retries, sendMishaps>>

(* Mishaps *)

Deserted(n) == \A s \in Sender : sender[s] # NoJob => sender[s].note # n

ExpireLease(n) ==
  /\ notes[n].lease = "live"
  /\ IF Deserted(n) THEN UNCHANGED sendMishaps ELSE SendMishap
  /\ notes' = [notes EXCEPT ![n] = [@ EXCEPT !.lease = "expired"]]
  /\ UNCHANGED <<attempts, arrived, sender, retries>>

SenderDies(s) ==
  /\ sender[s] # NoJob /\ SendMishap
  /\ Drops(s)
  /\ UNCHANGED <<notes, attempts, arrived, retries>>

OutboxNext ==
  \/ \E n \in Note : \/ Enqueue(n) \/ RecoverExpired(n) \/ RetryNote(n) \/ CancelNote(n) \/ ExpireLease(n)
                     \/ \E s \in Sender : ClaimNote(s, n) \/ Reconcile(s, n) \/ LookAtHistory(s, n)
  \/ \E s \in Sender : \/ NothingToClaim(s) \/ ResolveDelivery(s) \/ CheckLease(s) \/ SendNote(s) \/ Finish(s)
                       \/ QueryChannel(s) \/ RetryWake(s) \/ SenderDies(s)

OutboxSpec == OutboxInit /\ [][OutboxNext]_outboxVars
-----------------------------------------------------------------------------
(* Properties *)

\* What the outbox says of a notification is what happened: delivered only if
\* it arrived; failed or cancelled only if it did not and nobody is about to
\* send it, although a worker may have lost its lease, or answered late
\* (notifications/store.js:54-77, service.js:16-45).
OutboxTellsTruth ==
  \A n \in Note :
    /\ notes[n].state = "delivered" => n \in arrived
    /\ notes[n].state \in {"failed", "cancelled"} => n \notin arrived /\ ~Outstanding(n)

\* "Automatic attempts are bounded (default 3, configurable 1..10)"
\* (notifications/TASK_WAKE.md): the pump never makes one attempt more.
WakeAttemptsBounded == \A n \in Wake : attempts[n] <= MaxWakeAttempts
=============================================================================
