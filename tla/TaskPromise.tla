---------------------------- MODULE TaskPromise ----------------------------
(***************************************************************************)
(* What the Task module promises about durable work, with no executor,     *)
(* database session, generation, token, receipt or waiting reason in it:   *)
(*                                                                         *)
(*  - one Task works at a time, and only a working Task starts an effect;  *)
(*  - the outside world performs an effect only while it is in flight or   *)
(*    its outcome is uncertain, and at most once;                          *)
(*  - an effect recorded as void was never performed and never will be;    *)
(*  - a Task goes back to the queue, and a Task succeeds, only when none   *)
(*    of its effects is in flight or uncertain;                            *)
(*  - succeeded and cancelled are final.                                   *)
(*                                                                         *)
(* TaskStore implements this specification: see ImplementsPromise there.   *)
(***************************************************************************)
CONSTANTS Task, Call

VARIABLES
  stage,    \* stage[t]: where Task t stands
  owner,    \* owner[c]: the Task that effect c belongs to
  effect,   \* effect[c]: what is durably recorded of effect c
  world     \* the effects the outside world has performed

vars == <<stage, owner, effect, world>>

Stage == {"absent", "queued", "working", "waiting", "succeeded", "cancelled"}
Record == {"absent", "intended", "inflight", "uncertain", "known", "void"}

Open(t, records) == \E c \in Call : owner[c] = t /\ effect[c] \in records

Init ==
  /\ stage = [t \in Task |-> "absent"]
  /\ owner = [c \in Call |-> 0]
  /\ effect = [c \in Call |-> "absent"]
  /\ world = {}

Move(t, from, to) ==
  /\ stage[t] \in from
  /\ stage' = [stage EXCEPT ![t] = to]

Mark(c, from, to) ==
  /\ effect[c] \in from
  /\ effect' = [effect EXCEPT ![c] = to]

Admit(t) == Move(t, {"absent"}, "queued") /\ UNCHANGED <<owner, effect, world>>

Begin(t) ==
  /\ Move(t, {"queued"}, "working")
  /\ \A u \in Task : stage[u] # "working"
  /\ \A c \in Call : effect[c] # "inflight"
  /\ UNCHANGED <<owner, effect, world>>

Intend(t, c) ==
  /\ stage[t] = "working"
  /\ Mark(c, {"absent"}, "intended")
  /\ owner' = [owner EXCEPT ![c] = t]
  /\ UNCHANGED <<stage, world>>

Send(t, c) ==
  /\ stage[t] = "working" /\ owner[c] = t
  /\ Mark(c, {"intended"}, "inflight")
  /\ UNCHANGED <<stage, owner, world>>

Perform(c) ==
  /\ effect[c] \in {"inflight", "uncertain"}
  /\ c \notin world
  /\ world' = world \cup {c}
  /\ UNCHANGED <<stage, owner, effect>>

\* The outcome is recorded; the Task may pause in the same step.
Learn(c) ==
  /\ Mark(c, {"inflight"}, "known")
  /\ \/ UNCHANGED stage
     \/ Move(owner[c], {"working"}, "waiting")
  /\ UNCHANGED <<owner, world>>

Doubt(c) == Mark(c, {"inflight"}, "uncertain") /\ UNCHANGED <<stage, owner, world>>

\* Doubt is removed only by evidence that the effect was performed.
Confirm(c) ==
  /\ c \in world
  /\ Mark(c, {"uncertain"}, "known")
  /\ UNCHANGED <<stage, owner, world>>

\* A takeover: nothing in flight is trusted, nothing merely intended is sent.
Interrupt ==
  /\ stage' = [t \in Task |-> IF stage[t] = "working" THEN "waiting" ELSE stage[t]]
  /\ effect' = [c \in Call |-> CASE effect[c] = "inflight" -> "uncertain"
                                 [] effect[c] = "intended" -> "void"
                                 [] OTHER -> effect[c]]
  /\ UNCHANGED <<owner, world>>

Pause(t) == Move(t, {"queued", "working"}, "waiting") /\ UNCHANGED <<owner, effect, world>>

Requeue(t) ==
  /\ ~Open(t, {"inflight", "uncertain"})
  /\ Move(t, {"waiting"}, "queued")
  /\ UNCHANGED <<owner, effect, world>>

Succeed(t) ==
  /\ ~Open(t, {"intended", "inflight", "uncertain"})
  /\ Move(t, {"working"}, "succeeded")
  /\ UNCHANGED <<owner, effect, world>>

Cancel(t) ==
  /\ Move(t, {"queued", "working", "waiting"}, "cancelled")
  /\ UNCHANGED <<owner, effect, world>>

Next ==
  \/ \E t \in Task : Admit(t) \/ Begin(t) \/ Pause(t) \/ Requeue(t) \/ Succeed(t) \/ Cancel(t)
  \/ \E t \in Task, c \in Call : Intend(t, c) \/ Send(t, c)
  \/ \E c \in Call : Perform(c) \/ Learn(c) \/ Doubt(c) \/ Confirm(c)
  \/ Interrupt

Spec == Init /\ [][Next]_vars
=============================================================================
