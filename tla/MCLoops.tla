------------------------------ MODULE MCLoops ------------------------------
(***************************************************************************)
(* The loops that promise an end (due work, delegations under a grant,      *)
(* hand-offs, support follow-ups), which share no tables: one instance of   *)
(* each.  As in MCServices, a behaviour has a focus, and only what is in    *)
(* focus moves and is scheduled fairly.                                     *)
(***************************************************************************)
EXTENDS DueWork, Grants, Handoffs, Support

CONSTANTS follow, p1

\* One rule with one occurrence, one intent that waits for a Task to succeed.
Lasts0 == [r \in Rule |-> 0]
Triggers == [i \in Direct |-> "succeeded"]
OneParent == [h \in Handoff |-> p1]

VARIABLE focus

loopsVars == <<focus, dueVars, grantVars, handoffVars, supportVars>>

LoopsInit ==
  /\ focus \in {"due", "grants", "handoffs", "support"}
  /\ DueInit /\ GrantInit /\ HandoffInit /\ SupportInit

LoopsNext ==
  \/ focus = "due" /\ DueNext /\ UNCHANGED <<focus, grantVars, handoffVars, supportVars>>
  \/ focus = "grants" /\ GrantNext /\ UNCHANGED <<focus, dueVars, handoffVars, supportVars>>
  \/ focus = "handoffs" /\ HandoffNext /\ UNCHANGED <<focus, dueVars, grantVars, supportVars>>
  \/ focus = "support" /\ SupportNext /\ UNCHANGED <<focus, dueVars, grantVars, handoffVars>>

\* DueFairness, GrantFairness, HandoffFairness and SupportFairness, each of the
\* behaviours in which it is in focus.
LoopsFairness ==
  /\ \A d \in Dispatcher : WF_dueVars(focus = "due" /\ Dispatch(d))
  /\ \A m \in Materializer : WF_dueVars(focus = "due" /\ Emit(m))
  /\ \A i \in Intent : /\ SF_dueVars(focus = "due" /\ (\E d \in Dispatcher : Claim(d, i)))
                       /\ WF_dueVars(focus = "due" /\ ExpireIntent(i))
  /\ \A r \in Rule : /\ SF_dueVars(focus = "due" /\ (\E m \in Materializer : ClaimRule(m, r)))
                     /\ WF_dueVars(focus = "due" /\ ExpireRule(r))
  /\ WF_grantVars(focus = "grants" /\ TickGrants)
  /\ \A q \in Host : WF_handoffVars(focus = "handoffs" /\ Carry(q))
  /\ \A h \in Handoff : /\ SF_handoffVars(focus = "handoffs" /\ (\E q \in Host : Poll(q, h)))
                        /\ SF_handoffVars(focus = "handoffs" /\ (\E q \in Host : Report(q, h)))
                        /\ WF_handoffVars(focus = "handoffs" /\ DeadlinePasses(h))
  /\ \A f \in Follower : WF_supportVars(focus = "support" /\ Follow(f) /\ UNCHANGED followUpVars)
  /\ WF_supportVars(focus = "support" /\ RetryTimesCome({}) /\ UNCHANGED followUpVars)

LoopsSpec == LoopsInit /\ [][LoopsNext]_loopsVars /\ LoopsFairness

\* Due work is neither lost nor left: an occurrence that was begun is settled or
\* its rule is blocked and says so; an intent that nothing holds back gets its
\* Task, or is blocked or cancelled (recurring/store.js:33-53, deferred/store.js:39-54).
DueWorkSettles == OccurrencesSettle /\ IntentsResolve

\* No hand-off stays open for ever: its child ends when it has to, and its parent
\* goes on (handoffs/service.js:135-147, agent/delegation.js:19-37).
HandoffsEnd == ChildrenEnd /\ DelegationReturns
=============================================================================
