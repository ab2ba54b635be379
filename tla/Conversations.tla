--------------------------- MODULE Conversations ----------------------------
(***************************************************************************)
(* A reporter's feedback: the message becomes a Support Issue, the Issue    *)
(* gets a conversation, and replies fill in what is missing.  The Issue and *)
(* the conversation are made in two transactions, replies compare the       *)
(* revision they answer, and the reporter's identity is resolved anew       *)
(* between the steps.                                                       *)
(***************************************************************************)
EXTENDS Naturals, FiniteSets

CONSTANTS
  Feedback,         \* the messages a reporter sends as feedback
  Classification,   \* classifications a model suggests
  RequiredField,    \* requiredFields
  ReplyKey,         \* request keys of replies
  Reporting,        \* calls under way
  MaxTurns,         \* revisions of one conversation (100 in the code)
  MaxReportMishaps  \* bound: calls that break off, keys formed again, switches of identity

ASSUME ConversationsAssumption == MaxTurns \in Nat \ {0} /\ MaxReportMishaps \in Nat

VARIABLES
  issues,             \* iaic_support_issues, by the message they were reported with
  conversations,      \* iaic_support_conversations
  conversationTurns,  \* iaic_support_conversation_turns
  replyForms,         \* what each reply key was last sent with
  reporting,          \* the calls, and where they are
  reporter,           \* whom resolveIdentity answers: the reporter or another subject
  reportMishaps

conversationVars == <<issues, conversations, conversationTurns, replyForms, reporting, reporter,
    reportMishaps>>

NoReport == [step |-> "idle"]
NoForm == [message |-> "none"]
NoConversation == [revision |-> 0]

ConversationsInit ==
  /\ issues = [m \in Feedback |-> "none"] /\ conversations = [m \in Feedback |-> NoConversation]
  /\ conversationTurns = {} /\ replyForms = [k \in ReplyKey |-> NoForm]
  /\ reporting = [c \in Reporting |-> NoReport] /\ reporter = "reporter" /\ reportMishaps = 0

\* What the conversation says: the last label, and for each field who gave it.
Conversation(label, given) ==
  [label |-> label, given |-> given,
   state |-> IF \E f \in RequiredField : given[f] = "nobody" THEN "clarifying" ELSE "ready"]

ReportMishap == reportMishaps < MaxReportMishaps /\ reportMishaps' = reportMishaps + 1

SwitchIdentity ==
  /\ ReportMishap /\ reporter' = IF reporter = "reporter" THEN "other" ELSE "reporter"
  /\ UNCHANGED <<issues, conversations, conversationTurns, replyForms, reporting>>

ReportStep(c, call) ==
  /\ reporting' = [reporting EXCEPT ![c] = call]
  /\ UNCHANGED <<replyForms, reporter>>

\* A crash, a lost answer or a refusal: the caller may begin the same call again.
BreaksOff(c) ==
  /\ reporting[c] # NoReport /\ ReportMishap /\ ReportStep(c, NoReport)
  /\ UNCHANGED <<issues, conversations, conversationTurns>>

\* The revalidation that ends every call: answered, or refused to another identity.
EndReport(c) ==
  /\ reporting[c].step = "answer" /\ ReportStep(c, NoReport)
  /\ UNCHANGED <<issues, conversations, conversationTurns, reportMishaps>>
-----------------------------------------------------------------------------
\* start: the trusted message, a suggested label and the details given with it.
BeginReport(c, m, label, fields) ==
  /\ reporting[c] = NoReport /\ reporter = "reporter"
  /\ ReportStep(c, [step |-> "report", message |-> m, initial |-> [label |-> label, fields |-> fields]])
  /\ UNCHANGED <<issues, conversations, conversationTurns, reportMishaps>>

\* The Issue's request key is the hash of the message: reported twice, it is one Issue.
ReportIssue(c) ==
  /\ reporting[c].step = "report" /\ reporter = "reporter"
  /\ issues' = [issues EXCEPT ![reporting[c].message] = "issue"]
  /\ ReportStep(c, [reporting[c] EXCEPT !.step = "converse"])
  /\ UNCHANGED <<conversations, conversationTurns, reportMishaps>>

\* Inserted unless there, and compared: another first label or detail is refused.
Converse(c) ==
  LET m == reporting[c].message
      initial == reporting[c].initial IN
    /\ reporting[c].step = "converse"
    /\ IF conversations[m] = NoConversation
         THEN conversations' = [conversations EXCEPT ![m] =
                [revision |-> 1, initial |-> initial,
                 snapshot |-> Conversation(initial.label,
                                [f \in RequiredField |-> IF f \in initial.fields THEN "initial"
                                    ELSE "nobody"])]]
         ELSE conversations[m].initial = initial /\ UNCHANGED conversations
    /\ ReportStep(c, [step |-> "answer"])
    /\ UNCHANGED <<issues, conversationTurns, reportMishaps>>
-----------------------------------------------------------------------------
\* A reply names the revision its author read; keys may be formed again by mistake.
FormReply(k, m, label, fields) ==
  /\ reporter = "reporter" /\ conversations[m] # NoConversation
  /\ IF replyForms[k] = NoForm THEN UNCHANGED reportMishaps ELSE ReportMishap
  /\ replyForms' = [replyForms EXCEPT ![k] = [message |-> m, expected |-> conversations[m].revision,
                                              label |-> label, fields |-> fields]]
  /\ UNCHANGED <<issues, conversations, conversationTurns, reporting, reporter>>

\* reply: the Issue of the reporter and the identity are checked first.
BeginReply(c, k) ==
  /\ reporting[c] = NoReport /\ reporter = "reporter" /\ replyForms[k] # NoForm
  /\ ReportStep(c, [step |-> "reply", key |-> k, form |-> replyForms[k]])
  /\ UNCHANGED <<issues, conversations, conversationTurns, reportMishaps>>

KnownReplyMut(k, m) == FALSE

KnownReply(k, m) == \E t \in conversationTurns : t.key = k /\ t.message = m

Timely(form) ==
  /\ conversations[form.message].revision = form.expected
  /\ conversations[form.message].revision < MaxTurns

\* One transaction under the row: the recorded result of the key, or the next turn.
StoreReply(c) ==
  LET form == reporting[c].form
      k == reporting[c].key
      row == conversations[form.message]
      next == Conversation(IF form.label = "same" THEN row.snapshot.label ELSE form.label,
                       [f \in RequiredField |-> IF f \in form.fields THEN k ELSE row.snapshot.given[f]]) IN
    /\ reporting[c].step = "reply"
    /\ IF KnownReply(k, form.message)
         THEN /\ \E t \in conversationTurns : t.key = k /\ t.message = form.message /\ t.form = form
              /\ UNCHANGED <<conversations, conversationTurns>>
         ELSE /\ Timely(form)
              /\ conversations' = [conversations EXCEPT ![form.message].revision = @ + 1,
                                                        ![form.message].snapshot = next]
              /\ conversationTurns' = conversationTurns \cup {[message |-> form.message, revision |-> row.revision + 1, key |-> k,
                                       form |-> form, result |-> next]}
    /\ ReportStep(c, [step |-> "answer"])
    /\ UNCHANGED <<issues, reportMishaps>>

ConversationsNext ==
  \/ SwitchIdentity
  \/ \E c \in Reporting :
       \/ BreaksOff(c) \/ EndReport(c) \/ ReportIssue(c) \/ Converse(c) \/ StoreReply(c)
       \/ \E m \in Feedback : \E label \in Classification : \E fields \in SUBSET RequiredField : BeginReport(c, m, label, fields)
       \/ \E k \in ReplyKey : BeginReply(c, k)
  \/ \E k \in ReplyKey : \E m \in Feedback : \E label \in Classification \cup {"same"} : \E fields \in SUBSET RequiredField :
       (label # "same" \/ fields # {}) /\ FormReply(k, m, label, fields)
-----------------------------------------------------------------------------
ConversationsTypeOK ==
  /\ issues \in [Feedback -> {"none", "issue"}] /\ reporter \in {"reporter", "other"}
  /\ \A m \in Feedback : conversations[m].revision \in 0..MaxTurns
  /\ \A t \in conversationTurns : t.message \in Feedback /\ t.revision \in 2..MaxTurns /\ t.key \in ReplyKey
  /\ \A c \in Reporting : reporting[c].step \in {"idle", "report", "converse", "reply", "answer"}
  /\ reportMishaps \in 0..MaxReportMishaps

\* The last turn that gave a field, or the message the conversation began with.
LastGiven(m, f) ==
  LET given == {t \in conversationTurns : t.message = m /\ f \in t.form.fields} IN
    IF given = {} THEN IF f \in conversations[m].initial.fields THEN "initial" ELSE "nobody"
    ELSE (CHOOSE t \in given : \A u \in given : u.revision <= t.revision).key

\* However often calls break off and are repeated, a message has one conversation, on
\* an Issue; its revisions are its turns, each under a key of its own and written by
\* someone who had read the one before; a repeated reply is answered with the result it
\* had; and what the conversation says is what the turns say, so that it is ready only
\* when every missing field was given (support/conversations.js:42-44, 87-115).
ConversationsAddUp ==
  \A m \in {x \in Feedback : conversations[x] # NoConversation} :
    LET said == {t \in conversationTurns : t.message = m} IN
      /\ issues[m] = "issue"
      /\ {t.revision : t \in said} = 2..conversations[m].revision
      /\ \A t, u \in said : t.revision = u.revision \/ t.key = u.key => t = u
      /\ \A t \in said : /\ t.form.expected = t.revision - 1
                         /\ t.revision = conversations[m].revision => conversations[m].snapshot = t.result
      /\ \A f \in RequiredField : conversations[m].snapshot.given[f] = LastGiven(m, f)
      /\ conversations[m].snapshot.state = "ready" => \A f \in RequiredField : LastGiven(m, f) # "nobody"
=============================================================================
