------------------------------ MODULE Accounts ------------------------------
(***************************************************************************)
(* The account directory and the personal keys of its members.  An account, *)
(* an organization and the membership between them are rows under a         *)
(* revision; a personal key acts for the member while all three are active. *)
(* Administrators act on the directory only as members themselves.          *)
(***************************************************************************)
EXTENDS Naturals, FiniteSets

CONSTANTS
  MaxKeys,     \* bound: keys issued, numbered here in that order
  KeyRequest,  \* stable request keys of issue and rotate
  Caller,      \* requests under way: a sign-in, an issue, an operation on the directory
  Entity,      \* the rows of one access: account, organization, membership
  NoOne,       \* no key, no request
  MaxRow,      \* bound: revisions of one directory row
  MaxCalls     \* bound: requests begun

ASSUME AccountsAssumption == MaxKeys \in Nat

\* Bounds are numbers; every row of the directory starts with a revision.
ASSUME AccountsBounds == MaxRow \in Nat \ {0} /\ MaxCalls \in Nat

VARIABLES
  rows,          \* iaic_accounts, iaic_organizations, iaic_memberships
  allowed,       \* what resolveCapabilities and the management policy answer
  personalKeys,  \* iaic_personal_keys
  usedRequests,  \* request keys recorded
  keyCalls,      \* the requests, and what each has learned
  callsBegun

accountVars == <<rows, allowed, personalKeys, usedRequests, keyCalls, callsBegun>>

PersonalKey == 1..MaxKeys

NoKey == [state |-> "absent", root |-> 0]

\* `late': the key had ended when the capabilities were answered.
NoCall == [op |-> "idle", step |-> "begin", key |-> 0, request |-> NoOne,
           entity |-> NoOne, expected |-> 0, late |-> "no"]

AccountsInit ==
  /\ rows = [e \in Entity |-> [state |-> "active", revision |-> 1]]
  /\ allowed = "yes"
  /\ personalKeys = [k \in PersonalKey |-> NoKey] /\ usedRequests = {}
  /\ keyCalls = [c \in Caller |-> NoCall] /\ callsBegun = 0

\* store.access: the three rows in one snapshot.
Admitted == \A e \in Entity : rows[e].state = "active"

CallBecomes(c, call) == keyCalls' = [keyCalls EXCEPT ![c] = call]

EndsCall(c) == CallBecomes(c, NoCall)

GoesTo(c, step) == CallBecomes(c, [keyCalls[c] EXCEPT !.step = step])

AtStep(c, op, step) == keyCalls[c].op = op /\ keyCalls[c].step = step

BeginsCall(c, call) ==
  /\ keyCalls[c].op = "idle" /\ callsBegun < MaxCalls /\ callsBegun' = callsBegun + 1
  /\ CallBecomes(c, call) /\ UNCHANGED <<rows, allowed, personalKeys, usedRequests>>
-----------------------------------------------------------------------------
(* The directory *)

\* put and putMembership: the row at the revision the caller read, nothing else.
PutRow(e, state, expected) ==
  IF rows[e].revision = expected /\ expected < MaxRow
    THEN rows' = [rows EXCEPT ![e] = [state |-> state, revision |-> expected + 1]]
    ELSE UNCHANGED rows

\* A member calls the directory: its own access first, then the policy.
CallDirectory(c, e, expected) ==
  BeginsCall(c, [NoCall EXCEPT !.op = "put", !.entity = e, !.expected = expected])

Permitted(c) ==
  /\ AtStep(c, "put", "begin")
  /\ IF Admitted /\ allowed = "yes" THEN GoesTo(c, "write") ELSE EndsCall(c)
  /\ UNCHANGED <<rows, allowed, personalKeys, usedRequests, callsBegun>>

PutByMember(c) ==
  /\ AtStep(c, "put", "write")
  /\ \E state \in {"active", "inactive"} : PutRow(keyCalls[c].entity, state, keyCalls[c].expected)
  /\ EndsCall(c)
  /\ UNCHANGED <<allowed, personalKeys, usedRequests, callsBegun>>

\* The host acts on the trusted store itself.
PutByHost(e, state) ==
  /\ rows[e].revision < MaxRow /\ rows[e].state # state
  /\ PutRow(e, state, rows[e].revision)
  /\ UNCHANGED <<allowed, personalKeys, usedRequests, keyCalls, callsBegun>>

PolicyChanges ==
  /\ allowed = "yes" /\ allowed' = "no"
  /\ UNCHANGED <<rows, personalKeys, usedRequests, keyCalls, callsBegun>>
-----------------------------------------------------------------------------
(* Issue and rotate a key *)

\* `key' is the key to replace; an issue replaces none.
CallIssue(c, r) == BeginsCall(c, [NoCall EXCEPT !.op = "issue", !.request = r])
CallRotate(c, k, r) == BeginsCall(c, [NoCall EXCEPT !.op = "rotate", !.key = k, !.request = r])

\* manage: the directory, then the management policy; before and after the
\* capabilities and the key to replace are read.
ManageKeys(c) ==
  /\ keyCalls[c].op \in {"issue", "rotate"} /\ keyCalls[c].step \in {"begin", "again"}
  /\ IF Admitted /\ allowed = "yes"
       THEN GoesTo(c, IF keyCalls[c].step = "begin" THEN "allowed" ELSE "insert") ELSE EndsCall(c)
  /\ UNCHANGED <<rows, allowed, personalKeys, usedRequests, callsBegun>>

ReadAllowed(c) ==
  /\ keyCalls[c].op \in {"issue", "rotate"} /\ keyCalls[c].step = "allowed"
  /\ IF allowed = "yes" /\ (keyCalls[c].op = "rotate" => personalKeys[keyCalls[c].key].state # "absent")
       THEN GoesTo(c, "again") ELSE EndsCall(c)
  /\ UNCHANGED <<rows, allowed, personalKeys, usedRequests, callsBegun>>

\* The replaced key is revoked where it is not revoked yet, the new one is
\* inserted, both or neither; a request key that was used is refused.
Replaceable(c) == keyCalls[c].op = "rotate" => personalKeys[keyCalls[c].key].state \in {"live", "expired"}

InsertKey(c) ==
  /\ keyCalls[c].op \in {"issue", "rotate"} /\ keyCalls[c].step = "insert"
  /\ IF Replaceable(c) /\ keyCalls[c].request \notin usedRequests
       THEN \E k \in PersonalKey :
              /\ k = Cardinality({x \in PersonalKey : personalKeys[x].state # "absent"}) + 1
              /\ personalKeys' = [x \in PersonalKey |->
                    CASE x = k -> [state |-> "live", root |-> IF keyCalls[c].op = "rotate"
                                                                THEN personalKeys[keyCalls[c].key].root
                                                                    ELSE k]
                      [] x # k /\ keyCalls[c].op = "rotate" /\ x = keyCalls[c].key -> [personalKeys[x] EXCEPT !.state = "revoked"]
                      [] OTHER -> personalKeys[x]]
              /\ usedRequests' = usedRequests \cup {keyCalls[c].request}
       ELSE UNCHANGED <<personalKeys, usedRequests>>
  /\ EndsCall(c)
  /\ UNCHANGED <<rows, allowed, callsBegun>>

\* revoke: for good, whoever asks again, by a caller that manage let through before.
RevokeKey(k) ==
  /\ personalKeys[k].state \in {"live", "expired"}
  /\ personalKeys' = [personalKeys EXCEPT ![k].state = "revoked"]
  /\ UNCHANGED <<rows, allowed, usedRequests, keyCalls, callsBegun>>

KeyExpires(k) ==
  /\ personalKeys[k].state = "live"
  /\ personalKeys' = [personalKeys EXCEPT ![k].state = "expired"]
  /\ UNCHANGED <<rows, allowed, usedRequests, keyCalls, callsBegun>>
-----------------------------------------------------------------------------
(* access: record, directory, capabilities, and both of the first again *)

KeyWorks(k) == personalKeys[k].state = "live"

SignIn(c, k) ==
  /\ personalKeys[k].state # "absent"
  /\ BeginsCall(c, [NoCall EXCEPT !.op = "access", !.key = k])

ReadKey(c) ==
  /\ AtStep(c, "access", "begin")
  /\ IF KeyWorks(keyCalls[c].key) THEN GoesTo(c, "current") ELSE EndsCall(c)
  /\ UNCHANGED <<rows, allowed, personalKeys, usedRequests, callsBegun>>

ReadMember(c) ==
  /\ AtStep(c, "access", "current")
  /\ IF Admitted THEN GoesTo(c, "allowed") ELSE EndsCall(c)
  /\ UNCHANGED <<rows, allowed, personalKeys, usedRequests, callsBegun>>

\* An application callback, which may take its time.
AskCapabilities(c) ==
  /\ AtStep(c, "access", "allowed")
  /\ IF allowed = "yes"
       THEN CallBecomes(c, [keyCalls[c] EXCEPT !.step = "fresh",
                        !.late = IF KeyWorks(keyCalls[c].key) THEN "no" ELSE "yes"])
       ELSE EndsCall(c)
  /\ UNCHANGED <<rows, allowed, personalKeys, usedRequests, callsBegun>>

StillWorksMut(c) == TRUE

StillWorks(c) == KeyWorks(keyCalls[c].key)

ReadAgain(c) ==
  /\ AtStep(c, "access", "fresh")
  /\ IF StillWorks(c)
       THEN GoesTo(c, "again") ELSE EndsCall(c)
  /\ UNCHANGED <<rows, allowed, personalKeys, usedRequests, callsBegun>>

\* The member as of now: this is what the answer says.
Authenticates(c) ==
  /\ AtStep(c, "access", "again") /\ Admitted
  /\ EndsCall(c)
  /\ UNCHANGED <<rows, allowed, personalKeys, usedRequests, callsBegun>>

Rejects(c) ==
  /\ AtStep(c, "access", "again") /\ ~Admitted
  /\ EndsCall(c)
  /\ UNCHANGED <<rows, allowed, personalKeys, usedRequests, callsBegun>>

AccountsNext ==
  \/ \E c \in Caller :
       \/ \E e \in Entity : \E expected \in 0..rows[e].revision : CallDirectory(c, e, expected)
       \/ Permitted(c) \/ PutByMember(c)
       \/ \E r \in KeyRequest : CallIssue(c, r) \/ \E k \in PersonalKey : CallRotate(c, k, r)
       \/ ManageKeys(c) \/ ReadAllowed(c) \/ InsertKey(c)
       \/ \E k \in PersonalKey : SignIn(c, k)
       \/ ReadKey(c) \/ ReadMember(c) \/ AskCapabilities(c) \/ ReadAgain(c)
       \/ Authenticates(c) \/ Rejects(c)
  \/ \E e \in Entity : \E state \in {"active", "inactive"} : PutByHost(e, state)
  \/ \E k \in PersonalKey : RevokeKey(k) \/ KeyExpires(k)
  \/ PolicyChanges

AccountsSpec == AccountsInit /\ [][AccountsNext]_accountVars
-----------------------------------------------------------------------------
AccountsTypeOK ==
  /\ rows \in [Entity -> [state : {"active", "inactive"}, revision : 1..MaxRow]]
  /\ allowed \in {"yes", "no"} /\ usedRequests \subseteq KeyRequest
  /\ personalKeys \in [PersonalKey -> [state : {"absent", "live", "expired", "revoked"}, root : 0..MaxKeys]]
  /\ \A c \in Caller :
       /\ keyCalls[c].op \in {"idle", "put", "issue", "rotate", "access"}
       /\ keyCalls[c].step \in {"begin", "write", "current", "allowed", "fresh", "again", "insert"}
       /\ keyCalls[c].late \in {"no", "yes"}
  /\ callsBegun \in 0..MaxCalls

\* A key that ended before the policy callback answered is not authenticated, whatever
\* was read of it before; a revoked or expired key never works again; and of a key and all that replaced it,
\* however many rotations raced, one at most works
\* (personal-keys.js:52-56, personal-key-store.js:18-20).
KeysHonest ==
  [][ /\ \A c \in Caller : Authenticates(c) => keyCalls[c].late = "no"
      /\ \A k \in PersonalKey : personalKeys[k].state \in {"revoked", "expired"} => personalKeys'[k].state # "live"
      /\ \A k, other \in PersonalKey : KeyWorks(k) /\ KeyWorks(other) /\ personalKeys[k].root = personalKeys[other].root
           => k = other ]_accountVars
=============================================================================
