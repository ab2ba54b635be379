------------------------------ MODULE Memories ------------------------------
(***************************************************************************)
(* The memories of one assistant: rows that keep their revision through     *)
(* dispute, assessment, expiry and forgetting.  Every operation is one      *)
(* statement or one transaction that compares the revision its caller read; *)
(* `expected' is that revision, which may be old by now.                    *)
(***************************************************************************)
EXTENDS Naturals, FiniteSets

CONSTANTS
  MemoryKey,
  ImportRequest,  \* request keys of imports
  SnapshotKeys,   \* the keys each imported snapshot holds
  MaxRevision     \* bound: revisions of one memory

VARIABLES
  memories,  \* iaic_memories
  imports    \* iaic_memory_imports: the receipts

memoryVars == <<memories, imports>>

NoMemory == [revision |-> 0, state |-> "absent", expiry |-> "never"]

KeptStates == {"active", "disputed", "contradicted"}

MemoriesInit ==
  /\ memories = [k \in MemoryKey |-> NoMemory]
  /\ imports = [s \in ImportRequest |-> "none"]

\* The status `read' answers; only an active memory is content that counts.
StatusOf(k) ==
  IF memories[k].state \in KeptStates /\ memories[k].expiry = "past" THEN "expired" ELSE memories[k].state

Revised(k, state, expiry) ==
  memories' = [memories EXCEPT ![k] = [revision |-> @.revision + 1, state |-> state, expiry |-> expiry]]

\* UPDATE ... WHERE revision=expected; a caller that read nothing expects zero.
Matches(k, expected) ==
  expected > 0 /\ memories[k].revision = expected /\ expected < MaxRevision

Assessable(k, expected) ==
  Matches(k, expected) /\ memories[k].state \in KeptStates /\ memories[k].expiry # "past"
-----------------------------------------------------------------------------
\* #write in its three modes, and revision zero, which only creates.
InsertMemory(k, expiry) ==
  /\ memories[k] = NoMemory /\ Revised(k, "active", expiry)
  /\ UNCHANGED imports

RewriteMemory(k, expected, expiry) ==
  /\ Matches(k, expected) /\ memories[k].state \in {"active", "contradicted"}
  /\ Revised(k, "active", expiry)
  /\ UNCHANGED imports

ResolveDispute(k, expected, expiry) ==
  /\ Matches(k, expected) /\ memories[k].state = "disputed"
  /\ Revised(k, "active", expiry)
  /\ UNCHANGED imports

Relearn(k, expected, expiry) ==
  /\ Matches(k, expected) /\ memories[k].state = "forgotten"
  /\ Revised(k, "active", expiry)
  /\ UNCHANGED imports

DisputeMemory(k, expected) ==
  /\ Assessable(k, expected) /\ memories[k].state # "disputed"
  /\ Revised(k, "disputed", memories[k].expiry)
  /\ UNCHANGED imports

AssessMemory(k, expected, state) ==
  /\ Assessable(k, expected) /\ memories[k].state # "disputed"
  /\ Revised(k, state, memories[k].expiry)
  /\ UNCHANGED imports

ForgetMemory(k, expected) ==
  /\ Matches(k, expected) /\ memories[k].state \in KeptStates
  /\ Revised(k, "forgotten", memories[k].expiry)
  /\ UNCHANGED imports

\* The retention sweep names the revision its page showed.
ExpireMemory(k, expected) ==
  /\ Matches(k, expected) /\ memories[k].state \in KeptStates /\ memories[k].expiry = "past"
  /\ Revised(k, "forgotten", memories[k].expiry)
  /\ UNCHANGED imports

MemoryAges(k) ==
  /\ memories[k].expiry = "later"
  /\ memories' = [memories EXCEPT ![k].expiry = "past"]
  /\ UNCHANGED imports
-----------------------------------------------------------------------------
\* One transaction under the lock of its request key: a key that exists, a
\* tombstone too, rolls everything back; what has expired is skipped, and a
\* second call only answers the receipt.
ImportSnapshot(s, skipped, expiry) ==
  /\ imports[s] = "none"
  /\ \A k \in SnapshotKeys[s] \ skipped : memories[k] = NoMemory
  /\ memories' = [k \in MemoryKey |->
                    IF k \in SnapshotKeys[s] \ skipped
                      THEN [revision |-> 1, state |-> "active", expiry |-> expiry] ELSE memories[k]]
  /\ imports' = [imports EXCEPT ![s] = "receipt"]

MemoriesNext ==
  \/ \E k \in MemoryKey : \E expiry \in {"never", "later"} :
       \/ InsertMemory(k, expiry)
       \/ \E expected \in 1..MaxRevision :
            \/ RewriteMemory(k, expected, expiry) \/ ResolveDispute(k, expected, expiry)
            \/ Relearn(k, expected, expiry)
  \/ \E k \in MemoryKey : \E expected \in 1..MaxRevision :
       \/ DisputeMemory(k, expected) \/ ForgetMemory(k, expected) \/ ExpireMemory(k, expected)
       \/ \E state \in {"active", "contradicted"} : AssessMemory(k, expected, state)
  \/ \E k \in MemoryKey : MemoryAges(k)
  \/ \E s \in ImportRequest : \E skipped \in SUBSET SnapshotKeys[s] : \E expiry \in {"never", "later"} :
       ImportSnapshot(s, skipped, expiry)

MemoriesTypeOK ==
  /\ memories \in [MemoryKey -> [revision : 0..MaxRevision, state : KeptStates \cup {"absent", "forgotten"},
                                 expiry : {"never", "later", "past"}]]
  /\ imports \in [ImportRequest -> {"none", "receipt"}]
=============================================================================
