----------------------------- MODULE Workspaces -----------------------------
(***************************************************************************)
(* Workspace documents and their lineage.  A version names the exact memory *)
(* revisions and document versions it was derived from; reading, writing    *)
(* and purging walk those references, one query at a time, while memories   *)
(* change and documents are rewritten and removed.                          *)
(***************************************************************************)
EXTENDS Memories, SequencesExt


CONSTANTS
  Path,
  NoPath,      \* no document
  Reader,      \* callers of the workspace, one operation at a time each
  MaxVersion,  \* bound: versions of one document
  SourceCounts, \* bound: how many references a version may have
  MaxVisits,   \* bound: operations begun
  MaxNodes     \* references one walk follows (WorkspaceLineage.maxNodes)

\* A reference says which of the two it is; a memory can be written at least once.
ASSUME WorkspacesAssumption ==
  MemoryKey \cap Path = {} /\ MaxRevision \in Nat \ {0} /\ MaxVersion \in Nat \ {0} /\ MaxNodes \in Nat

VARIABLES
  heads,        \* iaic_workspace_heads: the revision, and whether it is a tombstone
  versions,     \* iaic_workspace_versions: the sources of each version, none once the document is removed
  visits,       \* the operation each caller is in
  visitsBegun,  \* operations begun
  grounds       \* every reference a version rests on, through the documents between

workspaceVars == <<memories, imports, heads, versions, visits, visitsBegun, grounds>>

\* references: memory key and revision, or document path and revision.
Reference == [source : MemoryKey \cup Path, revision : 1..(MaxRevision + MaxVersion)]

NoVisit == [op |-> "idle", path |-> NoPath, revision |-> 0,
            refs |-> {}, todo |-> <<>>, nodes |-> 0, doomed |-> "no"]

Names(s, r) == [source |-> s, revision |-> r]

NothingWritten ==
  /\ MemoriesInit
  /\ heads = [p \in Path |-> [revision |-> 0, deleted |-> "no"]] /\ versions = [p \in Path |-> <<>>]
  /\ grounds = [p \in Path |-> [r \in 1..MaxVersion |-> {}]]

\* A memory was imported, a document derived from it, and another from that document.
ChainWritten == \E k \in MemoryKey : \E p, q \in Path :
  /\ p # q /\ imports = [s \in ImportRequest |-> "receipt"]
  /\ memories = [x \in MemoryKey |->
                   IF x = k THEN [revision |-> 1, state |-> "active", expiry |-> "never"] ELSE NoMemory]
  /\ heads = [x \in Path |-> [revision |-> IF x \in {p, q} THEN 1 ELSE 0, deleted |-> "no"]]
  /\ versions = [x \in Path |-> IF x = p THEN <<{Names(k, 1)}>> ELSE IF x = q THEN <<{Names(p, 1)}>> ELSE <<>>]
  /\ grounds = [x \in Path |-> [r \in 1..MaxVersion |->
                   IF r # 1 \/ x \notin {p, q} THEN {}
                   ELSE IF x = p THEN {Names(k, 1)} ELSE {Names(p, 1), Names(k, 1)}]]

WorkspacesInit ==
  /\ NothingWritten \/ ChainWritten
  /\ visits = [c \in Reader |-> NoVisit] /\ visitsBegun = 0

\* The read of a version: a document that is not removed, at a revision it has.
VersionExists(p, r) == heads[p].deleted = "no" /\ r \in DOMAIN versions[p]

IsHead(p, r) == heads[p].deleted = "no" /\ heads[p].revision = r

\* What the walk asks of one reference, answered now: its memory or document must
\* still be the one that was captured; an old revision that is stored is no source.
LiveMut(ref) ==
  IF ref.source \in MemoryKey
    THEN memories[ref.source].revision = ref.revision /\ StatusOf(ref.source) = "active"
    ELSE VersionExists(ref.source, ref.revision)

Live(ref) ==
  IF ref.source \in MemoryKey
    THEN memories[ref.source].revision = ref.revision /\ StatusOf(ref.source) = "active"
    ELSE IsHead(ref.source, ref.revision)

Followed(refs) ==
  refs \cup UNION {grounds[ref.source][ref.revision] : ref \in {x \in refs : x.source \in Path}}

\* A version one of whose grounds has ended.
Doomed(p, r) == \E ref \in grounds[p][r] :
  IF ref.source \in MemoryKey
    THEN memories[ref.source].revision # ref.revision \/ StatusOf(ref.source) # "active"
    ELSE ~IsHead(ref.source, ref.revision)
-----------------------------------------------------------------------------
VisitBecomes(c, visit) == visits' = [visits EXCEPT ![c] = visit]

\* A caller begins its next operation.
BeginsVisit(c, visit) ==
  /\ visits[c].op = "idle" /\ visitsBegun < MaxVisits /\ visitsBegun' = visitsBegun + 1
  /\ VisitBecomes(c, visit)

\* read: the artifact first; its lineage is checked after.
StartRead(c, p, r) ==
  /\ VersionExists(p, r)
  /\ BeginsVisit(c, [NoVisit EXCEPT !.op = "read", !.path = p, !.revision = r,
                               !.todo = SetToSeq(versions[p][r]),
                               !.doomed = IF Doomed(p, r) THEN "yes" ELSE "no"])
  /\ UNCHANGED <<memories, imports, heads, versions, grounds>>

\* write: what the caller captured as sources, never the document itself, is
\* checked before the store is asked; the caller has read some revision.
StartWrite(c, p, expected, refs) ==
  /\ \A ref \in refs : ref.source # p
  /\ BeginsVisit(c, [NoVisit EXCEPT !.op = "write", !.path = p, !.revision = expected,
                               !.refs = refs, !.todo = SetToSeq(refs)])
  /\ UNCHANGED <<memories, imports, heads, versions, grounds>>

\* purgeInvalid: a page of heads, then one document after the other.
StartPurge(c, p) ==
  /\ VersionExists(p, heads[p].revision)
  /\ BeginsVisit(c, [NoVisit EXCEPT !.op = "purge", !.path = p, !.revision = heads[p].revision,
                               !.todo = SetToSeq(versions[p][heads[p].revision])])
  /\ UNCHANGED <<memories, imports, heads, versions, grounds>>

\* One reference of the walk: a document brings its own, and one that is gone or was
\* replaced refuses a read or a write and lets a purge remove.  A reader that fails,
\* or too many references, resolve nothing: the operation ends, and removes nothing.
FollowReference(c) ==
  /\ visits[c].op \in {"read", "write", "purge"} /\ visits[c].todo # <<>>
  /\ LET ref == Head(visits[c].todo)
         rest == Tail(visits[c].todo) IN
       \/ VisitBecomes(c, NoVisit)
       \/ /\ visits[c].nodes < MaxNodes /\ Live(ref)
          /\ VisitBecomes(c, [visits[c] EXCEPT !.nodes = @ + 1,
                          !.todo = IF ref.source \in Path
                                     THEN SetToSeq(versions[ref.source][ref.revision]) \o rest ELSE rest])
       \/ /\ visits[c].nodes < MaxNodes /\ ~Live(ref)
          /\ VisitBecomes(c, IF visits[c].op = "purge"
                         THEN [visits[c] EXCEPT !.op = "remove", !.todo = <<>>] ELSE NoVisit)
  /\ UNCHANGED <<memories, imports, heads, versions, visitsBegun, grounds>>

\* Every source held: the read is answered.
AnswersRead(c) ==
  /\ visits[c].op = "read" /\ visits[c].todo = <<>>
  /\ VisitBecomes(c, NoVisit)
  /\ UNCHANGED <<memories, imports, heads, versions, visitsBegun, grounds>>

\* PostgresWorkspaceStore.write: one transaction under the lock of the path.
Writable(p, expected) == heads[p].deleted = "no" /\ heads[p].revision = expected

WriteVersion(c) ==
  LET p == visits[c].path
      next == visits[c].revision + 1 IN
    /\ visits[c].op = "write" /\ visits[c].todo = <<>> /\ next <= MaxVersion
    /\ IF Writable(p, visits[c].revision)
         THEN /\ heads' = [heads EXCEPT ![p].revision = next]
              /\ versions' = [versions EXCEPT ![p] = Append(@, visits[c].refs)]
              /\ grounds' = [grounds EXCEPT ![p][next] = Followed(visits[c].refs)]
         ELSE UNCHANGED <<heads, versions, grounds>>
    /\ VisitBecomes(c, NoVisit)
    /\ UNCHANGED <<memories, imports, visitsBegun>>

\* remove: all versions go, the head stays as a tombstone.
Removable(p, expected) == heads[p].deleted = "no" /\ heads[p].revision = expected

RemoveVersions(p, expected) ==
  IF Removable(p, expected)
    THEN /\ heads' = [heads EXCEPT ![p] = [revision |-> @.revision + 1, deleted |-> "yes"]]
         /\ versions' = [versions EXCEPT ![p] = <<>>]
    ELSE UNCHANGED <<heads, versions>>

\* A purge that found nothing wrong goes on; an owner may also refuse to purge.
PurgeKeeps(c) ==
  /\ \/ visits[c].op = "purge" /\ visits[c].todo = <<>>
     \/ visits[c].op = "remove"
  /\ VisitBecomes(c, NoVisit)
  /\ UNCHANGED <<memories, imports, heads, versions, visitsBegun, grounds>>

PurgeRemoves(c) ==
  /\ visits[c].op = "remove"
  /\ RemoveVersions(visits[c].path, visits[c].revision)
  /\ VisitBecomes(c, NoVisit)
  /\ UNCHANGED <<memories, imports, visitsBegun, grounds>>

RemoveDocument(p, expected) ==
  /\ Removable(p, expected) /\ expected > 0 /\ RemoveVersions(p, expected)
  /\ UNCHANGED <<memories, imports, visits, visitsBegun, grounds>>
-----------------------------------------------------------------------------
\* The sources a caller may have captured: versions it has seen, alive or not.
SeenSources == {[source |-> k, revision |-> memories[k].revision] : k \in {x \in MemoryKey : memories[x].revision > 0}}
        \cup {[source |-> p, revision |-> heads[p].revision] : p \in {x \in Path : heads[x].revision \in 1..MaxVersion}}

WorkspacesNext ==
  \/ MemoriesNext /\ UNCHANGED <<heads, versions, visits, visitsBegun, grounds>>
  \/ \E c \in Reader :
       \/ \E p \in Path :
            \/ \E r \in 1..MaxVersion : StartRead(c, p, r)
            \/ \E expected \in 0..heads[p].revision : \E refs \in SUBSET SeenSources :
                 IsFiniteSet(refs) /\ Cardinality(refs) \in SourceCounts /\ StartWrite(c, p, expected, refs)
            \/ StartPurge(c, p)
       \/ FollowReference(c) \/ AnswersRead(c) \/ WriteVersion(c) \/ PurgeKeeps(c) \/ PurgeRemoves(c)
  \/ \E p \in Path : \E expected \in 1..MaxVersion : RemoveDocument(p, expected)

WorkspacesTypeOK ==
  /\ MemoriesTypeOK
  /\ \A p \in Path :
       /\ heads[p].revision \in 0..(MaxVersion + 1) /\ heads[p].deleted \in {"no", "yes"}
       /\ Len(versions[p]) <= MaxVersion /\ \A r \in DOMAIN versions[p] : versions[p][r] \subseteq Reference
       /\ \A r \in 1..MaxVersion : grounds[p][r] \subseteq Reference
  /\ \A c \in Reader :
       /\ visits[c].op \in {"idle", "read", "write", "purge", "remove"}
       /\ visits[c].path \in Path \cup {NoPath} /\ visits[c].revision \in 0..(MaxVersion + 1) /\ visits[c].refs \subseteq Reference
       /\ \A i \in DOMAIN visits[c].todo : visits[c].todo[i] \in Reference
       /\ visits[c].nodes \in 0..MaxNodes /\ visits[c].doomed \in {"no", "yes"}

\* What rests on a source ends with it, for good: no read is answered for a document
\* one of whose sources had ended before the read began, be it forgotten, disputed,
\* removed or only replaced by a newer revision, however deep the source and whatever
\* was relearned, rewritten or reassessed since; a document the purge removes is one
\* that could never be read again at the revision removed, so a correction written
\* meanwhile stays; and no version of a document is ever replaced by another
\* (provenance/workspace.js:35-40, workspace/service.js:20, memory/store.js:66-67).
SourcesGovern ==
  [][ /\ \A c \in Reader : AnswersRead(c) => visits[c].doomed = "no"
      /\ \A c \in Reader : \A p \in Path :
           visits[c].op = "remove" /\ visits'[c].op = "idle" /\ heads'[p] # heads[p]
             => Doomed(p, heads[p].revision)
      /\ \A p \in Path : \A r \in 1..MaxVersion :
           /\ r \in DOMAIN versions[p] /\ r \in DOMAIN versions'[p] => versions'[p][r] = versions[p][r]
           /\ Doomed(p, r) => Doomed(p, r)' ]_workspaceVars
=============================================================================
