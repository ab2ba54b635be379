----------------------------- MODULE Knowledge -----------------------------
(***************************************************************************)
(* One ingested source of the knowledge catalogue.  A call resolves the      *)
(* source upstream, asks its authorisation again and replaces the chunks at  *)
(* the revision it expects; meanwhile upstream publishes, other calls replace *)
(* or withdraw the source, and the retention sweep erases what has expired.  *)
(***************************************************************************)
EXTENDS Naturals, Sequences

CONSTANTS
  Ingestor,      \* processes that synchronise and sweep
  NoChunks,      \* a source withdrawn, or not yet ingested
  MaxUpstream,   \* bound: changes upstream
  MaxIngested,   \* bound: revisions of the source
  MaxIngests     \* bound: calls begun

\* What was taken away is none of the snapshots there may be.
ASSUME KnowledgeAssumption == NoChunks \notin [version : Nat, text : {"a", "b"}, expires : {"never", "dated"}]

\* A bound is a number.
ASSUME KnowledgeBounds == MaxIngested \in Nat

VARIABLES
  upstream,     \* the source there: version, text and expiry
  source,       \* its row here: revision, what was ingested, and whether its expiry has passed
  ingestions,   \* the calls under way
  erasures,     \* withdrawals and expiries so far
  ingested,     \* what was installed, with the erasures before its call and before the install
  upstreamChanges, ingestsBegun

knowledgeVars == <<upstream, source, ingestions, erasures, ingested, upstreamChanges, ingestsBegun>>

NoIngestion == [step |-> "idle"]

KnowledgeInit ==
  /\ upstream = [version |-> 1, text |-> "a", expires |-> "never"]
  /\ source = [revision |-> 0, chunks |-> NoChunks, due |-> "no"]
  /\ ingestions = [p \in Ingestor |-> NoIngestion]
  /\ erasures = 0 /\ ingested = <<>> /\ upstreamChanges = 0 /\ ingestsBegun = 0

\* Upstream publishes a version; or changes text or metadata under the version it has.
UpstreamChanges ==
  /\ upstreamChanges < MaxUpstream /\ upstreamChanges' = upstreamChanges + 1
  /\ \/ upstream' = [upstream EXCEPT !.version = @ + 1, !.text = "a"]
     \/ upstream.text = "a" /\ upstream' = [upstream EXCEPT !.text = "b"]
     \/ upstream.expires = "never" /\ upstream' = [upstream EXCEPT !.expires = "dated"]
  /\ UNCHANGED <<source, ingestions, erasures, ingested, ingestsBegun>>

\* Only the calls move: with the row or without it.
IngestionBecomes(p, call) ==
  /\ ingestions' = [ingestions EXCEPT ![p] = call]
  /\ UNCHANGED <<upstream, upstreamChanges>>

IngestionOnly(p, call) == IngestionBecomes(p, call) /\ UNCHANGED <<source, erasures, ingested, ingestsBegun>>

IngestBegins(p, call) ==
  /\ ingestions[p] = NoIngestion /\ ingestsBegun < MaxIngests /\ ingestsBegun' = ingestsBegun + 1
  /\ IngestionBecomes(p, call) /\ UNCHANGED <<source, erasures, ingested>>

Ingested == source.chunks # NoChunks

\* A caller expects a revision that it has been told of.
BeginSync(p) ==
  \E expected \in 0..source.revision :
    IngestBegins(p, [step |-> "resolve", expected |-> expected, since |-> erasures])

ResolveUpstream(p) ==
  /\ ingestions[p].step = "resolve"
  /\ IngestionOnly(p, [step |-> "replace", expected |-> ingestions[p].expected, since |-> ingestions[p].since,
                       snapshot |-> upstream])

\* The authorisation is refused, an answer is lost or the process stops.
IngestionBreaks(p) == ingestions[p] # NoIngestion /\ IngestionOnly(p, NoIngestion)

\* The retry of a replacement that was made, and whose answer was lost.
Repeated(call) ==
  /\ Ingested /\ source.chunks = call.snapshot
  /\ call.expected = source.revision \/ call.expected + 1 = source.revision

MayReplaceMut(call) ==
  /\ call.expected = source.revision \/ call.expected + 1 = source.revision
  /\ Ingested => source.chunks.version # call.snapshot.version \/ source.chunks.text = call.snapshot.text

\* At the expected revision; a version that is here does not come with another text.
MayReplace(call) ==
  /\ call.expected = source.revision
  /\ Ingested => source.chunks.version # call.snapshot.version \/ source.chunks.text = call.snapshot.text

ReplaceSource(p) ==
  LET call == ingestions[p] IN
    /\ call.step = "replace" /\ IngestionBecomes(p, NoIngestion) /\ UNCHANGED <<erasures, ingestsBegun>>
    /\ IF Repeated(call) \/ ~MayReplace(call) \/ source.revision >= MaxIngested
         THEN UNCHANGED <<source, ingested>>
         ELSE /\ source' = [revision |-> source.revision + 1, chunks |-> call.snapshot, due |-> "no"]
              /\ ingested' = Append(ingested, [of |-> call.snapshot, since |-> call.since, after |-> erasures])

ErasedMut == [revision |-> 0, chunks |-> NoChunks, due |-> "no"]

\* The row keeps its revision and loses everything else.
Erased == [revision |-> source.revision + 1, chunks |-> NoChunks, due |-> "no"]

WithdrawSource ==
  /\ Ingested /\ source' = Erased /\ erasures' = erasures + 1
  /\ UNCHANGED <<upstream, ingestions, ingested, upstreamChanges, ingestsBegun>>

ExpiryPasses ==
  /\ Ingested /\ source.due = "no" /\ source.chunks.expires = "dated"
  /\ source' = [source EXCEPT !.due = "yes"]
  /\ UNCHANGED <<upstream, ingestions, erasures, ingested, upstreamChanges, ingestsBegun>>

\* A sweep lists the sources whose expiry has passed, then erases them one by one.
ListExpired(p) ==
  Ingested /\ source.due = "yes" /\ IngestBegins(p, [step |-> "expire", expected |-> source.revision])

\* What was replaced meanwhile, or withdrawn, is only told as changed.
ExpireSource(p) ==
  /\ ingestions[p].step = "expire"
  /\ IngestionBecomes(p, NoIngestion) /\ UNCHANGED <<ingested, ingestsBegun>>
  /\ IF Ingested /\ source.revision = ingestions[p].expected /\ source.due = "yes"
       THEN source' = Erased /\ erasures' = erasures + 1
       ELSE UNCHANGED <<source, erasures>>

KnowledgeNext ==
  \/ UpstreamChanges \/ WithdrawSource \/ ExpiryPasses
  \/ \E p \in Ingestor :
       BeginSync(p) \/ ResolveUpstream(p) \/ ReplaceSource(p) \/ ListExpired(p) \/ ExpireSource(p) \/ IngestionBreaks(p)
-----------------------------------------------------------------------------
KnowledgeTypeOK ==
  /\ source.revision \in 0..(MaxIngested + 1) /\ source.revision = Len(ingested) + erasures
  /\ Ingested => source.chunks.version \in 1..upstream.version
  /\ \A p \in Ingestor : ingestions[p].step \in {"idle", "resolve", "replace", "expire"}

\* However calls, retries, withdrawals and expiries interleave: the catalogue never goes
\* back to an older upstream version, never shows two texts of a version between two
\* erasures, and a call begun before an erasure does not undo it
\* (knowledge/ingestion.js:27-43, ingested-store.js:36-52).
KnowledgeForward ==
  /\ \A n \in 1..Len(ingested) : ingested[n].since = ingested[n].after
  /\ \A n \in 2..Len(ingested) :
       LET earlier == ingested[n - 1] later == ingested[n] IN
         /\ earlier.of.version <= later.of.version
         /\ earlier.of.version = later.of.version /\ earlier.after = later.after => earlier.of.text = later.of.text
=============================================================================
