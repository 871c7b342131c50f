-------------------------- MODULE ListingPipeline --------------------------
(***************************************************************************)
(* The normalizer's effect on the listings table together with one of the  *)
(* workers that follow it.  Deduplicator, enricher and scorer write        *)
(* different columns of rows they find by id, and the change detector      *)
(* reads none of theirs: each is explored beside the normalizer, with the  *)
(* consumer group of PyConsumer as its own.                                *)
(***************************************************************************)
EXTENDS Deduplicator, Enricher, ChangeDetector, Scoring

CONSTANT Scope  \* bound of the model: what the workers meet, one of these at a time

ASSUME ScopeAssumption ==
  \A s \in Scope : s.listings \subseteq Listings /\ s.prices \subseteq Prices

VARIABLE scope
worker == scope.worker  \* "dedup", "enrich", "score" or "detect"

scorer == <<results, scoring, rpc, calls, crossed, broken>>
vars   == <<table, broker, found, stale, work, enriched, scorer, detector, scope>>

Init ==
  /\ RowsInit
  /\ BrokerInit
  /\ DedupInit
  /\ EnricherInit
  /\ ScoringInit
  /\ DetectorInit
  /\ scope \in Scope

\* Bounds of the model: the upserts and calls a worker meets, and what disturbs it at
\* a time: faults, calls, and upserts that wait beside one that is announced next.
Waiting == Len(upserts') - Len(normalized') - 1
InScope ==
  /\ Len(upserts') + calls' <= scope.requests
  /\ faults' + calls' <= scope.disturbances
  /\ faults' + calls' + Waiting <= scope.disturbances

\* The normalizer stores a listing, whatever the cycles are doing.
Normalize ==
  /\ \E l \in scope.listings, price \in scope.prices : Upsert(l, price)
  /\ Touch(Tasks)
  /\ UNCHANGED <<broker, found, stale, work, enriched, scorer, scope>>
  /\ UNCHANGED <<cycle, event, events, lastEvent, loopAlive, history, drops, errors, kills>>
  /\ InScope

\* It publishes what it stored, to the workers that follow the topic.
Announce ==
  /\ worker # "detect"
  /\ \E id \in DOMAIN upserts : PublishNormalized(id)
  /\ Produce
  /\ UNCHANGED <<found, stale, work, enriched, scorer, detector, scope>>

Deduplicate ==
  /\ worker = "dedup"
  /\ \E p \in Pods : DedupStep(p)
  /\ UNCHANGED <<work, enriched, scorer, detector, scope>>
  /\ InScope

Enrich ==
  /\ worker = "enrich"
  /\ \E p \in Pods : EnrichStep(p)
  /\ UNCHANGED <<found, stale, scorer, detector, scope>>
  /\ InScope

\* The enricher announces every message of normalized-listings, so the scorer's
\* topic has the same uuids in the same order.
Score ==
  /\ worker = "score"
  /\ \E p \in Pods : ScoringStep(p)
  /\ UNCHANGED <<found, stale, work, enriched, table, detector, scope>>
  /\ InScope

DetectChanges ==
  /\ worker = "detect"
  /\ DetectorStep
  /\ UNCHANGED <<broker, found, stale, work, enriched, scorer, scope>>

Time ==
  /\ worker = "detect"
  /\ Tick
  /\ UNCHANGED <<broker, found, stale, work, enriched, scorer, detector, scope>>

Next == Normalize \/ Announce \/ Deduplicate \/ Enrich \/ Score \/ DetectChanges \/ Time

Spec == Init /\ [][Next]_vars

-----------------------------------------------------------------------------
(* Properties                                                               *)

\* Two listings that match are in one group once a message of each is processed,
\* through merges, chains of matches, repeated scrapes, messages out of the rows'
\* order, redeliveries and crashes - unless a group was resolved with candidates that
\* had changed since they were read, or the tolerance sees the pair from one side only.
MatchesShareCanonical ==
  worker = "dedup" /\ ~stale /\ ~Asymmetric =>
    \A x, y \in {l \in Stored : Resolved(l)} :
      Matches(x, y) => rows[x].canonical = rows[y].canonical

\* A row whose message is behind the enricher's offset has an enrichment status,
\* whatever pods died, answers failed and messages came twice: it stays pending only
\* when that message was given up or never delivered - or when no message has the
\* row's uuid, because the publish after the first upsert failed; the messages of
\* the next attempt and of later scrapes carry other uuids.
PendingNeedsCause ==
  worker = "enrich" =>
    \A l \in Stored :
      rows[l].enrichment = "pending" =>
        \/ Naming(l) = {}
        \/ \E m \in Naming(l) : m > committed \/ m \in dead \/ m <= base

\* The year an enriched listing announces is the year of its row, unless the
\* listing was stored again, for a later scrape or for another attempt at the same
\* one: that put back the portal's year, and the register's answer to the later
\* message reaches no row.
YearLostToScrape ==
  \A e \in enriched :
    "year_built" \in e.columns =>
      LET row == rows[upserts[e.id]] IN row.year # "official" => row.scrapes > 1

\* The score in a row is the one that scored-listings announced last, although the
\* scorer writes the one and then publishes the other.  A pod that dies in between
\* makes it good when its message comes again, unless the message was given up or
\* never comes.  A row that no message names gets scores from calls alone.  Two
\* scorings of one row at a time may end in either order, and a call that ends in
\* between is not made again.
TableAgreesWithTopic ==
  worker = "score" =>
    \A l \in Stored :
      score[l] # announced[l] =>
        \/ \E p \in Pods : l \in Held(scoring[p]) \cup Held(rpc[p])
        \/ l \in crossed \cup broken
        \/ \E m \in Naming(l) : m > committed \/ m \in dead \/ m <= base

=============================================================================
