------------------------------ MODULE Enricher ------------------------------
(***************************************************************************)
(* The pipeline's enricher: enricher/service.py.  The pods of its group    *)
(* consume normalized-listings (PyConsumer), ask the official register of  *)
(* the country and the points of interest, write what they learned to the  *)
(* row with the message's uuid and publish enriched-listings.              *)
(***************************************************************************)
EXTENDS PyConsumer, ListingRows, Enrichment

CONSTANTS
  Answers,  \* what the register of each country may answer
  Pois,     \* the pois table
  Replies   \* what Overpass may reply

VARIABLES
  work,     \* process_listing of each pod: how far it is, and what it found
  enriched  \* enriched-listings: uuid, status and columns

enricher == <<broker, work, enriched>>

NoWork == [stage |-> "none", results |-> {}, poi |-> {}]

EnricherInit ==
  /\ BrokerInit
  /\ work = [p \in Pods |-> NoWork]
  /\ enriched = {}

About(p)       == Features[ListingOf(cur[p])]
Working(p, stage) == pc[p] = "wait" /\ work[p].stage = stage
Columns(p)     == work[p].poi \cup UNION {r.columns : r \in work[p].results}
Status(p)      == ResolveOverallStatus(work[p].results, work[p].poi)

\* A plugin never raises: it answers "failed".
EnrichListing(p) ==
  /\ pc[p] = "call"
  /\ \E answer \in Answers[About(p).country] :
       work' = [work EXCEPT ![p] = [stage |-> "poi", results |-> Enriched(About(p), answer), poi |-> {}]]
  /\ Goto(p, "wait")
  /\ UNCHANGED <<log_, group, reader, attempt, dead, faults, enriched, table>>

\* A cached reply is an earlier one, and any reply may come.
CalculatePois(p) ==
  /\ Working(p, "poi")
  /\ \E replies \in [DOMAIN PoiColumn -> Replies] :
       work' = [work EXCEPT ![p].stage = "update", ![p].poi = Calculate(About(p), Pois, replies)]
  /\ UNCHANGED <<broker, enriched, table>>

\* Mutated form: a row is enriched once.
ApplyUpdatesOnce(p) ==
  /\ Working(p, "update")
  /\ rows' = [l \in Listings |->
                IF l \in RowOf(normalized[cur[p]]) /\ rows[l].enrichment = "pending"
                THEN [rows[l] EXCEPT !.enrichment = Status(p),
                                     !.year = IF "year_built" \in Columns(p) THEN "official" ELSE @]
                ELSE rows[l]]
  /\ work' = [work EXCEPT ![p].stage = "publish"]
  /\ UNCHANGED <<broker, enriched, upserts, normalized, now>>

\* The row whose id is the message's uuid: none when the listing had been stored
\* before, for its row kept the first id.
ApplyUpdates(p) ==
  /\ Working(p, "update")
  /\ rows' = [l \in Listings |->
                IF l \in RowOf(normalized[cur[p]])
                THEN [rows[l] EXCEPT !.enrichment = Status(p),
                                     !.year = IF "year_built" \in Columns(p) THEN "official" ELSE @]
                ELSE rows[l]]
  /\ work' = [work EXCEPT ![p].stage = "publish"]
  /\ UNCHANGED <<broker, enriched, upserts, normalized, now>>

PublishEnriched(p) ==
  /\ Working(p, "publish")
  /\ enriched' = enriched \cup {[id |-> normalized[cur[p]], status |-> Status(p), columns |-> Columns(p)]}
  /\ work' = [work EXCEPT ![p] = NoWork]
  /\ Returned(p)
  /\ UNCHANGED <<log_, group, reader, dead, faults, table>>

\* Mutated form: the error is logged, and the message counts as handled.
EnrichErrorLogged(p) ==
  /\ pc[p] \in {"call", "wait"}
  /\ Returned(p)
  /\ Fault
  /\ work' = [work EXCEPT ![p] = NoWork]
  /\ UNCHANGED <<log_, group, reader, dead, enriched, table>>

\* A failed query, update or publish is logged and raised again to consume().
EnrichError(p) ==
  /\ pc[p] \in {"call", "wait"}
  /\ Raised(p)
  /\ Fault
  /\ work' = [work EXCEPT ![p] = NoWork]
  /\ UNCHANGED <<log_, group, reader, dead, enriched, table>>

EnrichGroup(p) ==
  /\ Assign(p) \/ Rebalance(p) \/ StartPod(p) \/ LoopStep(p)
  /\ UNCHANGED <<work, enriched, table>>

EnrichDie(p) ==
  /\ Escape(p) \/ Crash(p)
  /\ work' = [work EXCEPT ![p] = NoWork]
  /\ UNCHANGED <<enriched, table>>

EnrichStep(p) ==
  \/ EnrichListing(p) \/ CalculatePois(p) \/ ApplyUpdates(p) \/ PublishEnriched(p)
  \/ EnrichError(p) \/ EnrichGroup(p) \/ EnrichDie(p)

=============================================================================
