---------------------------- MODULE ListingRows ----------------------------
(***************************************************************************)
(* The listings table as the pipeline's workers share it.  The normalizer  *)
(* inserts and overwrites rows (Upsert, the effect of Normalizer on this   *)
(* table); deduplicator, enricher and change detector update the rows they *)
(* find by id, without a lock or a version between them.                   *)
(*                                                                         *)
(* Every attempt at a raw listing builds a normalized listing with a fresh *)
(* uuid (_build_normalized_listing), stores it and only then publishes it, *)
(* but a row keeps the uuid it was first stored with.  The uuid of the     *)
(* n-th upsert is the number n.                                            *)
(***************************************************************************)
EXTENDS Integers, Sequences, FiniteSets

CONSTANTS
  Listings,    \* the (source, source_id, country) of one portal
  Features,    \* Features[l]: place, address, area, bedrooms, type, country,
               \* and whether it is located, addressed, has a year or a BAG id
  Prices,      \* asking prices, in the portal's order of magnitude
  NoId,        \* a canonical_id that is NULL
  MaxUpserts,  \* bound of the model: normalized listings
  Hours,       \* bound of the model: how far the clock moves at a time
  MaxTime      \* bound of the model: hours

ASSUME FeaturesAssumption == \A l \in Listings : Features[l].area \in Nat
ASSUME NoIdAssumption     == NoId \notin Nat
ASSUME HoursAssumption    == Hours \in Nat
ASSUME PricesAssumption   == Prices \subseteq Nat \ {0}

VARIABLES
  rows,        \* the listings table
  upserts,     \* history: the listing that each uuid was given to
  normalized,  \* normalized-listings: the uuid each message carries
  now          \* the clock, in hours

table == <<rows, upserts, normalized, now>>

NoRow == [id |-> 0]
Stored == {l \in Listings : rows[l] # NoRow}
RowOf(id) == {l \in Stored : rows[l].id = id}

\* The listing a message is about, and the messages with the uuid that a row has:
\* one, or none while the first upsert is not published - and for good when that
\* publish fails, for the next attempt announces a uuid that reaches no row.
ListingOf(m) == upserts[normalized[m]]
Naming(l)    == {m \in DOMAIN normalized : normalized[m] = rows[l].id}

RowsInit ==
  /\ rows = [l \in Listings |-> NoRow]
  /\ upserts = <<>>
  /\ normalized = <<>>
  /\ now = 0

Tick ==
  /\ now < MaxTime
  /\ now' = now + Hours
  /\ UNCHANGED <<rows, upserts, normalized>>

\* Some portals give a year of construction.
PortalYear(l) == IF Features[l].year THEN "portal" ELSE "none"

\* A new row is active and belongs to no group; its enrichment is pending.
NewRow(l, id, price) ==
  [id |-> id, price |-> price, seen |-> now, text |-> id, status |-> "active",
   canonical |-> NoId, enrichment |-> "pending", year |-> PortalYear(l), scrapes |-> 1]

\* On conflict the columns of the portal are overwritten, year_built included, and
\* the others are kept: id, status, canonical_id, enrichment_status.
Refreshed(l, id, price) ==
  [rows[l] EXCEPT !.price = price, !.seen = now, !.text = id, !.year = PortalYear(l),
                  !.scrapes = @ + 1]

\* upsert_batch, of a batch that may hold others.
Upsert(l, price) ==
  LET id == Len(upserts) + 1
  IN  /\ id <= MaxUpserts
      /\ rows' = [rows EXCEPT ![l] = IF @ = NoRow THEN NewRow(l, id, price)
                                     ELSE Refreshed(l, id, price)]
      /\ upserts' = Append(upserts, l)
      /\ UNCHANGED <<normalized, now>>

\* _process_batch publishes what it has stored, each pod for itself: another pod may
\* have stored and published the listing again meanwhile.  What is never published
\* failed, or its pod was killed first: the raw message comes again, as one more
\* upsert with a uuid of its own.
PublishNormalized(id) ==
  /\ id \in DOMAIN upserts
  /\ \A m \in DOMAIN normalized : normalized[m] # id
  /\ normalized' = Append(normalized, id)
  /\ UNCHANGED <<rows, upserts, now>>

=============================================================================
